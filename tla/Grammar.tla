------------------------------ MODULE Grammar ------------------------------
(***************************************************************************)
(* The command line: Parse and String of grammar.go, and the arguments of  *)
(* the profile group as both roles read them (parseProfileArgs).           *)
(*                                                                         *)
(* A token of a command line is a record: `flag` is its spelling when it   *)
(* is flag-shaped and "" otherwise; `text` is the word itself, or what     *)
(* follows the '=' of a flag, or NoText.                                   *)
(***************************************************************************)
EXTENDS Integers, Sequences

CONSTANTS
    Names,     \* words that are valid profile names
    NoText,    \* a flag without '='
    Unquoted   \* what a shell makes of a text without quotes: its words

ASSUME GrammarAssumption == NoText \notin Names \cup {""}

Word(w) == [flag |-> "", text |-> w]
Flag(f) == [flag |-> f, text |-> NoText]
FlagIs(f, w) == [flag |-> f, text |-> w]
Absent == Flag("")    \* no value: never a token of a command line

IsFlag(t) == t.flag # ""
IsGlobal(t) == t.flag \in {"-p", "--profile"}

\* The shell's empty word, and the empty value of "-p=".
Empty == Word("")

\* The texts a shell leaves whole without quotes: nothing to split or expand.
Bare == {w \in DOMAIN Unquoted : Unquoted[w] = <<Word(w)>>}

NoCommand == [verb |-> "", global |-> Absent, rest |-> <<>>]

-----------------------------------------------------------------------------
\* The value of the global at position i: after its '=', or the next token,
\* whatever it looks like.
Value(args, i) ==
    CASE args[i].text # NoText -> Word(args[i].text)
      [] args[i].text = NoText /\ i < Len(args) -> args[i + 1]
      [] OTHER -> Empty

Consumed(args, i) == IF args[i].text = NoText /\ i < Len(args) THEN 2 ELSE 1

\* Where the loop can stand: an argument, or past the last, with the verb still
\* looked for or only the rest.
Positions(args) == (1..Len(args) + 1) \X {"verb", "rest"}

\* What one more argument adds to a result: a global, unless a later one has
\* been set; a token before the rest; the verb.
Hoists(r, v) == [r EXCEPT !.cmd.global = IF @ = Absent THEN v ELSE @]
Keeps(r, t) == [r EXCEPT !.cmd.rest = <<t>> \o @]
Begins(r, w) == [r EXCEPT !.cmd.verb = w]

\* One turn of the loop at p, given what the later turns read.  The global is
\* hoisted from wherever it is and the last one wins; the first other word is the
\* verb (an empty one leaves it open); the rest keeps its order.
Turn(args, later, p) ==
    LET i == p[1] IN
    IF i > Len(args) THEN [ok |-> TRUE, cmd |-> NoCommand]
    ELSE IF IsGlobal(args[i])
    THEN IF Value(args, i) = Empty THEN [ok |-> FALSE, cmd |-> NoCommand]
         ELSE Hoists(later[<<i + Consumed(args, i), p[2]>>], Value(args, i))
    ELSE IF p[2] = "rest" \/ IsFlag(args[i])
    THEN Keeps(later[<<i + 1, p[2]>>], args[i])
    ELSE IF args[i] = Empty THEN later[<<i + 1, "verb">>]
    ELSE Begins(later[<<i + 1, "rest">>], args[i].text)

\* What is read from each position on.
From(args) ==
    LET from[p \in Positions(args)] == Turn(args, from, p) IN from

Parse(args) == From(args)[<<1, "verb">>]

\* Mutant: rest tokens are not quoted, and the shell drops the empty ones.
StringUnquoted(c) ==
    (IF c.verb = "" THEN <<>> ELSE Unquoted[c.verb])
    \o (IF c.global = Absent THEN <<>> ELSE <<Flag("--profile"), c.global>>)
    \o SelectSeq(c.rest, LAMBDA t : t # Empty)

\* The words another shell makes of a command (String through the remote shell):
\* the verb as the shell splits it, for it alone is written without quotes; the
\* global and the rest, each token whole.
String(c) ==
    (IF c.verb = "" THEN <<>> ELSE Unquoted[c.verb])
    \o (IF c.global = Absent THEN <<>> ELSE <<Flag("--profile"), c.global>>)
    \o c.rest

-----------------------------------------------------------------------------
(* The profile group.                                                      *)

Subs == {"add", "ls", "use", "rename", "rm", "seed"}

Help == {"--help", "-h"}

\* The words among the first n tokens, given those among fewer.
Grow(toks, before, n) ==
    IF n = 0 THEN <<>>
    ELSE IF IsFlag(toks[n]) THEN before[n - 1]
    ELSE Append(before[n - 1], toks[n])

WordsTo(toks) ==
    LET upto[n \in 0..Len(toks)] == Grow(toks, upto, n) IN upto

\* The words among the tokens, in their order.
Words(toks) == WordsTo(toks)[Len(toks)]

WantsProfileHelp(rest) ==
    /\ rest # <<>>
    /\ \/ Head(rest) = Word("help") \/ Head(rest).flag \in Help
       \/ /\ Head(rest) # Word("propose")
          /\ \E i \in 2..Len(rest) : rest[i].flag \in Help

Canonical(w) == CASE w \in {"", "list"} -> "ls"
                  [] w = "mv" -> "rename"
                  [] w = "remove" -> "rm"
                  [] OTHER -> w

ValidName(t) == ~IsFlag(t) /\ t.text \in Names

Refused == [ok |-> FALSE, sub |-> "", name |-> Absent, arg |-> Absent,
            purge |-> FALSE]

\* Mutant: one positional more than the subverb knows is taken for noise.
TargetSlack(c, pos, minTail, maxTail) ==
    LET named == c.global # Absent
        name == IF named THEN c.global
                ELSE IF pos # <<>> THEN Head(pos) ELSE Absent
        tail == IF named \/ pos = <<>> THEN pos ELSE Tail(pos)
    IN [ok |-> Len(tail) \in minTail..(maxTail + 1) /\ ValidName(name),
        name |-> name, tail |-> tail]

\* The profile acted on is -p's, or else the first positional; what is left
\* over are the subverb's operands, and there is a place for each.
Target(c, pos, minTail, maxTail) ==
    LET named == c.global # Absent
        name == IF named THEN c.global
                ELSE IF pos # <<>> THEN Head(pos) ELSE Absent
        tail == IF named \/ pos = <<>> THEN pos ELSE Tail(pos)
    IN [ok |-> Len(tail) \in minTail..maxTail /\ ValidName(name),
        name |-> name, tail |-> tail]

\* seed [show|init|path] [<name>]: the name may be missing.
SeedArgs(c, pos) ==
    LET name == IF Len(pos) > 1 THEN pos[2] ELSE c.global IN
    [ok |-> /\ Len(pos) <= 2 /\ (Len(pos) > 1 => c.global = Absent)
            /\ name = Absent \/ name = Empty \/ ValidName(name),
     sub |-> "seed", name |-> name, purge |-> FALSE,
     arg |-> IF pos # <<>> THEN Head(pos) ELSE Word("show")]

\* parseProfileArgs: flag-shaped tokens are never names, rm's --purge is the
\* one flag.
ProfileArgs(c) ==
    LET word == IF c.rest = <<>> THEN Word("ls") ELSE Head(c.rest)
        toks == IF c.rest = <<>> THEN <<>> ELSE Tail(c.rest)
        sub == Canonical(word.text)
        IsPurge(t) == sub = "rm" /\ t = Flag("--purge")
        pos == Words(toks)
        purge == \E i \in 1..Len(toks) : IsPurge(toks[i])
        With(t, arg) == [ok |-> t.ok, sub |-> sub, name |-> t.name,
                         arg |-> arg, purge |-> purge]
    IN IF \/ IsFlag(word) \/ sub \notin Subs
          \/ \E i \in 1..Len(toks) : IsFlag(toks[i]) /\ ~IsPurge(toks[i])
       THEN Refused
       ELSE CASE sub = "ls" ->
                     [Refused EXCEPT !.ok = pos = <<>>, !.sub = "ls"]
              [] sub = "add" ->
                     LET t == Target(c, pos, 0, 1) IN
                     With(t, IF t.tail = <<>> THEN Absent ELSE t.tail[1])
              [] sub \in {"use", "rm"} -> With(Target(c, pos, 0, 0), Absent)
              [] sub = "rename" ->
                     LET t == Target(c, pos, 1, 1) IN
                     IF t.ok /\ ValidName(t.tail[1]) THEN With(t, t.tail[1])
                     ELSE Refused
              [] sub = "seed" -> SeedArgs(c, pos)

=============================================================================
