---------------------------- MODULE MC_Commands ----------------------------
(***************************************************************************)
(* A small instance of Commands for TLC: what users type around a profile, *)
(* with the flag in every place and form, a word too many or too few, and  *)
(* the empty word.                                                         *)
(***************************************************************************)
EXTENDS Commands, TLC

X == Word("x")
Y == Word("y")
P == Flag("-p")
PY == FlagIs("--profile", "y")

Shells == {<<Word("ssh")>>, <<P, X, Word("ssh")>>, <<Word("ssh"), P, X, Empty>>,
           <<Word("ssh"), P, P, X>>, <<Word("ssh"), P, Empty>>,
           <<Word("ssh"), PY, P, X, Y>>}

Summons == {<<Word("up")>>, <<PY, Word("up"), Flag("--detach")>>,
            <<Flag("--detach"), Word("up"), X>>, <<Word("up"), X, Flag("--detach")>>,
            <<Word("up"), Flag("--purge")>>}

Sub == {Word("rm"), Word("rename")}
Operand == {X, Empty, PY, Flag("--purge"), Flag("--help")}

\* `profile`, a subverb and up to two words or flags; or with -p in front.
Groups == {<<Word("profile"), s, a>> : s \in Sub, a \in Operand}
          \cup {<<Word("profile"), s, a, b>> : s \in Sub, a \in Operand, b \in Operand}
          \cup {<<PY, Word("profile"), s, a>> : s \in Sub, a \in Operand}
          \cup {<<P, X, Word("profile"), s, PY>> : s \in Sub}
          \cup {<<Word("profile"), Word("add"), X, a>> : a \in Operand}

MCLines == {a : a \in Shells} \cup {a : a \in Summons} \cup {a : a \in Groups}

\* One word each, but for one that is no verb.
MCUnquoted == [w \in Delegated |-> <<Word(w)>>]
              @@ [w \in {"up x"} |-> <<Word("up"), X>>]

=============================================================================
