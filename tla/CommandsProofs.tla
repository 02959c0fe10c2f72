---------------------------- MODULE CommandsProofs ----------------------------
(***************************************************************************)
(* What holds of Commands for any lines, keys, attempts and processes.     *)
(***************************************************************************)
EXTENDS Commands, GrammarProofs

\* The commands that arrive on the plane.
Arrivals == {Arrives(Parse(a).cmd) : a \in Accepted}
            \cup {Arrives(Job(verb, key)) : verb \in Verbs, key \in Keys}
            \cup {NoCommand}

Runs == [by : {"laptop", "ui", "orphan", "nobody"}, cmd : Arrivals,
         st : {"running", "ok", "fail", "255", "gone"}]
Jobs == [verb : Verbs, key : Keys, state : {"running", "done", "failed"},
         run : Nat]
Clicks == [id : Nat, run : Nat, told : {"running", "done", "failed", "unknown"},
           restarted : BOOLEAN]

Laptop ==
    /\ left \in 0..MaxEvents
    /\ line \in Accepted \cup {<<>>}
    /\ conn \in {"none", "dial", "up", "dead"}
    /\ conn = "none" <=> line = <<>>
    /\ tries \in 0..MaxTries
    /\ mine \in 0..Len(runs)
    /\ mine = 0 <=> conn \in {"none", "dial"}

Plane ==
    /\ runs \in Seq(Runs) /\ Len(runs) <= MaxRuns
    /\ \A i \in 1..Len(runs) : runs[i].by = "laptop" <=> i = mine

\* A job's process is one of the daemon's, and its state is what became of it.
Daemon ==
    /\ jobs \in Seq(Jobs)
    /\ \A id \in 1..Len(jobs) :
           /\ jobs[id].run \in 1..Len(runs)
           /\ runs[jobs[id].run].by = "ui"
           /\ jobs[id].state = "done" => runs[jobs[id].run].st = "ok"
           /\ jobs[id].state = "failed" =>
                  runs[jobs[id].run].st \notin {"ok", "running"}

\* A page polls for the job of its own click, until the daemon restarts.
Pages ==
    /\ clicks \in Seq(Clicks)
    /\ \A k \in 1..Len(clicks) :
           /\ clicks[k].run \in 1..Len(runs)
           /\ runs[clicks[k].run].by = "ui"
           /\ clicks[k].told = "running" /\ ~clicks[k].restarted =>
                  /\ clicks[k].id \in 1..Len(jobs)
                  /\ jobs[clicks[k].id].run = clicks[k].run
           /\ ~clicks[k].restarted /\ clicks[k].told = "done" =>
                  runs[clicks[k].run].st = "ok"
           /\ ~clicks[k].restarted /\ clicks[k].told = "failed" =>
                  runs[clicks[k].run].st \notin {"ok", "running"}

IInv == Laptop /\ Plane /\ Daemon /\ Pages

-----------------------------------------------------------------------------
LEMMA AcceptedLines == <<>> \notin Accepted
BY DEF Accepted, Accepts

LEMMA ArrivalsOf ==
    /\ NoCommand \in Arrivals
    /\ \A a \in Accepted : Arrives(Parse(a).cmd) \in Arrivals
    /\ \A verb \in Verbs, key \in Keys : Arrives(Job(verb, key)) \in Arrivals
BY DEF Arrivals

-----------------------------------------------------------------------------
(* What is sent is what arrives.                                           *)

Spellings == {t.flag : t \in Typed} \cup {"", "-p", "--profile", "--detach"}
Contents == {t.text : t \in Typed} \cup Keys \cup Verbs \cup {"", NoText}

LEMMA LinesTyped ==
    /\ Spelled(Spellings, Contents)
    /\ \A a \in Lines : a \in Seq(Tokens(Spellings, Contents))
<1>1. Spelled(Spellings, Contents)
    BY DEF Spelled, Spellings, Contents
<1>2. Typed \subseteq Tokens(Spellings, Contents)
  <2> SUFFICES ASSUME NEW t \in Typed PROVE t \in Tokens(Spellings, Contents)
      OBVIOUS
  <2>1. t # Absent /\ t = [flag |-> t.flag, text |-> t.text]
      BY TokensAssumption
  <2>2. t.flag \in Spellings /\ t.text \in Contents
      BY DEF Spellings, Contents
  <2> HIDE DEF Spellings, Contents, Absent
  <2> QED BY <2>1, <2>2 DEF Tokens
<1>3. \A a \in Lines : a \in Seq(Tokens(Spellings, Contents))
  <2> DEFINE T == Tokens(Spellings, Contents)
  <2>1. Typed \subseteq T /\ \A a \in Lines : a \in Seq(Typed)
      BY <1>2, TokensAssumption
  <2> HIDE DEF T
  <2>2. \A a \in Lines : a \in Seq(T)
      BY <2>1
  <2> QED BY <2>2 DEF T
<1> QED BY <1>1, <1>3

\* A delegated command is parsed on the plane into what it was on the laptop.
LEMMA SentArrives ==
    ASSUME NEW a \in Accepted
    PROVE  Arrives(Parse(a).cmd) = Parse(a).cmd
<1>1. a \in Lines /\ Parse(a).ok
    BY DEF Accepted, Accepts
<1>2. a \in Seq(Tokens(Spellings, Contents)) /\ Spelled(Spellings, Contents)
    BY <1>1, LinesTyped
<1>3. Parse(a).cmd.verb \in Bare
    BY VerbsAssumption DEF Accepted, Accepts
<1> QED BY <1>1, <1>2, <1>3, ParseOfString DEF Arrives

KeyOf(key) == IF key = NoKey THEN Absent ELSE Word(key)
RestOf(verb) == IF verb = "up" THEN <<Flag("--detach")>> ELSE <<>>

\* The command of a request.
LEMMA JobIs ==
    ASSUME NEW verb \in Verbs, NEW key \in Keys
    PROVE  /\ Job(verb, key) =
                  [verb |-> verb, global |-> KeyOf(key), rest |-> RestOf(verb)]
           /\ Arrives(Job(verb, key)) = Job(verb, key)
<1> DEFINE g == KeyOf(key)
           q == RestOf(verb)
           T == Tokens(Spellings, Contents)
<1>1. /\ verb \in Contents /\ verb # NoText /\ verb # "" /\ Word(verb) # Empty
    BY TokensAssumption DEF Contents, Verbs, Word, Empty
<1>2. /\ g \in T \cup {Absent} /\ g # Empty
      /\ key = NoKey => g = Absent
      /\ key # NoKey => g # Absent /\ g = Word(key)
  <2>1. CASE key = NoKey
      BY <2>1, GrammarAssumption DEF KeyOf, Absent, Flag, Empty, Word
  <2>2. CASE key # NoKey
    <3>1. key \in Contents /\ key # NoText /\ "" \in Spellings
        BY TokensAssumption DEF Contents, Spellings
    <3>2. g = Word(key) /\ Word(key) # Empty /\ Word(key) # Absent
        BY <2>2, <3>1 DEF KeyOf, Word, Empty, Absent, Flag, NoKey
    <3>3. Word(key) \in T
        BY <3>1, <3>2 DEF Tokens, Word
    <3> HIDE DEF g, T
    <3> QED BY <2>2, <3>2, <3>3
  <2> QED BY <2>1, <2>2
<1>3. q \in Seq(T)
  <2>1. Flag("--detach") \in T
    <3>1. "--detach" \in Spellings /\ NoText \in Contents
        BY DEF Spellings, Contents
    <3> QED BY <3>1 DEF Tokens, Flag, Absent
  <2> HIDE DEF T
  <2> QED BY <2>1 DEF RestOf
<1>4. \A j \in 1..Len(q) : ~IsGlobal(q[j]) /\ (Word(verb) # Empty \/ IsFlag(q[j]))
  <2>1. ~IsGlobal(Flag("--detach"))
      BY DEF IsGlobal, Flag
  <2>2. \A j \in 1..Len(q) : q[j] = Flag("--detach")
      BY DEF RestOf
  <2> HIDE DEF q
  <2> QED BY <1>1, <2>1, <2>2
<1>5. Job(verb, key) = Parse(Line("-p", verb, g, q)).cmd
    BY <1>1, <1>2 DEF Job, Line, KeyOf, RestOf
<1>6. \A f \in {"-p", "--profile"} :
          /\ Parse(Line(f, verb, g, q)).ok
          /\ Parse(Line(f, verb, g, q)).cmd = [verb |-> verb, global |-> g, rest |-> q]
  <2>1. verb \in Contents /\ verb # NoText
      BY <1>1
  <2>2. g \in Tokens(Spellings, Contents) \cup {Absent} /\ g # Empty
      BY <1>2
  <2>3. q \in Seq(Tokens(Spellings, Contents))
      BY <1>3
  <2>4. Spelled(Spellings, Contents)
      BY LinesTyped
  <2> HIDE DEF g, q
  <2> QED BY <1>4, <2>1, <2>2, <2>3, <2>4, ParseLine
<1>7. String([verb |-> verb, global |-> g, rest |-> q]) = Line("--profile", verb, g, q)
  <2>1. verb \in Bare /\ verb # ""
      BY <1>1, VerbsAssumption DEF Verbs, Delegated
  <2> QED BY <2>1 DEF String, Line, Bare
<1> QED BY <1>5, <1>6, <1>7 DEF Arrives

\* Different requests make different commands.
LEMMA SameRequest ==
    ASSUME NEW v \in Verbs, NEW w \in Verbs, NEW k \in Keys, NEW l \in Keys,
           Arrives(Job(v, k)) = Arrives(Job(w, l))
    PROVE  v = w /\ k = l
<1> DEFINE c == Job(v, k)
           d == Job(w, l)
<1>1. c = d
    BY JobIs
<1>2. c.verb = v /\ c.global = KeyOf(k) /\ d.verb = w /\ d.global = KeyOf(l)
    BY JobIs
<1>3. v = w /\ KeyOf(k) = KeyOf(l)
    BY <1>1, <1>2
<1>4. \A x \in Keys : /\ x # NoKey => KeyOf(x).text = x
                      /\ (KeyOf(x) = Absent) <=> x = NoKey
    BY TokensAssumption DEF KeyOf, Word, Absent, Flag
<1> QED BY <1>3, <1>4

-----------------------------------------------------------------------------
LEMMA CommandsInit == Init => IInv
<1> SUFFICES ASSUME Init PROVE IInv
    OBVIOUS
<1> USE CommandsAssumption DEF Init
<1>1. <<>> \in Seq(Runs) /\ <<>> \in Seq(Jobs) /\ <<>> \in Seq(Clicks)
      /\ Len(<<>>) = 0
    OBVIOUS
<1>2. Laptop BY <1>1 DEF Laptop
<1>3. Plane /\ Daemon /\ Pages BY <1>1 DEF Plane, Daemon, Pages
<1> QED BY <1>2, <1>3 DEF IInv

-----------------------------------------------------------------------------
(* What becomes of the processes.                                          *)

\* What the daemon started stays the daemon's, and once it has ended it stays
\* as it ended.
Moves ==
    /\ runs' \in Seq(Runs) /\ Len(runs') >= Len(runs) /\ Len(runs') <= MaxRuns
    /\ \A i \in 1..Len(runs) :
           runs[i].by = "ui" =>
               /\ runs'[i].by = "ui" /\ runs'[i].cmd = runs[i].cmd
               /\ runs[i].st # "running" => runs'[i].st = runs[i].st
    /\ \A i \in 1..Len(runs') : runs'[i].by = "laptop" <=> i = mine'

LEMMA RunTypes ==
    /\ NoRun \in Runs
    /\ \A r \in Runs : /\ [r EXCEPT !.by = "orphan"] \in Runs
                       /\ [r EXCEPT !.by = "orphan"].by = "orphan"
    /\ \A r \in Runs, st \in {"ok", "fail", "255", "gone"} :
           /\ [r EXCEPT !.st = st] \in Runs
           /\ [r EXCEPT !.st = st].by = r.by
           /\ [r EXCEPT !.st = st].cmd = r.cmd
BY ArrivalsOf DEF NoRun, Runs

\* A new state of every process there is.
LEMMA MapSeq ==
    ASSUME NEW f, NEW n \in Nat, f \in [1..n -> Runs]
    PROVE  f \in Seq(Runs) /\ Len(f) = n
BY SeqDef, LenProperties

LEMMA ReturnMoves == ASSUME Plane, Return PROVE Moves
<1>1. runs' \in [1..Len(runs) -> Runs]
    BY RunTypes DEF Plane, Return
<1>2. runs' \in Seq(Runs) /\ Len(runs') = Len(runs)
    BY <1>1, MapSeq DEF Plane
<1>3. \A i \in 1..Len(runs) :
          runs'[i] = IF runs[i].by = "ui" THEN runs[i] ELSE NoRun
    BY DEF Plane, Return
<1>4. mine' = 0
    BY DEF Return
<1> QED BY <1>2, <1>3, <1>4 DEF Moves, NoRun, Plane

LEMMA AgainMoves == ASSUME Plane, Again PROVE Moves
<1>1. CASE tries < MaxTries
  <2>1. /\ mine' = 0
        /\ runs' = [i \in DOMAIN runs |->
               IF i # mine THEN runs[i]
               ELSE IF Running(i) THEN [runs[i] EXCEPT !.by = "orphan"] ELSE NoRun]
      BY <1>1 DEF Again
  <2>2. runs' \in [1..Len(runs) -> Runs]
      BY <2>1, RunTypes DEF Plane
  <2>3. runs' \in Seq(Runs) /\ Len(runs') = Len(runs)
      BY <2>2, MapSeq DEF Plane
  <2>4. \A i \in 1..Len(runs) : /\ i # mine => runs'[i] = runs[i]
                                /\ i = mine => runs'[i].by \in {"orphan", "nobody"}
    <3>1. /\ DOMAIN runs = 1..Len(runs) /\ NoRun.by = "nobody"
          /\ \A i \in 1..Len(runs) : runs[i] \in Runs
        BY DEF Plane, NoRun
    <3> HIDE DEF Runs, NoRun
    <3> QED BY <2>1, <3>1, RunTypes
  <2>5. \A i \in 1..Len(runs) : runs[i].by = "ui" => i # mine
      BY DEF Plane
  <2>6. \A i \in 1..Len(runs') : runs'[i].by # "laptop" /\ i # mine'
    <3>1. ASSUME NEW i \in 1..Len(runs), i # mine PROVE runs[i].by # "laptop"
        BY <3>1 DEF Plane
    <3>2. ASSUME NEW i \in 1..Len(runs) PROVE runs'[i].by # "laptop"
      <4>1. CASE i = mine
          BY <2>4, <4>1
      <4>2. CASE i # mine
          BY <2>4, <3>1, <4>2
      <4> QED BY <4>1, <4>2
    <3>3. \A i \in 1..Len(runs) : i # 0
        OBVIOUS
    <3> QED BY <2>1, <2>3, <3>2, <3>3
  <2> QED BY <2>3, <2>4, <2>5, <2>6 DEF Moves, Plane
<1>2. CASE ~(tries < MaxTries)
    BY <1>2, ReturnMoves DEF Again
<1> QED BY <1>1, <1>2

\* The records of the job store and of the pages.
LEMMA JobTypes ==
    /\ \A verb \in Verbs, key \in Keys, n \in Nat :
           [verb |-> verb, key |-> key, state |-> "running", run |-> n] \in Jobs
    /\ \A j \in Jobs, s \in {"done", "failed"} :
           /\ [j EXCEPT !.state = s] \in Jobs
           /\ [j EXCEPT !.state = s].run = j.run
           /\ [j EXCEPT !.state = s].state = s
    /\ \A j \in Jobs : j.state \in {"running", "done", "failed"} /\ j.run \in Nat
BY DEF Jobs

LEMMA JobMarked ==
    ASSUME NEW j \in Jobs, NEW s \in {"done", "failed"}
    PROVE  /\ [j EXCEPT !.state = s] \in Jobs
           /\ [j EXCEPT !.state = s].run = j.run
           /\ [j EXCEPT !.state = s].verb = j.verb
           /\ [j EXCEPT !.state = s].key = j.key
BY DEF Jobs

LEMMA ClickTypes ==
    /\ \A i \in Nat, n \in Nat :
           [id |-> i, run |-> n, told |-> "running", restarted |-> FALSE] \in Clicks
    /\ \A c \in Clicks :
           /\ [c EXCEPT !.restarted = TRUE] \in Clicks
           /\ [c EXCEPT !.restarted = TRUE].run = c.run
           /\ [c EXCEPT !.restarted = TRUE].told = c.told
           /\ [c EXCEPT !.restarted = TRUE].restarted = TRUE
           /\ c.restarted \in BOOLEAN
BY DEF Clicks

LEMMA ClickTold ==
    ASSUME NEW c \in Clicks, NEW t \in {"running", "done", "failed", "unknown"}
    PROVE  /\ [c EXCEPT !.told = t] \in Clicks
           /\ [c EXCEPT !.told = t].told = t
           /\ [c EXCEPT !.told = t].run = c.run
           /\ [c EXCEPT !.told = t].id = c.id
           /\ [c EXCEPT !.told = t].restarted = c.restarted
BY DEF Clicks

LEMMA Elements ==
    ASSUME IInv
    PROVE  /\ runs \in Seq(Runs) /\ jobs \in Seq(Jobs) /\ clicks \in Seq(Clicks)
           /\ Len(runs) \in Nat /\ Len(jobs) \in Nat /\ Len(clicks) \in Nat
           /\ DOMAIN runs = 1..Len(runs) /\ DOMAIN jobs = 1..Len(jobs)
           /\ DOMAIN clicks = 1..Len(clicks)
           /\ \A i \in 1..Len(runs) : runs[i] \in Runs
           /\ \A i \in 1..Len(jobs) : jobs[i] \in Jobs
           /\ \A i \in 1..Len(clicks) : clicks[i] \in Clicks
BY DEF IInv, Plane, Daemon, Pages

\* Nothing happens to them.
LEMMA JobsStay == ASSUME Daemon, Plane, Moves, UNCHANGED jobs PROVE Daemon'
<1>1. \A id \in 1..Len(jobs) : jobs[id].run \in 1..Len(runs)
    BY DEF Daemon
<1>2. 1..Len(runs) \subseteq 1..Len(runs')
    BY DEF Plane, Moves
<1>3. ASSUME NEW id \in 1..Len(jobs), NEW i \in 1..Len(runs), i = jobs[id].run
      PROVE  /\ runs'[i].by = "ui"
             /\ jobs[id].state = "done" => runs'[i].st = "ok"
             /\ jobs[id].state = "failed" => runs'[i].st \notin {"ok", "running"}
    BY <1>3 DEF Daemon, Moves
<1> QED BY <1>1, <1>2, <1>3 DEF Daemon

LEMMA PagesStay ==
    ASSUME Pages, Plane, Moves, UNCHANGED <<jobs, clicks>> PROVE Pages'
<1>1. \A k \in 1..Len(clicks) : clicks[k].run \in 1..Len(runs)
    BY DEF Pages
<1>2. 1..Len(runs) \subseteq 1..Len(runs')
    BY DEF Plane, Moves
<1>3. ASSUME NEW k \in 1..Len(clicks), NEW i \in 1..Len(runs), i = clicks[k].run
      PROVE  /\ runs'[i].by = "ui"
             /\ ~clicks[k].restarted /\ clicks[k].told = "done" => runs'[i].st = "ok"
             /\ ~clicks[k].restarted /\ clicks[k].told = "failed" =>
                    runs'[i].st \notin {"ok", "running"}
    BY <1>3 DEF Pages, Moves
<1> QED BY <1>1, <1>2, <1>3 DEF Pages

\* A process starts.
LEMMA StartMoves ==
    ASSUME Plane, NEW r \in Runs, runs' = Append(runs, r), Len(runs) < MaxRuns,
           \/ r.by = "laptop" /\ mine = 0 /\ mine' = Len(runs) + 1
           \/ r.by = "ui" /\ mine' = mine /\ mine \in 0..Len(runs)
    PROVE  Moves
<1>1. /\ runs' \in Seq(Runs) /\ Len(runs') = Len(runs) + 1
      /\ runs'[Len(runs) + 1] = r
      /\ \A i \in 1..Len(runs) : runs'[i] = runs[i]
    BY AppendProperties DEF Plane
<1> QED BY <1>1, CommandsAssumption DEF Moves, Plane


\* The processes.
LEMMA RunsMove ==
    ASSUME IInv, [Next]_vars
    PROVE  Moves
<1> USE CommandsAssumption, AcceptedLines, ArrivalsOf, RunTypes DEF IInv,
       Laptop, Plane, Moves, Running, laptop, ui
<1>1. ASSUME NEW a \in Accepted, Type(a) PROVE Moves
    BY <1>1 DEF Type
<1>2. CASE Connect
  <2>1. PICK r \in Runs : r.by = "laptop" /\ runs' = Append(runs, r)
    <3>1. line \in Accepted
        BY <1>2 DEF Connect
    <3> QED BY <1>2, <3>1 DEF Connect, Start, Runs
  <2>2. mine = 0 /\ mine' = Len(runs) + 1 /\ Len(runs) < MaxRuns
      BY <1>2 DEF Connect
  <2> QED BY <2>1, <2>2, StartMoves
<1>3. CASE ConnectFails
    BY <1>3, AgainMoves DEF ConnectFails
<1>4. CASE Answer
    BY <1>4, AgainMoves, ReturnMoves DEF Answer
<1>5. CASE Cut
    BY <1>5 DEF Cut
<1>6. CASE KeepaliveExpires
    BY <1>6, AgainMoves DEF KeepaliveExpires
<1>7. CASE Interrupt
    BY <1>7, ReturnMoves DEF Interrupt
<1>8. ASSUME NEW i \in DOMAIN runs, RunEnds(i) PROVE Moves
  <2>1. i \in 1..Len(runs) /\ runs[i] \in Runs /\ runs[i].st = "running"
      BY <1>8 DEF RunEnds
  <2>2. PICK r \in Runs :
            /\ runs' = [runs EXCEPT ![i] = r]
            /\ r.by = "ui" <=> runs[i].by = "ui"
            /\ r.by = "laptop" <=> runs[i].by = "laptop"
            /\ r.by \in {"laptop", "ui"} => r.cmd = runs[i].cmd
    <3>1. PICK st \in {"ok", "fail", "255"} :
              runs' = [runs EXCEPT ![i] =
                  IF runs[i].by \in {"laptop", "ui"} THEN [runs[i] EXCEPT !.st = st]
                  ELSE NoRun]
        BY <1>8 DEF RunEnds
    <3>2. NoRun.by = "nobody"
        BY DEF NoRun
    <3>3. CASE runs[i].by \in {"laptop", "ui"}
      <4>1. /\ [runs[i] EXCEPT !.st = st] \in Runs
            /\ [runs[i] EXCEPT !.st = st].by = runs[i].by
            /\ [runs[i] EXCEPT !.st = st].cmd = runs[i].cmd
          BY <2>1, RunTypes
      <4> HIDE DEF Runs
      <4> QED BY <3>1, <3>3, <4>1
    <3>4. CASE runs[i].by \notin {"laptop", "ui"}
        BY <2>1, <3>1, <3>2, <3>4
    <3> QED BY <3>3, <3>4
  <2>3. runs' \in Seq(Runs) /\ Len(runs') = Len(runs)
      BY <2>1, <2>2, ExceptSeq
  <2>4. /\ \A j \in 1..Len(runs) \ {i} : runs'[j] = runs[j]
        /\ runs'[i] = r
      BY <2>1, <2>2
  <2>5. mine' = mine
      BY <1>8 DEF RunEnds
  <2> QED BY <2>1, <2>2, <2>3, <2>4, <2>5
<1>9. ASSUME NEW verb \in Verbs, NEW key \in Keys, Click(verb, key) PROVE Moves
  <2>1. PICK r \in Runs : r.by = "ui" /\ runs' = Append(runs, r)
      BY <1>9 DEF Click, Start, Runs
  <2>2. mine' = mine /\ Len(runs) < MaxRuns
      BY <1>9 DEF Click
  <2> QED BY <2>1, <2>2, StartMoves
<1>10. ASSUME NEW id \in DOMAIN jobs, Mark(id) PROVE Moves
    BY <1>10 DEF Mark, Result
<1>11. ASSUME NEW k \in DOMAIN clicks, Poll(k) PROVE Moves
    BY <1>11 DEF Poll
<1>12. CASE Restart
  <2>1. /\ DOMAIN runs = 1..Len(runs) /\ Len(runs) \in Nat
        /\ \A j \in 1..Len(runs) : runs[j] \in Runs
      OBVIOUS
  <2>2. runs' = [j \in DOMAIN runs |->
                     IF runs[j].by = "ui" /\ runs[j].st = "running"
                     THEN [runs[j] EXCEPT !.st = "gone"] ELSE runs[j]]
      BY <1>12 DEF Restart
  <2>3. runs' \in [1..Len(runs) -> Runs]
      BY <2>1, <2>2
  <2>4. runs' \in Seq(Runs) /\ Len(runs') = Len(runs)
      BY <2>1, <2>3, MapSeq
  <2>5. \A j \in 1..Len(runs) : /\ runs'[j].by = runs[j].by
                                /\ runs'[j].cmd = runs[j].cmd
                                /\ runs[j].st # "running" => runs'[j] = runs[j]
      BY <2>1, <2>2
  <2>6. mine' = mine
      BY <1>12 DEF Restart
  <2> QED BY <2>4, <2>5, <2>6
<1>13. CASE UNCHANGED vars
    BY <1>13 DEF vars
<1> QED
    BY <1>1, <1>2, <1>3, <1>4, <1>5, <1>6, <1>7, <1>8, <1>9, <1>10,
       <1>11, <1>12, <1>13, CommandsAssumption DEF Next, Verbs

\* The laptop's state.
LEMMA LaptopKept ==
    ASSUME IInv, Moves, [Next]_vars
    PROVE  Laptop'
<1> USE CommandsAssumption, AcceptedLines, ArrivalsOf DEF IInv, Laptop,
       Moves, Plane, laptop, ui
<1>1. ASSUME NEW a \in Accepted, Type(a) PROVE Laptop'
    BY <1>1 DEF Type
<1>2. CASE Connect
    BY <1>2 DEF Connect, Start
<1>3. CASE ConnectFails
    BY <1>3 DEF ConnectFails, Again, Return
<1>4. CASE Answer
    BY <1>4 DEF Answer, Again, Return
<1>5. CASE Cut
    BY <1>5 DEF Cut
<1>6. CASE KeepaliveExpires
    BY <1>6 DEF KeepaliveExpires, Again, Return
<1>7. CASE Interrupt
    BY <1>7 DEF Interrupt, Return
<1>8. ASSUME NEW i \in DOMAIN runs, RunEnds(i) PROVE Laptop'
    BY <1>8 DEF RunEnds
<1>9. ASSUME NEW verb \in Verbs, NEW key \in Keys, Click(verb, key) PROVE Laptop'
    BY <1>9 DEF Click, Start
<1>10. ASSUME NEW id \in DOMAIN jobs, Mark(id) PROVE Laptop'
    BY <1>10 DEF Mark, Result
<1>11. ASSUME NEW k \in DOMAIN clicks, Poll(k) PROVE Laptop'
    BY <1>11 DEF Poll
<1>12. CASE Restart
    BY <1>12 DEF Restart
<1>13. CASE UNCHANGED vars
    BY <1>13 DEF vars
<1> QED
    BY <1>1, <1>2, <1>3, <1>4, <1>5, <1>6, <1>7, <1>8, <1>9, <1>10,
       <1>11, <1>12, <1>13, CommandsAssumption DEF Next, Verbs

\* A click starts a process of the daemon and appends its job.
LEMMA ClickDaemon ==
    ASSUME IInv, Moves, NEW verb \in Verbs, NEW key \in Keys, Click(verb, key)
    PROVE  Daemon'
<1> DEFINE j == [verb |-> verb, key |-> key, state |-> "running",
                 run |-> Len(runs) + 1]
<1>1. jobs' = Append(jobs, j) /\ j \in Jobs
    BY Elements, JobTypes DEF Click
<1>2. j.state = "running" /\ j.run = Len(runs) + 1
    OBVIOUS
<1>3. /\ Len(runs') = Len(runs) + 1 /\ runs'[Len(runs) + 1].by = "ui"
  <2>1. PICK r \in Runs : r.by = "ui" /\ runs' = Append(runs, r)
      BY ArrivalsOf DEF Click, Start, Runs
  <2> QED BY <2>1, AppendProperties, Elements
<1> HIDE DEF j
<1>4. /\ jobs' \in Seq(Jobs) /\ Len(jobs') = Len(jobs) + 1
      /\ jobs'[Len(jobs) + 1] = j
      /\ \A k \in 1..Len(jobs) : jobs'[k] = jobs[k]
    BY <1>1, AppendProperties, Elements
<1>5. ASSUME NEW k \in 1..Len(jobs)
      PROVE  /\ jobs'[k].run \in 1..Len(runs')
             /\ runs'[jobs'[k].run].by = "ui"
             /\ jobs'[k].state = "done" => runs'[jobs'[k].run].st = "ok"
             /\ jobs'[k].state = "failed" =>
                    runs'[jobs'[k].run].st \notin {"ok", "running"}
  <2>1. jobs'[k] = jobs[k]
      BY <1>4
  <2>2. PICK i \in 1..Len(runs) : i = jobs[k].run
      BY DEF IInv, Daemon
  <2>3. runs[i].by = "ui" /\ (jobs[k].state = "done" => runs[i].st = "ok")
        /\ (jobs[k].state = "failed" => runs[i].st \notin {"ok", "running"})
      BY <2>2 DEF IInv, Daemon
  <2>4. runs'[i].by = "ui" /\ (runs[i].st # "running" => runs'[i].st = runs[i].st)
      BY <2>3 DEF Moves
  <2>5. i \in 1..Len(runs')
      BY <1>3, Elements
  <2> QED BY <2>1, <2>2, <2>3, <2>4, <2>5
<1>6. \A k \in 1..Len(jobs') : k \in 1..Len(jobs) \/ k = Len(jobs) + 1
    BY <1>4, Elements
<1>7. Len(runs) + 1 \in 1..Len(runs')
    BY <1>3, Elements
<1> QED BY <1>2, <1>3, <1>4, <1>5, <1>6, <1>7 DEF Daemon

LEMMA MarkDaemon ==
    ASSUME IInv, NEW id \in DOMAIN jobs, Mark(id)
    PROVE  /\ Daemon' /\ runs' = runs /\ clicks' = clicks
           /\ Len(jobs') = Len(jobs)
           /\ \A k \in 1..Len(jobs) : jobs'[k].run = jobs[k].run
<1>1. id \in 1..Len(jobs) /\ runs' = runs /\ clicks' = clicks
    BY Elements DEF Mark
<1>2. PICK s \in {"done", "failed"} :
          /\ jobs' = [jobs EXCEPT ![id] = [jobs[id] EXCEPT !.state = s]]
          /\ s = "done" => runs[jobs[id].run].st = "ok"
          /\ s = "failed" => runs[jobs[id].run].st \notin {"ok", "running"}
    BY DEF Mark, Result, Running
<1>3. PICK j \in Jobs : /\ jobs' = [jobs EXCEPT ![id] = j]
                        /\ j.run = jobs[id].run /\ j.state = s
  <2>1. jobs[id] \in Jobs
      BY <1>1, Elements
  <2>2. /\ [jobs[id] EXCEPT !.state = s] \in Jobs
        /\ [jobs[id] EXCEPT !.state = s].run = jobs[id].run
        /\ [jobs[id] EXCEPT !.state = s].state = s
      BY <2>1, JobTypes
  <2> QED BY <1>2, <2>2
<1>4. jobs' \in Seq(Jobs) /\ Len(jobs') = Len(jobs)
    BY <1>1, <1>3, ExceptSeq, Elements
<1>5. /\ jobs'[id] = j
      /\ \A k \in 1..Len(jobs) : k # id => jobs'[k] = jobs[k]
    BY <1>1, <1>3, Elements
<1>6. ASSUME NEW k \in 1..Len(jobs)
      PROVE  /\ jobs'[k].run = jobs[k].run
             /\ jobs'[k].run \in 1..Len(runs)
             /\ runs[jobs'[k].run].by = "ui"
             /\ jobs'[k].state = "done" => runs[jobs'[k].run].st = "ok"
             /\ jobs'[k].state = "failed" =>
                    runs[jobs'[k].run].st \notin {"ok", "running"}
  <2>1. CASE k = id
      BY <1>2, <1>3, <1>5, <2>1 DEF IInv, Daemon
  <2>2. CASE k # id
      BY <1>5, <2>2 DEF IInv, Daemon
  <2> QED BY <2>1, <2>2
<1> QED BY <1>1, <1>4, <1>6 DEF Daemon

\* The jobs.
LEMMA DaemonKept ==
    ASSUME IInv, Moves, [Next]_vars
    PROVE  Daemon'
<1> USE CommandsAssumption, AcceptedLines, ArrivalsOf DEF IInv, Plane,
       Daemon, Moves, Jobs, laptop, ui
<1>1. ASSUME NEW a \in Accepted, Type(a) PROVE Daemon'
    BY <1>1, JobsStay DEF Type
<1>2. CASE Connect
    BY <1>2, JobsStay DEF Connect
<1>3. CASE ConnectFails
    BY <1>3, JobsStay DEF ConnectFails
<1>4. CASE Answer
    BY <1>4, JobsStay DEF Answer
<1>5. CASE Cut
    BY <1>5, JobsStay DEF Cut
<1>6. CASE KeepaliveExpires
    BY <1>6, JobsStay DEF KeepaliveExpires
<1>7. CASE Interrupt
    BY <1>7, JobsStay DEF Interrupt
<1>8. ASSUME NEW i \in DOMAIN runs, RunEnds(i) PROVE Daemon'
    BY <1>8, JobsStay DEF RunEnds
<1>9. ASSUME NEW verb \in Verbs, NEW key \in Keys, Click(verb, key) PROVE Daemon'
    BY <1>9, ClickDaemon
<1>10. ASSUME NEW id \in DOMAIN jobs, Mark(id) PROVE Daemon'
    BY <1>10, MarkDaemon
<1>11. ASSUME NEW k \in DOMAIN clicks, Poll(k) PROVE Daemon'
    BY <1>11, JobsStay DEF Poll
<1>12. CASE Restart
    BY <1>12 DEF Restart
<1>13. CASE UNCHANGED vars
    BY <1>13 DEF vars
<1> QED
    BY <1>1, <1>2, <1>3, <1>4, <1>5, <1>6, <1>7, <1>8, <1>9, <1>10,
       <1>11, <1>12, <1>13, CommandsAssumption DEF Next, Verbs

\* What a page knows of a click, for one click at a time.
Knows(c, rs, js) ==
    /\ c.run \in 1..Len(rs)
    /\ rs[c.run].by = "ui"
    /\ c.told = "running" /\ ~c.restarted =>
           c.id \in 1..Len(js) /\ js[c.id].run = c.run
    /\ ~c.restarted /\ c.told = "done" => rs[c.run].st = "ok"
    /\ ~c.restarted /\ c.told = "failed" => rs[c.run].st \notin {"ok", "running"}

LEMMA PagesKnow ==
    Pages <=> /\ clicks \in Seq(Clicks)
              /\ \A k \in 1..Len(clicks) : Knows(clicks[k], runs, jobs)
BY DEF Pages, Knows

LEMMA PagesKnowNext ==
    ASSUME clicks' \in Seq(Clicks),
           \A k \in 1..Len(clicks') : Knows(clicks'[k], runs', jobs')
    PROVE  Pages'
BY DEF Pages, Knows

\* What it knows stays so while the processes move and the jobs stay.
LEMMA KnowsStays ==
    ASSUME IInv, Moves, NEW c, Knows(c, runs, jobs),
           Len(jobs') >= Len(jobs), Len(jobs') \in Nat,
           \A k \in 1..Len(jobs) : jobs'[k].run = jobs[k].run
    PROVE  Knows(c, runs', jobs')
<1>1. PICK i \in 1..Len(runs) : i = c.run
    BY DEF Knows
<1>2. runs[i].by = "ui"
    BY <1>1 DEF Knows
<1>3. runs'[i].by = "ui" /\ (runs[i].st # "running" => runs'[i].st = runs[i].st)
    BY <1>2 DEF Moves
<1>4. i \in 1..Len(runs')
  <2>1. Len(runs') \in Nat /\ Len(runs') >= Len(runs)
      BY LenProperties DEF Moves
  <2> QED BY <2>1, Elements
<1>5. ASSUME c.id \in 1..Len(jobs) PROVE c.id \in 1..Len(jobs')
    BY <1>5, Elements
<1>6. ASSUME c.told = "running", ~c.restarted
      PROVE  c.id \in 1..Len(jobs') /\ jobs'[c.id].run = c.run
    BY <1>5, <1>6 DEF Knows
<1>7. ASSUME ~c.restarted, c.told = "done" PROVE runs'[i].st = "ok"
    BY <1>1, <1>3, <1>7 DEF Knows
<1>8. ASSUME ~c.restarted, c.told = "failed"
      PROVE  runs'[i].st \notin {"ok", "running"}
    BY <1>1, <1>3, <1>8 DEF Knows
<1> QED BY <1>1, <1>3, <1>4, <1>6, <1>7, <1>8 DEF Knows

LEMMA ClickPages ==
    ASSUME IInv, Moves, NEW verb \in Verbs, NEW key \in Keys, Click(verb, key)
    PROVE  Pages'
<1> DEFINE c == [id |-> Len(jobs) + 1, run |-> Len(runs) + 1,
                 told |-> "running", restarted |-> FALSE]
<1> DEFINE j == [verb |-> verb, key |-> key, state |-> "running",
                 run |-> Len(runs) + 1]
<1>1. clicks' = Append(clicks, c) /\ c \in Clicks
  <2>1. clicks' = Append(clicks, c)
      BY DEF Click
  <2>2. Len(jobs) + 1 \in Nat /\ Len(runs) + 1 \in Nat
      BY Elements
  <2>3. c \in Clicks
      BY <2>2, ClickTypes
  <2> QED BY <2>1, <2>3
<1>2. jobs' = Append(jobs, j) /\ j \in Jobs
    BY Elements, JobTypes DEF Click
<1>3. /\ c.id = Len(jobs) + 1 /\ c.run = Len(runs) + 1 /\ c.told = "running"
      /\ j.run = Len(runs) + 1
    OBVIOUS
<1>4. Len(runs') = Len(runs) + 1 /\ runs'[Len(runs) + 1].by = "ui"
  <2>1. PICK r \in Runs : r.by = "ui" /\ runs' = Append(runs, r)
      BY ArrivalsOf DEF Click, Start, Runs
  <2> QED BY <2>1, AppendProperties, Elements
<1> HIDE DEF c, j
<1>5. /\ Len(jobs') = Len(jobs) + 1 /\ jobs'[Len(jobs) + 1] = j
      /\ \A k \in 1..Len(jobs) : jobs'[k] = jobs[k]
    BY <1>2, AppendProperties, Elements
<1>6. /\ clicks' \in Seq(Clicks) /\ Len(clicks') = Len(clicks) + 1
      /\ clicks'[Len(clicks) + 1] = c
      /\ \A k \in 1..Len(clicks) : clicks'[k] = clicks[k]
    BY <1>1, AppendProperties, Elements
<1>7. Knows(c, runs', jobs')
  <2>1. Len(runs) + 1 \in 1..Len(runs') /\ Len(jobs) + 1 \in 1..Len(jobs')
      BY <1>4, <1>5, Elements
  <2> QED BY <1>3, <1>4, <1>5, <2>1 DEF Knows
<1>8. ASSUME NEW k \in 1..Len(clicks) PROVE Knows(clicks'[k], runs', jobs')
  <2>1. Knows(clicks[k], runs, jobs)
      BY PagesKnow DEF IInv
  <2>2. Len(jobs') \in Nat /\ Len(jobs') >= Len(jobs)
      BY <1>5, Elements
  <2> QED BY <1>5, <1>6, <2>1, <2>2, KnowsStays
<1>9. \A k \in 1..Len(clicks') : k \in 1..Len(clicks) \/ k = Len(clicks) + 1
    BY <1>6, Elements
<1> QED BY <1>6, <1>7, <1>8, <1>9, PagesKnowNext

LEMMA MarkPages ==
    ASSUME IInv, Moves, NEW id \in DOMAIN jobs, Mark(id)
    PROVE  Pages'
<1>1. /\ clicks' = clicks /\ Len(jobs') = Len(jobs)
      /\ \A k \in 1..Len(jobs) : jobs'[k].run = jobs[k].run
    BY MarkDaemon
<1>2. Len(jobs') \in Nat /\ Len(jobs') >= Len(jobs)
    BY <1>1, Elements
<1>3. \A k \in 1..Len(clicks) : Knows(clicks[k], runs, jobs)
    BY PagesKnow DEF IInv
<1>4. \A k \in 1..Len(clicks) : Knows(clicks[k], runs', jobs')
    BY <1>1, <1>2, <1>3, KnowsStays
<1> QED BY <1>1, <1>4, Elements, PagesKnowNext

LEMMA PollPages ==
    ASSUME IInv, NEW k \in DOMAIN clicks, Poll(k)
    PROVE  Pages'
<1>1. /\ k \in 1..Len(clicks) /\ runs' = runs /\ jobs' = jobs
      /\ clicks[k].told = "running" /\ clicks[k] \in Clicks
    BY Elements DEF Poll
<1>2. Knows(clicks[k], runs, jobs)
    BY <1>1, PagesKnow DEF IInv
<1>3. PICK t \in {"running", "done", "failed", "unknown"} :
          /\ clicks' = [clicks EXCEPT ![k] = [clicks[k] EXCEPT !.told = t]]
          /\ ~clicks[k].restarted => t = jobs[clicks[k].id].state
  <2>1. CASE clicks[k].id \in DOMAIN jobs
    <3>1. jobs[clicks[k].id].state \in {"running", "done", "failed"}
        BY <2>1, Elements, JobTypes
    <3> QED BY <2>1, <3>1 DEF Poll
  <2>2. CASE clicks[k].id \notin DOMAIN jobs
    <3>1. ~ ~clicks[k].restarted
        BY <1>1, <1>2, <2>2, Elements DEF Knows
    <3> QED BY <2>2, <3>1 DEF Poll
  <2> QED BY <2>1, <2>2
<1>4. PICK c \in Clicks :
          /\ clicks' = [clicks EXCEPT ![k] = c]
          /\ c.told = t /\ c.run = clicks[k].run /\ c.id = clicks[k].id
          /\ c.restarted = clicks[k].restarted
  <2>1. /\ [clicks[k] EXCEPT !.told = t] \in Clicks
        /\ [clicks[k] EXCEPT !.told = t].told = t
        /\ [clicks[k] EXCEPT !.told = t].run = clicks[k].run
        /\ [clicks[k] EXCEPT !.told = t].id = clicks[k].id
        /\ [clicks[k] EXCEPT !.told = t].restarted = clicks[k].restarted
      BY <1>1, ClickTold
  <2> QED BY <1>3, <2>1
<1>5. clicks' \in Seq(Clicks) /\ Len(clicks') = Len(clicks)
    BY <1>1, <1>4, ExceptSeq, Elements
<1>6. /\ clicks'[k] = c
      /\ \A i \in 1..Len(clicks) : i # k => clicks'[i] = clicks[i]
    BY <1>1, <1>4, Elements
<1>7. Knows(c, runs, jobs)
  <2>1. ASSUME ~c.restarted
        PROVE  /\ clicks[k].id \in 1..Len(jobs)
               /\ jobs[clicks[k].id].run = clicks[k].run
               /\ t = jobs[clicks[k].id].state
      BY <1>1, <1>2, <1>3, <1>4, <2>1 DEF Knows
  <2>2. ASSUME ~c.restarted
        PROVE  /\ t = "done" => runs[clicks[k].run].st = "ok"
               /\ t = "failed" => runs[clicks[k].run].st \notin {"ok", "running"}
      BY <2>1, <2>2 DEF IInv, Daemon
  <2> QED BY <1>2, <1>4, <2>1, <2>2 DEF Knows
<1>8. \A i \in 1..Len(clicks') : Knows(clicks'[i], runs', jobs')
  <2>1. \A i \in 1..Len(clicks) : Knows(clicks[i], runs, jobs)
      BY PagesKnow DEF IInv
  <2> QED BY <1>1, <1>5, <1>6, <1>7, <2>1
<1> QED BY <1>5, <1>8, PagesKnowNext

LEMMA RestartPages ==
    ASSUME IInv, Moves, Restart
    PROVE  Pages'
<1>1. clicks' = [k \in DOMAIN clicks |->
                     IF clicks[k].told = "running"
                     THEN [clicks[k] EXCEPT !.restarted = TRUE] ELSE clicks[k]]
    BY DEF Restart
<1>2. clicks' \in [1..Len(clicks) -> Clicks]
    BY <1>1, Elements, ClickTypes
<1>3. clicks' \in Seq(Clicks) /\ Len(clicks') = Len(clicks)
    BY <1>2, Elements, SeqDef, LenProperties
<1>4. ASSUME NEW k \in 1..Len(clicks) PROVE Knows(clicks'[k], runs', jobs')
  <2>1. Knows(clicks[k], runs, jobs)
      BY PagesKnow DEF IInv
  <2>2. PICK i \in 1..Len(runs) : i = clicks[k].run
      BY <2>1 DEF Knows
  <2>3. runs'[i].by = "ui" /\ (runs[i].st # "running" => runs'[i].st = runs[i].st)
      BY <2>1, <2>2 DEF Knows, Moves
  <2>4. i \in 1..Len(runs')
    <3>1. Len(runs') \in Nat /\ Len(runs') >= Len(runs)
        BY LenProperties DEF Moves
    <3> QED BY <3>1, Elements
  <2>5. clicks[k] \in Clicks
      BY Elements
  <2>6. /\ clicks'[k].run = clicks[k].run
        /\ clicks'[k].told = clicks[k].told
        /\ clicks[k].told = "running" => clicks'[k].restarted
        /\ clicks[k].told # "running" => clicks'[k] = clicks[k]
      BY <1>1, <2>5, Elements, ClickTypes
  <2>7. CASE clicks[k].told = "running"
      BY <2>2, <2>3, <2>4, <2>6, <2>7 DEF Knows
  <2>8. CASE clicks[k].told # "running"
      BY <2>1, <2>2, <2>3, <2>4, <2>6, <2>8 DEF Knows
  <2> QED BY <2>7, <2>8
<1> QED BY <1>3, <1>4, PagesKnowNext

\* The clicks.
LEMMA PagesKept ==
    ASSUME IInv, Moves, [Next]_vars
    PROVE  Pages'
<1> USE CommandsAssumption, AcceptedLines, ArrivalsOf DEF IInv, Plane,
       Daemon, Pages, Moves, Clicks, Jobs, laptop, ui
<1>1. ASSUME NEW a \in Accepted, Type(a) PROVE Pages'
    BY <1>1, PagesStay DEF Type
<1>2. CASE Connect
    BY <1>2, PagesStay DEF Connect
<1>3. CASE ConnectFails
    BY <1>3, PagesStay DEF ConnectFails
<1>4. CASE Answer
    BY <1>4, PagesStay DEF Answer
<1>5. CASE Cut
    BY <1>5, PagesStay DEF Cut
<1>6. CASE KeepaliveExpires
    BY <1>6, PagesStay DEF KeepaliveExpires
<1>7. CASE Interrupt
    BY <1>7, PagesStay DEF Interrupt
<1>8. ASSUME NEW i \in DOMAIN runs, RunEnds(i) PROVE Pages'
    BY <1>8, PagesStay DEF RunEnds
<1>9. ASSUME NEW verb \in Verbs, NEW key \in Keys, Click(verb, key) PROVE Pages'
    BY <1>9, ClickPages
<1>10. ASSUME NEW id \in DOMAIN jobs, Mark(id) PROVE Pages'
    BY <1>10, MarkPages
<1>11. ASSUME NEW k \in DOMAIN clicks, Poll(k) PROVE Pages'
    BY <1>11, PollPages
<1>12. CASE Restart
    BY <1>12, RestartPages
<1>13. CASE UNCHANGED vars
    BY <1>13 DEF vars
<1> QED
    BY <1>1, <1>2, <1>3, <1>4, <1>5, <1>6, <1>7, <1>8, <1>9, <1>10,
       <1>11, <1>12, <1>13, CommandsAssumption DEF Next, Verbs

-----------------------------------------------------------------------------
\* The inductive invariant holds of every behaviour of the laptop, the plane's
\* processes and the job store.
THEOREM CommandsInvariant == Spec => []IInv
<1>1. Init => IInv
    BY CommandsInit
<1>2. IInv /\ [Next]_vars => IInv'
  <2> SUFFICES ASSUME IInv, [Next]_vars PROVE IInv'
      OBVIOUS
  <2>1. Moves
      BY RunsMove
  <2>2. Plane'
      BY <2>1 DEF Moves, Plane
  <2>3. Laptop' /\ Daemon' /\ Pages'
      BY <2>1, LaptopKept, DaemonKept, PagesKept
  <2> QED BY <2>2, <2>3 DEF IInv
<1> QED BY <1>1, <1>2, PTL DEF Spec

LEMMA InvariantTypes == IInv => TypeOK
<1> SUFFICES ASSUME IInv PROVE TypeOK
    OBVIOUS
<1>1. /\ left \in 0..MaxEvents /\ line \in Accepted \cup {<<>>}
      /\ conn \in {"none", "dial", "up", "dead"}
      /\ tries \in 0..MaxTries /\ mine \in 0..Len(runs)
      /\ Len(runs) <= MaxRuns
    BY DEF IInv, Laptop, Plane
<1>2. (conn = "none") = (line = <<>>) /\ (mine = 0) = (conn \in {"none", "dial"})
    BY DEF IInv, Laptop
<1>3. \A i \in DOMAIN runs :
          /\ runs[i].by \in {"laptop", "ui", "orphan", "nobody"}
          /\ runs[i].st \in {"running", "ok", "fail", "255", "gone"}
          /\ runs[i].by = "laptop" <=> i = mine
  <2>1. \A r \in Runs : /\ r.by \in {"laptop", "ui", "orphan", "nobody"}
                         /\ r.st \in {"running", "ok", "fail", "255", "gone"}
      BY DEF Runs
  <2> QED BY <2>1, Elements DEF IInv, Plane
<1>4. \A id \in DOMAIN jobs :
          /\ jobs[id].verb \in Verbs /\ jobs[id].key \in Keys
          /\ jobs[id].state \in {"running", "done", "failed"}
          /\ jobs[id].run \in DOMAIN runs
  <2>1. \A j \in Jobs : /\ j.verb \in Verbs /\ j.key \in Keys
                         /\ j.state \in {"running", "done", "failed"}
      BY DEF Jobs
  <2> QED BY <2>1, Elements DEF IInv, Daemon
<1>5. \A k \in DOMAIN clicks :
          clicks[k].told \in {"running", "done", "failed", "unknown"}
  <2>1. \A c \in Clicks : c.told \in {"running", "done", "failed", "unknown"}
      BY DEF Clicks
  <2> QED BY <2>1, Elements
<1> QED BY <1>1, <1>2, <1>3, <1>4, <1>5 DEF TypeOK

\* Every run's and job's record stays well formed, and exactly the process
\* the laptop waits for is marked as its own (delegate, jobStore), for any
\* lines, keys, attempts and number of processes.
THEOREM CommandsTypeCorrect == Spec => []TypeOK
BY CommandsInvariant, InvariantTypes, PTL

\* The poller's "done" and "failed" are true of the process its click
\* started, unless the daemon restarted in between (uicmd.go, jobStore.run
\* and the job handler), for any number of clicks and jobs.
THEOREM PollsAreTrue == Spec => []PollIsTrue
<1>1. IInv => PollIsTrue
  <2> SUFFICES ASSUME IInv, NEW k \in DOMAIN clicks, ~clicks[k].restarted
               PROVE  /\ clicks[k].told = "done" => runs[clicks[k].run].st = "ok"
                      /\ clicks[k].told = "failed" =>
                             runs[clicks[k].run].st \notin {"ok", "running"}
      BY DEF PollIsTrue
  <2>1. k \in 1..Len(clicks)
      BY Elements
  <2>2. Knows(clicks[k], runs, jobs)
      BY <2>1, PagesKnow DEF IInv
  <2> QED BY <2>2 DEF Knows
<1> QED BY <1>1, CommandsInvariant, PTL

-----------------------------------------------------------------------------
(* One process per request.                                                *)

\* Every process of the daemon that runs has its job, still running there, and
\* no two running jobs are for one request.  Without the first half a restart
\* or a late Mark could free a request whose process goes on.
Serves(j, i, cmd) ==
    /\ j.state = "running" /\ j.run = i
    /\ cmd = Arrives(Job(j.verb, j.key))
Tracked ==
    /\ \A i \in 1..Len(runs) :
           runs[i].by = "ui" /\ runs[i].st = "running" =>
               \E id \in 1..Len(jobs) : Serves(jobs[id], i, runs[i].cmd)
    /\ \A id, k \in 1..Len(jobs) :
           /\ jobs[id].state = "running" /\ jobs[k].state = "running"
           /\ jobs[id].verb = jobs[k].verb /\ jobs[id].key = jobs[k].key
           => id = k

\* No process of the daemon starts, and none changes but to end.
Quiet ==
    \A i \in 1..Len(runs') :
        runs'[i].by = "ui" /\ runs'[i].st = "running" =>
            i \in 1..Len(runs) /\ runs'[i] = runs[i]

LEMMA ReturnQuiet == ASSUME Plane, Return PROVE Quiet
<1>1. runs' \in [1..Len(runs) -> Runs]
    BY RunTypes DEF Plane, Return
<1>2. Len(runs') = Len(runs)
    BY <1>1, MapSeq DEF Plane
<1>3. \A i \in 1..Len(runs) :
          runs'[i] = IF runs[i].by = "ui" THEN runs[i] ELSE NoRun
    BY DEF Plane, Return
<1> QED BY <1>2, <1>3 DEF Quiet, NoRun

LEMMA AgainQuiet == ASSUME Plane, Again PROVE Quiet
<1>1. CASE tries < MaxTries
  <2>1. runs' = [i \in DOMAIN runs |->
               IF i # mine THEN runs[i]
               ELSE IF Running(i) THEN [runs[i] EXCEPT !.by = "orphan"] ELSE NoRun]
      BY <1>1 DEF Again
  <2>2. runs' \in [1..Len(runs) -> Runs]
      BY <2>1, RunTypes DEF Plane
  <2>3. Len(runs') = Len(runs)
      BY <2>2, MapSeq DEF Plane
  <2>4. \A i \in 1..Len(runs) : /\ i # mine => runs'[i] = runs[i]
                                /\ i = mine => runs'[i].by \in {"orphan", "nobody"}
    <3>1. /\ DOMAIN runs = 1..Len(runs) /\ NoRun.by = "nobody"
          /\ \A i \in 1..Len(runs) : runs[i] \in Runs
        BY DEF Plane, NoRun
    <3> HIDE DEF Runs, NoRun
    <3> QED BY <2>1, <3>1, RunTypes
  <2> QED BY <2>3, <2>4 DEF Quiet
<1>2. CASE ~(tries < MaxTries)
    BY <1>2, ReturnQuiet DEF Again
<1> QED BY <1>1, <1>2

LEMMA RunEndsQuiet ==
    ASSUME IInv, NEW i \in DOMAIN runs, RunEnds(i)
    PROVE  Quiet
<1>1. i \in 1..Len(runs) /\ runs[i] \in Runs /\ runs[i].st = "running"
    BY Elements DEF RunEnds, Running
<1>2. PICK st \in {"ok", "fail", "255"} :
          runs' = [runs EXCEPT ![i] =
              IF runs[i].by \in {"laptop", "ui"} THEN [runs[i] EXCEPT !.st = st]
              ELSE NoRun]
    BY DEF RunEnds
<1>3. PICK r \in Runs :
          runs' = [runs EXCEPT ![i] = r] /\ ~(r.by = "ui" /\ r.st = "running")
  <2>1. CASE runs[i].by \in {"laptop", "ui"}
    <3>1. [runs[i] EXCEPT !.st = st] \in Runs /\ [runs[i] EXCEPT !.st = st].st = st
        BY <1>1, RunTypes DEF Runs
    <3> HIDE DEF Runs
    <3> QED BY <1>2, <2>1, <3>1
  <2>2. CASE runs[i].by \notin {"laptop", "ui"}
      BY <1>2, <2>2, RunTypes DEF NoRun
  <2> QED BY <2>1, <2>2
<1>4. Len(runs') = Len(runs)
    BY <1>1, <1>3, ExceptSeq, Elements
<1>5. runs'[i] = r /\ \A j \in 1..Len(runs) \ {i} : runs'[j] = runs[j]
    BY <1>1, <1>3, Elements
<1> QED BY <1>3, <1>4, <1>5 DEF Quiet

LEMMA ConnectQuiet == ASSUME IInv, Connect PROVE Quiet
<1>1. PICK r \in Runs : r.by = "laptop" /\ runs' = Append(runs, r)
  <2>1. line \in Accepted
      BY AcceptedLines DEF Connect, IInv, Laptop
  <2> QED BY <2>1, ArrivalsOf DEF Connect, Start, Runs
<1>2. /\ Len(runs') = Len(runs) + 1 /\ runs'[Len(runs) + 1] = r
      /\ \A i \in 1..Len(runs) : runs'[i] = runs[i]
    BY <1>1, AppendProperties, Elements
<1> QED BY <1>1, <1>2, Elements DEF Quiet

\* What is tracked stays so while the jobs stay.
LEMMA TrackedStays ==
    ASSUME Tracked, Quiet, UNCHANGED jobs PROVE Tracked'
BY DEF Tracked, Quiet

\* A job is over only when its process is.
LEMMA MarkTracked ==
    ASSUME IInv, Tracked, NEW id \in DOMAIN jobs, Mark(id)
    PROVE  Tracked'
<1>1. id \in 1..Len(jobs) /\ runs' = runs /\ runs[jobs[id].run].st # "running"
    BY Elements DEF Mark, Running
<1>2. PICK s \in {"done", "failed"} :
          jobs' = [jobs EXCEPT ![id] = [jobs[id] EXCEPT !.state = s]]
    BY DEF Mark, Result
<1>3. Len(jobs') = Len(jobs)
    BY MarkDaemon
<1>4. PICK j \in Jobs : jobs' = [jobs EXCEPT ![id] = j] /\ j.state = s
  <2>1. [jobs[id] EXCEPT !.state = s] \in Jobs /\ [jobs[id] EXCEPT !.state = s].state = s
    <3>1. jobs[id] \in Jobs
        BY <1>1, Elements
    <3> QED BY <3>1, JobTypes
  <2> QED BY <1>2, <2>1
<1>5. jobs'[id].state = s /\ \A k \in 1..Len(jobs) : k # id => jobs'[k] = jobs[k]
    BY <1>1, <1>4, Elements
<1>6. ASSUME NEW i \in 1..Len(runs), runs[i].by = "ui", runs[i].st = "running"
      PROVE  \E k \in 1..Len(jobs) : Serves(jobs'[k], i, runs[i].cmd)
  <2>1. PICK k \in 1..Len(jobs) : Serves(jobs[k], i, runs[i].cmd)
      BY <1>6 DEF Tracked
  <2>2. k # id
      BY <1>1, <1>6, <2>1 DEF Serves
  <2> QED BY <1>5, <2>1, <2>2
<1>7. \A k, m \in 1..Len(jobs) :
          /\ jobs'[k].state = "running" /\ jobs'[m].state = "running"
          /\ jobs'[k].verb = jobs'[m].verb /\ jobs'[k].key = jobs'[m].key
          => k = m
    BY <1>5 DEF Tracked
<1> QED BY <1>1, <1>3, <1>6, <1>7 DEF Tracked

\* A restart ends every process of the daemon.
LEMMA RestartTracked == ASSUME IInv, Restart PROVE Tracked'
<1>1. runs' = [i \in DOMAIN runs |->
                   IF runs[i].by = "ui" /\ runs[i].st = "running"
                   THEN [runs[i] EXCEPT !.st = "gone"] ELSE runs[i]]
    BY DEF Restart, Running
<1>2. runs' \in [1..Len(runs) -> Runs]
    BY <1>1, Elements, RunTypes
<1>3. Len(runs') = Len(runs)
    BY <1>2, MapSeq, Elements
<1>4. \A i \in 1..Len(runs) : ~(runs'[i].by = "ui" /\ runs'[i].st = "running")
  <2>1. \A r \in Runs : [r EXCEPT !.st = "gone"].st = "gone"
      BY DEF Runs
  <2> QED BY <1>1, <2>1, Elements
<1>5. jobs' = <<>> /\ Len(<<>>) = 0
    BY DEF Restart
<1> QED BY <1>3, <1>4, <1>5 DEF Tracked

\* A click is refused while a job for the same request runs.
LEMMA ClickTracked ==
    ASSUME IInv, Tracked, NEW verb \in Verbs, NEW key \in Keys, Click(verb, key)
    PROVE  Tracked'
<1> DEFINE j == [verb |-> verb, key |-> key, state |-> "running",
                 run |-> Len(runs) + 1]
           r == [by |-> "ui", cmd |-> Arrives(Job(verb, key)), st |-> "running"]
<1>1. jobs' = Append(jobs, j) /\ j \in Jobs /\ runs' = Append(runs, r) /\ r \in Runs
    BY Elements, JobTypes, ArrivalsOf DEF Click, Start, Runs
<1>2. /\ Serves(j, Len(runs) + 1, r.cmd) /\ j.verb = verb /\ j.key = key
    BY DEF Serves
<1>3. \A k \in 1..Len(jobs) : /\ jobs[k].verb = verb /\ jobs[k].key = key
                               => jobs[k].state # "running"
    BY Elements DEF Click, Conflict
<1> HIDE DEF j, r
<1>4. /\ Len(jobs') = Len(jobs) + 1 /\ jobs'[Len(jobs) + 1] = j
      /\ \A k \in 1..Len(jobs) : jobs'[k] = jobs[k]
    BY <1>1, AppendProperties, Elements
<1>5. /\ Len(runs') = Len(runs) + 1 /\ runs'[Len(runs) + 1] = r
      /\ \A k \in 1..Len(runs) : runs'[k] = runs[k]
    BY <1>1, AppendProperties, Elements
<1>6. /\ \A k \in 1..Len(jobs') : k \in 1..Len(jobs) \/ k = Len(jobs) + 1
      /\ \A k \in 1..Len(runs') : k \in 1..Len(runs) \/ k = Len(runs) + 1
      /\ Len(jobs) + 1 \in 1..Len(jobs') /\ 1..Len(jobs) \subseteq 1..Len(jobs')
    BY <1>4, <1>5, Elements
<1>7. ASSUME NEW i \in 1..Len(runs'), runs'[i].by = "ui", runs'[i].st = "running"
      PROVE  \E k \in 1..Len(jobs') : Serves(jobs'[k], i, runs'[i].cmd)
  <2>1. CASE i = Len(runs) + 1
      BY <1>2, <1>4, <1>5, <1>6, <2>1
  <2>2. CASE i \in 1..Len(runs)
      BY <1>4, <1>5, <1>6, <1>7, <2>2 DEF Tracked
  <2> QED BY <1>6, <2>1, <2>2
<1>8. \A k, m \in 1..Len(jobs') :
          /\ jobs'[k].state = "running" /\ jobs'[m].state = "running"
          /\ jobs'[k].verb = jobs'[m].verb /\ jobs'[k].key = jobs'[m].key
          => k = m
    BY <1>2, <1>3, <1>4, <1>6 DEF Tracked
<1> QED BY <1>7, <1>8 DEF Tracked

LEMMA TrackedKept ==
    ASSUME IInv, Tracked, [Next]_vars
    PROVE  Tracked'
<1> USE DEF laptop, ui
<1>0. Plane BY DEF IInv
<1>u. UNCHANGED runs => Quiet BY DEF Quiet
<1>1. ASSUME NEW a \in Accepted, Type(a) PROVE Tracked'
    BY <1>1, <1>u, TrackedStays DEF Type
<1>2. CASE Connect
    BY <1>2, ConnectQuiet, TrackedStays DEF Connect
<1>3. CASE ConnectFails \/ Answer \/ KeepaliveExpires
    BY <1>0, <1>3, AgainQuiet, ReturnQuiet, TrackedStays
       DEF ConnectFails, Answer, KeepaliveExpires
<1>4. CASE Cut
    BY <1>4, <1>u, TrackedStays DEF Cut
<1>5. CASE Interrupt
    BY <1>0, <1>5, ReturnQuiet, TrackedStays DEF Interrupt
<1>6. ASSUME NEW i \in DOMAIN runs, RunEnds(i) PROVE Tracked'
    BY <1>6, RunEndsQuiet, TrackedStays DEF RunEnds
<1>7. ASSUME NEW verb \in Verbs, NEW key \in Keys, Click(verb, key) PROVE Tracked'
    BY <1>7, ClickTracked
<1>8. ASSUME NEW id \in DOMAIN jobs, Mark(id) PROVE Tracked'
    BY <1>8, MarkTracked
<1>9. ASSUME NEW k \in DOMAIN clicks, Poll(k) PROVE Tracked'
    BY <1>9, <1>u, TrackedStays DEF Poll
<1>10. CASE Restart
    BY <1>10, RestartTracked
<1>11. CASE UNCHANGED vars
    BY <1>11, <1>u, TrackedStays DEF vars
<1> QED
    BY <1>1, <1>2, <1>3, <1>4, <1>5, <1>6, <1>7, <1>8, <1>9, <1>10,
       <1>11, CommandsAssumption DEF Next, Verbs

LEMMA CommandsTracked == Spec => []Tracked
<1>1. Init => Tracked
  <2>1. Len(<<>>) = 0
      OBVIOUS
  <2> QED BY <2>1 DEF Init, Tracked
<1>2. IInv /\ Tracked /\ [Next]_vars => Tracked'
    BY TrackedKept
<1> QED BY <1>1, <1>2, CommandsInvariant, PTL DEF Spec

\* No command runs twice at a time for the UI ("so a stray double-click can't
\* double-summon (real money) or double-reap", uicmd.go:144-145), for any
\* number of clicks, jobs and restarts of its daemon.
THEOREM UIRunsOnePerKey == Spec => []OnePerKey
<1>1. IInv /\ Tracked => OnePerKey
  <2> SUFFICES ASSUME IInv, Tracked, NEW i \in 1..Len(runs), NEW k \in 1..Len(runs),
                      runs[i].by = "ui", runs[k].by = "ui",
                      runs[i].st = "running", runs[k].st = "running",
                      runs[i].cmd = runs[k].cmd
               PROVE  i = k
      BY Elements DEF OnePerKey, Running
  <2>1. PICK a \in 1..Len(jobs) : Serves(jobs[a], i, runs[i].cmd)
      BY DEF Tracked
  <2>2. PICK b \in 1..Len(jobs) : Serves(jobs[b], k, runs[k].cmd)
      BY DEF Tracked
  <2>3. jobs[a].verb \in Verbs /\ jobs[a].key \in Keys
        /\ jobs[b].verb \in Verbs /\ jobs[b].key \in Keys
      BY Elements DEF Jobs
  <2>4. jobs[a].verb = jobs[b].verb /\ jobs[a].key = jobs[b].key
    <3>1. Arrives(Job(jobs[a].verb, jobs[a].key)) = Arrives(Job(jobs[b].verb, jobs[b].key))
        BY <2>1, <2>2 DEF Serves
    <3> QED BY <2>3, <3>1, SameRequest
  <2>5. a = b
      BY <2>1, <2>2, <2>4 DEF Serves, Tracked
  <2> QED BY <2>1, <2>2, <2>5 DEF Serves
<1> QED BY <1>1, CommandsInvariant, CommandsTracked, PTL

-----------------------------------------------------------------------------
(* The plane runs what was meant.                                          *)

LineRuns == conn = "up" => runs[mine].cmd = Parse(line).cmd

JobsRun ==
    \A id \in 1..Len(jobs) :
        runs[jobs[id].run].cmd = Job(jobs[id].verb, jobs[id].key)

LEMMA JobsRunStay == ASSUME IInv, JobsRun, Moves, UNCHANGED jobs PROVE JobsRun'
<1> SUFFICES ASSUME NEW id \in 1..Len(jobs)
             PROVE  runs'[jobs[id].run].cmd = Job(jobs[id].verb, jobs[id].key)
    BY DEF JobsRun
<1>1. PICK i \in 1..Len(runs) : i = jobs[id].run
    BY DEF IInv, Daemon
<1>2. runs[i].by = "ui" /\ runs[i].cmd = Job(jobs[id].verb, jobs[id].key)
    BY <1>1 DEF IInv, Daemon, JobsRun
<1>3. runs'[i].cmd = runs[i].cmd
    BY <1>2 DEF Moves
<1> QED BY <1>1, <1>2, <1>3

LEMMA ClickJobsRun ==
    ASSUME IInv, JobsRun, Moves, NEW verb \in Verbs, NEW key \in Keys,
           Click(verb, key)
    PROVE  JobsRun'
<1> DEFINE j == [verb |-> verb, key |-> key, state |-> "running",
                 run |-> Len(runs) + 1]
           r == [by |-> "ui", cmd |-> Arrives(Job(verb, key)), st |-> "running"]
<1>1. jobs' = Append(jobs, j) /\ j \in Jobs /\ runs' = Append(runs, r) /\ r \in Runs
    BY Elements, JobTypes, ArrivalsOf DEF Click, Start, Runs
<1>2. j.run = Len(runs) + 1 /\ r.cmd = Job(j.verb, j.key)
    BY JobIs
<1> HIDE DEF j, r
<1>3. /\ Len(jobs') = Len(jobs) + 1 /\ jobs'[Len(jobs) + 1] = j
      /\ \A k \in 1..Len(jobs) : jobs'[k] = jobs[k]
    BY <1>1, AppendProperties, Elements
<1>4. runs'[Len(runs) + 1] = r
    BY <1>1, AppendProperties, Elements
<1>5. ASSUME NEW k \in 1..Len(jobs)
      PROVE  runs'[jobs[k].run].cmd = Job(jobs[k].verb, jobs[k].key)
  <2>1. PICK i \in 1..Len(runs) : i = jobs[k].run
      BY DEF IInv, Daemon
  <2>2. runs[i].by = "ui" /\ runs[i].cmd = Job(jobs[k].verb, jobs[k].key)
      BY <2>1 DEF IInv, Daemon, JobsRun
  <2>3. runs'[i].cmd = runs[i].cmd
      BY <2>2 DEF Moves
  <2> QED BY <2>1, <2>2, <2>3
<1>6. \A k \in 1..Len(jobs') : k \in 1..Len(jobs) \/ k = Len(jobs) + 1
    BY <1>3, Elements
<1> QED BY <1>2, <1>3, <1>4, <1>5, <1>6 DEF JobsRun

LEMMA MarkJobsRun ==
    ASSUME IInv, JobsRun, NEW id \in DOMAIN jobs, Mark(id)
    PROVE  JobsRun'
<1>1. id \in 1..Len(jobs) /\ runs' = runs /\ jobs[id] \in Jobs
    BY Elements DEF Mark
<1>2. PICK s \in {"done", "failed"} :
          jobs' = [jobs EXCEPT ![id] = [jobs[id] EXCEPT !.state = s]]
    BY DEF Mark, Result
<1>3. PICK j \in Jobs : /\ jobs' = [jobs EXCEPT ![id] = j] /\ j.run = jobs[id].run
                        /\ j.verb = jobs[id].verb /\ j.key = jobs[id].key
  <2>1. /\ [jobs[id] EXCEPT !.state = s] \in Jobs
        /\ [jobs[id] EXCEPT !.state = s].run = jobs[id].run
        /\ [jobs[id] EXCEPT !.state = s].verb = jobs[id].verb
        /\ [jobs[id] EXCEPT !.state = s].key = jobs[id].key
      BY <1>1, JobMarked
  <2> QED BY <1>2, <2>1
<1>4. jobs'[id] = j /\ \A k \in 1..Len(jobs) : k # id => jobs'[k] = jobs[k]
    BY <1>1, <1>3, Elements
<1>5. Len(jobs') = Len(jobs)
    BY MarkDaemon
<1> QED BY <1>1, <1>3, <1>4, <1>5 DEF JobsRun

LEMMA JobsRunKept ==
    ASSUME IInv, JobsRun, Moves, [Next]_vars
    PROVE  JobsRun'
<1> USE DEF laptop, ui
<1>1. ASSUME NEW a \in Accepted, Type(a) PROVE JobsRun'
    BY <1>1, JobsRunStay DEF Type
<1>2. CASE Connect \/ ConnectFails \/ Answer \/ Cut \/ KeepaliveExpires \/ Interrupt
    BY <1>2, JobsRunStay
       DEF Connect, ConnectFails, Answer, Cut, KeepaliveExpires, Interrupt
<1>3. ASSUME NEW i \in DOMAIN runs, RunEnds(i) PROVE JobsRun'
    BY <1>3, JobsRunStay DEF RunEnds
<1>4. ASSUME NEW verb \in Verbs, NEW key \in Keys, Click(verb, key) PROVE JobsRun'
    BY <1>4, ClickJobsRun
<1>5. ASSUME NEW id \in DOMAIN jobs, Mark(id) PROVE JobsRun'
    BY <1>5, MarkJobsRun
<1>6. ASSUME NEW k \in DOMAIN clicks, Poll(k) PROVE JobsRun'
    BY <1>6, JobsRunStay DEF Poll
<1>7. CASE Restart
  <2>1. 1..Len(jobs') = {}
      BY <1>7 DEF Restart
  <2> QED BY <2>1 DEF JobsRun
<1>8. CASE UNCHANGED vars
    BY <1>8, JobsRunStay DEF vars
<1> QED
    BY <1>1, <1>2, <1>3, <1>4, <1>5, <1>6, <1>7, <1>8, CommandsAssumption
       DEF Next, Verbs

\* While the laptop is attached, the process it waits for keeps its command.
LEMMA LineRunsStay ==
    ASSUME LineRuns, conn' = "up" => /\ UNCHANGED <<conn, line, mine>>
                                     /\ runs'[mine].cmd = runs[mine].cmd
    PROVE  LineRuns'
BY DEF LineRuns

LEMMA Attached ==
    ASSUME IInv, conn = "up"
    PROVE  mine \in 1..Len(runs) /\ runs[mine].by = "laptop"
BY Elements DEF IInv, Laptop, Plane

LEMMA LineRunsKept ==
    ASSUME IInv, LineRuns, [Next]_vars
    PROVE  LineRuns'
<1> USE DEF laptop, ui
<1>1. ASSUME NEW a \in Accepted, Type(a) PROVE LineRuns'
    BY <1>1 DEF Type, LineRuns
<1>2. CASE Connect
  <2>1. line \in Accepted
      BY <1>2, AcceptedLines DEF Connect, IInv, Laptop
  <2> DEFINE r == [by |-> "laptop", cmd |-> Parse(line).cmd, st |-> "running"]
  <2>2. runs' = Append(runs, r) /\ mine' = Len(runs) + 1 /\ line' = line
      BY <1>2, <2>1, SentArrives DEF Connect, Start
  <2>3. r.cmd = Parse(line).cmd
      OBVIOUS
  <2>4. r \in Runs
      BY <2>1, SentArrives, ArrivalsOf DEF Runs
  <2> HIDE DEF r
  <2>5. runs'[Len(runs) + 1] = r
      BY <2>2, <2>4, AppendProperties, Elements
  <2> QED BY <2>2, <2>3, <2>5 DEF LineRuns
<1>3. CASE ConnectFails \/ Answer \/ KeepaliveExpires \/ Interrupt \/ Cut
    BY <1>3 DEF ConnectFails, Answer, KeepaliveExpires, Interrupt, Cut, Again,
       Return, LineRuns
<1>4. ASSUME NEW i \in DOMAIN runs, RunEnds(i) PROVE LineRuns'
  <2>1. UNCHANGED <<conn, line, mine>>
      BY <1>4 DEF RunEnds
  <2>2. conn = "up" => runs'[mine].cmd = runs[mine].cmd
    <3> SUFFICES ASSUME conn = "up" PROVE runs'[mine].cmd = runs[mine].cmd
        OBVIOUS
    <3>1. mine \in 1..Len(runs) /\ runs[mine].by = "laptop" /\ runs[mine] \in Runs
        BY Attached, Elements
    <3>2. PICK st \in {"ok", "fail", "255"} :
              runs' = [runs EXCEPT ![i] =
                  IF runs[i].by \in {"laptop", "ui"} THEN [runs[i] EXCEPT !.st = st]
                  ELSE NoRun]
        BY <1>4 DEF RunEnds
    <3>3. CASE i = mine
      <4>1. runs'[mine] = [runs[mine] EXCEPT !.st = st]
          BY <3>1, <3>2, <3>3, Elements
      <4> QED BY <3>1, <4>1, RunTypes
    <3>4. CASE i # mine
        BY <3>1, <3>2, <3>4, Elements
    <3> QED BY <3>3, <3>4
  <2> QED BY <2>1, <2>2, LineRunsStay
<1>5. ASSUME NEW verb \in Verbs, NEW key \in Keys, Click(verb, key) PROVE LineRuns'
  <2>1. UNCHANGED <<conn, line, mine>>
      BY <1>5 DEF Click
  <2>2. PICK r \in Runs : runs' = Append(runs, r)
      BY <1>5, ArrivalsOf DEF Click, Start, Runs
  <2>3. \A k \in 1..Len(runs) : runs'[k] = runs[k]
      BY <2>2, AppendProperties, Elements
  <2>4. conn = "up" => runs'[mine].cmd = runs[mine].cmd
      BY <2>3, Attached
  <2> QED BY <2>1, <2>4, LineRunsStay
<1>6. ASSUME NEW id \in DOMAIN jobs, Mark(id) PROVE LineRuns'
    BY <1>6 DEF Mark, LineRuns
<1>7. ASSUME NEW k \in DOMAIN clicks, Poll(k) PROVE LineRuns'
    BY <1>7 DEF Poll, LineRuns
<1>8. CASE Restart
  <2>1. UNCHANGED <<conn, line, mine>>
      BY <1>8 DEF Restart
  <2>2. conn = "up" => runs'[mine] = runs[mine]
    <3>1. runs' = [i \in DOMAIN runs |->
                       IF runs[i].by = "ui" /\ Running(i)
                       THEN [runs[i] EXCEPT !.st = "gone"] ELSE runs[i]]
        BY <1>8 DEF Restart
    <3> QED BY <3>1, Attached, Elements
  <2> QED BY <2>1, <2>2, LineRunsStay
<1>9. CASE UNCHANGED vars
    BY <1>9 DEF vars, LineRuns
<1> QED
    BY <1>1, <1>2, <1>3, <1>4, <1>5, <1>6, <1>7, <1>8, <1>9, CommandsAssumption
       DEF Next, Verbs

LEMMA CommandsRun == Spec => [](IInv /\ LineRuns /\ JobsRun)
<1>1. Init => LineRuns /\ JobsRun
  <2>1. 1..Len(<<>>) = {}
      OBVIOUS
  <2> QED BY <2>1 DEF Init, LineRuns, JobsRun
<1>2. IInv /\ LineRuns /\ JobsRun /\ [Next]_vars => LineRuns' /\ JobsRun'
    BY RunsMove, LineRunsKept, JobsRunKept
<1> QED BY <1>1, <1>2, CommandsInvariant, PTL DEF Spec

\* The plane re-parses exactly what the laptop or the daemon intended
\* (control.go:161, delegate and buildJobCommand), for any lines of any tokens,
\* wherever -p sits and however often, any keys and any number of attempts,
\* processes and restarts.
THEOREM PlaneParsesTheSame == Spec => []PlaneAgrees
<1>1. IInv /\ LineRuns /\ JobsRun => PlaneAgrees
    BY Elements DEF PlaneAgrees, LineRuns, JobsRun
<1> QED BY <1>1, CommandsRun, PTL

\* The rest of an accepted line is a sequence of tokens.
LEMMA AcceptedRest ==
    ASSUME NEW a \in Accepted
    PROVE  Parse(a).cmd.rest \in Seq(Tokens(Spellings, Contents))
<1> DEFINE T == Tokens(Spellings, Contents)
<1>1. a \in Lines
    BY DEF Accepted
<1>2. a \in Seq(T) /\ Spelled(Spellings, Contents)
    BY <1>1, LinesTyped
<1>3. Len(a) \in Nat /\ 1 \in 1..Len(a) + 1
    BY <1>2
<1>4. From(a)[<<1, "verb">>] \in Results(Spellings, Contents)
    BY <1>2, <1>3, FromShaped
<1> HIDE DEF T
<1>5. Parse(a) \in Results(Spellings, Contents)
    BY <1>4 DEF Parse
<1> QED BY <1>5 DEF Results

\* An accepted line of the profile group names what it changes, once.
LEMMA AcceptedNames ==
    ASSUME NEW a \in Accepted, Parse(a).cmd.verb = "profile",
           NEW c, c = Parse(a).cmd
    PROVE  LET pc == ProfileArgs(c)
               words == Cardinality({j \in 2..Len(c.rest) : ~IsFlag(c.rest[j])})
                        + (IF c.global = Absent THEN 0 ELSE 1)
           IN /\ pc.ok
              /\ pc.sub \in {"rm", "use", "rename", "add"} =>
                     /\ pc.name.text \in Names
                     /\ pc.name.text \in Candidates(c) \cup {c.global.text}
              /\ pc.sub \in {"rm", "use"} => words = 1
              /\ pc.sub = "rename" => words = 2
              /\ pc.sub = "add" => words \in 1..2
<1> DEFINE pc == ProfileArgs(c)
           words == Cardinality(After(c)) + Named(c)
<1>1. pc.ok
    BY DEF Accepted, Accepts
<1>2. c.rest \in Seq(Tokens(Spellings, Contents))
    BY AcceptedRest
<1> HIDE DEF pc
<1>3. ASSUME pc.sub \in Changing
      PROVE  /\ pc.name.text \in Names
             /\ pc.name = c.global \/ \E j \in After(c) : pc.name = c.rest[j]
             /\ words \in Nat
             /\ words \in (Least(pc.sub) + 1)..(Most(pc.sub) + 1)
    BY <1>1, <1>2, <1>3, ProfileNamed DEF pc
<1>4. Candidates(c) = {c.rest[j].text : j \in After(c)}
    BY Zenon DEF Candidates, After
<1>5. /\ After(c) = {j \in 2..Len(c.rest) : ~IsFlag(c.rest[j])}
      /\ Named(c) = IF c.global = Absent THEN 0 ELSE 1
    BY Zenon DEF After, Named
<1>6. ASSUME pc.sub \in Changing
      PROVE  pc.name.text \in Candidates(c) \cup {c.global.text}
    BY <1>3, <1>4, <1>6
<1>7. /\ pc.sub \in {"rm", "use"} => words = 1
      /\ pc.sub = "rename" => words = 2
      /\ pc.sub = "add" => words \in 1..2
  <2> HIDE DEF words
  <2> QED BY <1>3 DEF Changing, Least, Most
<1>8. pc.sub \in {"rm", "use", "rename", "add"} =>
          /\ pc.name.text \in Names
          /\ pc.name.text \in Candidates(c) \cup {c.global.text}
    BY <1>3, <1>6 DEF Changing
<1> QED BY <1>1, <1>5, <1>7, <1>8 DEF pc

\* A profile subverb that runs on the plane acts on a profile the user named,
\* and has a place for every word of the parsed command, whatever was typed
\* (parseProfileArgs, on the laptop and again on the plane).  Of several -p, the
\* parsed command has the last; what the others held is not counted.
THEOREM ProfilesNamedOnce == Spec => []NamedOnce
<1>1. IInv /\ LineRuns => NamedOnce
  <2> SUFFICES ASSUME IInv, LineRuns, conn = "up", runs[mine].cmd.verb = "profile"
               PROVE  NamedOnce
      BY DEF NamedOnce
  <2>1. line \in Accepted
      BY DEF IInv, Laptop
  <2>2. runs[mine].cmd = Parse(line).cmd
      BY DEF LineRuns
  <2> QED BY <2>1, <2>2, AcceptedNames DEF NamedOnce
<1> QED BY <1>1, CommandsRun, PTL

-----------------------------------------------------------------------------
(* Processes, job store and restarts are a JobBoard.                       *)

Shows(c, rs) == [cmd |-> rs[c.run].cmd, st |-> Outcome(rs[c.run].st),
                 told |-> c.told, lost |-> c.restarted]
BoardOf(cs, rs) == [k \in DOMAIN cs |-> Shows(cs[k], rs)]

\* The abstract variable.
Board == [k \in DOMAIN clicks |-> Entry(clicks[k])]

LEMMA BoardIs == Board = BoardOf(clicks, runs) /\ Board' = BoardOf(clicks', runs')
BY DEF Board, BoardOf, Entry, Shows

LEMMA ShowsParts ==
    \A c, rs : /\ Shows(c, rs).cmd = rs[c.run].cmd
               /\ Shows(c, rs).st = Outcome(rs[c.run].st)
               /\ Shows(c, rs).told = c.told
               /\ Shows(c, rs).lost = c.restarted
BY DEF Shows

LEMMA BoardParts ==
    ASSUME NEW cs \in Seq(Clicks), NEW rs
    PROVE  /\ DOMAIN BoardOf(cs, rs) = 1..Len(cs)
           /\ BoardOf(cs, rs) = [k \in 1..Len(cs) |-> Shows(cs[k], rs)]
           /\ \A k \in 1..Len(cs) : BoardOf(cs, rs)[k] = Shows(cs[k], rs)
<1>1. DOMAIN cs = 1..Len(cs)
    OBVIOUS
<1> HIDE DEF Shows
<1> QED BY <1>1 DEF BoardOf

\* Nothing, one entry or the end of the board changes.
LEMMA BoardSame ==
    ASSUME NEW cs \in Seq(Clicks), NEW ds \in Seq(Clicks), NEW rs, NEW ss,
           Len(ds) = Len(cs),
           \A j \in 1..Len(cs) : Shows(ds[j], ss) = Shows(cs[j], rs)
    PROVE  BoardOf(ds, ss) = BoardOf(cs, rs)
<1> HIDE DEF Shows
<1> QED BY BoardParts

LEMMA BoardOne ==
    ASSUME NEW cs \in Seq(Clicks), NEW ds \in Seq(Clicks), NEW rs, NEW ss,
           Len(ds) = Len(cs), NEW k \in 1..Len(cs),
           \A j \in 1..Len(cs) : j # k => Shows(ds[j], ss) = Shows(cs[j], rs)
    PROVE  BoardOf(ds, ss) = [BoardOf(cs, rs) EXCEPT ![k] = Shows(ds[k], ss)]
<1>1. BoardOf(cs, rs) = [j \in 1..Len(cs) |-> Shows(cs[j], rs)]
    BY BoardParts
<1>2. BoardOf(ds, ss) = [j \in 1..Len(cs) |-> Shows(ds[j], ss)]
    BY BoardParts
<1> HIDE DEF Shows, BoardOf
<1> QED BY <1>1, <1>2

LEMMA BoardMore ==
    ASSUME NEW cs \in Seq(Clicks), NEW ds \in Seq(Clicks), NEW rs, NEW ss,
           Len(ds) = Len(cs) + 1,
           \A j \in 1..Len(cs) : Shows(ds[j], ss) = Shows(cs[j], rs)
    PROVE  BoardOf(ds, ss) = Append(BoardOf(cs, rs), Shows(ds[Len(ds)], ss))
<1> DEFINE b == BoardOf(cs, rs)
           d == BoardOf(ds, ss)
           e == Shows(ds[Len(ds)], ss)
           S == {b[k] : k \in 1..Len(cs)} \cup {e}
<1>1. /\ Len(cs) \in Nat /\ b = [k \in 1..Len(cs) |-> Shows(cs[k], rs)]
      /\ d = [k \in 1..Len(cs) + 1 |-> Shows(ds[k], ss)]
    BY BoardParts
<1> HIDE DEF Shows
<1>2. b \in [1..Len(cs) -> S] /\ d \in [1..Len(cs) + 1 -> S]
  <2>1. \A k \in 1..Len(cs) : b[k] = Shows(cs[k], rs) /\ b[k] \in S
      BY <1>1
  <2>2. \A k \in 1..Len(cs) + 1 : k \in 1..Len(cs) \/ k = Len(ds)
      BY <1>1
  <2>3. \A k \in 1..Len(cs) + 1 : Shows(ds[k], ss) \in S
      BY <2>1, <2>2
  <2> HIDE DEF S
  <2>4. b \in [1..Len(cs) -> S]
      BY <1>1, <2>1
  <2>5. d \in [1..Len(cs) + 1 -> S]
      BY <1>1, <2>3
  <2> QED BY <2>4, <2>5
<1>3. d[Len(cs) + 1] = e /\ e \in S
    BY <1>1
<1>4. \A k \in 1..Len(cs) : d[k] = b[k]
    BY <1>1
<1> HIDE DEF b, d, e, S
<1>5. b \in Seq(S) /\ d \in Seq(S) /\ Len(b) = Len(cs) /\ Len(d) = Len(cs) + 1
    BY <1>1, <1>2, SeqDef, LenProperties
<1>6. /\ Append(b, e) \in Seq(S) /\ Len(Append(b, e)) = Len(cs) + 1
      /\ Append(b, e)[Len(cs) + 1] = e
      /\ \A k \in 1..Len(cs) : Append(b, e)[k] = b[k]
    BY <1>3, <1>5, AppendProperties
<1>7. \A k \in 1..Len(d) : d[k] = Append(b, e)[k]
  <2>1. \A k \in 1..Len(d) : k \in 1..Len(cs) \/ k = Len(cs) + 1
      BY <1>1, <1>5
  <2> QED BY <1>3, <1>4, <1>6, <2>1
<1>8. d = Append(b, e)
    BY <1>5, <1>6, <1>7, SeqEqual
<1> QED BY <1>8 DEF b, d, e

\* Every click started a process of its own.
Apart ==
    \A k, m \in 1..Len(clicks) : clicks[k].run = clicks[m].run => k = m

\* The processes of the daemon are as they were.
Untouched ==
    \A i \in 1..Len(runs) :
        runs[i].by = "ui" => runs'[i].cmd = runs[i].cmd /\ runs'[i].st = runs[i].st

LEMMA ReturnUntouched == ASSUME Plane, Return PROVE Untouched
<1>1. \A i \in 1..Len(runs) :
          runs'[i] = IF runs[i].by = "ui" THEN runs[i] ELSE NoRun
    BY DEF Plane, Return
<1> QED BY <1>1 DEF Untouched

LEMMA AgainUntouched == ASSUME Plane, Again PROVE Untouched
<1>1. CASE tries < MaxTries
  <2>1. \A i \in 1..Len(runs) : i # mine => runs'[i] = runs[i]
      BY <1>1 DEF Again, Plane
  <2>2. \A i \in 1..Len(runs) : runs[i].by = "ui" => i # mine
      BY DEF Plane
  <2> QED BY <2>1, <2>2 DEF Untouched
<1>2. CASE ~(tries < MaxTries)
    BY <1>2, ReturnUntouched DEF Again
<1> QED BY <1>1, <1>2

LEMMA ConnectUntouched == ASSUME IInv, Connect PROVE Untouched
<1>1. PICK r \in Runs : runs' = Append(runs, r)
  <2>1. line \in Accepted
      BY AcceptedLines DEF Connect, IInv, Laptop
  <2> QED BY <2>1, ArrivalsOf DEF Connect, Start, Runs
<1>2. \A i \in 1..Len(runs) : runs'[i] = runs[i]
    BY <1>1, AppendProperties, Elements
<1> QED BY <1>2 DEF Untouched

\* A click's process is one of the daemon's.
LEMMA ClicksRun ==
    ASSUME IInv, NEW k \in 1..Len(clicks)
    PROVE  /\ clicks[k] \in Clicks /\ clicks[k].run \in 1..Len(runs)
           /\ runs[clicks[k].run].by = "ui"
BY Elements, PagesKnow DEF IInv, Knows

LEMMA UntouchedBoard ==
    ASSUME IInv, Untouched, UNCHANGED clicks PROVE Board' = Board
<1>1. ASSUME NEW k \in 1..Len(clicks)
      PROVE  Shows(clicks[k], runs') = Shows(clicks[k], runs)
    BY ClicksRun DEF Untouched, Shows
<1> QED BY <1>1, Elements, BoardIs, BoardSame

LEMMA UntouchedApart == ASSUME Apart, UNCHANGED clicks PROVE Apart'
BY DEF Apart

\* One process ends: its click's entry is settled.
LEMMA OutcomeIs ==
    /\ Outcome("running") = "running"
    /\ \A st \in {"fail", "255", "gone"} : Outcome(st) = "failed"
    /\ Outcome("ok") = "done"
BY DEF Outcome

LEMMA EndsBoard ==
    ASSUME IInv, Apart, NEW i \in DOMAIN runs, RunEnds(i)
    PROVE  [Abstract!Next]_Board
<1>1. /\ i \in 1..Len(runs) /\ runs[i] \in Runs /\ runs[i].st = "running"
      /\ clicks' = clicks
    BY Elements DEF RunEnds, Running, ui
<1>2. PICK st \in {"ok", "fail", "255"} :
          runs' = [runs EXCEPT ![i] =
              IF runs[i].by \in {"laptop", "ui"} THEN [runs[i] EXCEPT !.st = st]
              ELSE NoRun]
    BY DEF RunEnds
<1>3. \A j \in 1..Len(runs) : j # i => runs'[j] = runs[j]
    BY <1>2, Elements
<1>4. CASE \A k \in 1..Len(clicks) : clicks[k].run # i
  <2>1. \A k \in 1..Len(clicks) : Shows(clicks[k], runs') = Shows(clicks[k], runs)
      BY <1>3, <1>4, ClicksRun DEF Shows
  <2> QED BY <1>1, <2>1, Elements, BoardIs, BoardSame
<1>5. ASSUME NEW k \in 1..Len(clicks), clicks[k].run = i
      PROVE  [Abstract!Next]_Board
  <2>1. runs'[i] = [runs[i] EXCEPT !.st = st]
    <3>1. runs[i].by = "ui"
        BY <1>5, ClicksRun
    <3> QED BY <1>1, <1>2, <3>1, Elements
  <2>2. runs'[i].cmd = runs[i].cmd /\ runs'[i].st = st
    <3>1. [runs[i] EXCEPT !.st = st].cmd = runs[i].cmd
          /\ [runs[i] EXCEPT !.st = st].st = st
        BY <1>1 DEF Runs
    <3> QED BY <2>1, <3>1
  <2>3. \A j \in 1..Len(clicks) : j # k => Shows(clicks[j], runs') = Shows(clicks[j], runs)
    <3> SUFFICES ASSUME NEW j \in 1..Len(clicks), j # k
                 PROVE  Shows(clicks[j], runs') = Shows(clicks[j], runs)
        OBVIOUS
    <3>1. clicks[j].run \in 1..Len(runs) /\ clicks[j].run # i
        BY <1>5, ClicksRun DEF Apart
    <3> QED BY <1>3, <3>1 DEF Shows
  <2>4. PICK end \in {"done", "failed"} : end = Outcome(st)
      BY OutcomeIs
  <2>5. Shows(clicks[k], runs') = [Shows(clicks[k], runs) EXCEPT !.st = end]
      BY <1>5, <2>2, <2>4 DEF Shows
  <2>6. Board' = [Board EXCEPT ![k] = Shows(clicks[k], runs')]
    <3>1. clicks \in Seq(Clicks) /\ Len(clicks) = Len(clicks)
        BY Elements
    <3>2. BoardOf(clicks, runs') =
              [BoardOf(clicks, runs) EXCEPT ![k] = Shows(clicks[k], runs')]
        BY <2>3, <3>1, BoardOne
    <3> QED BY <1>1, <3>2, BoardIs
  <2>7. DOMAIN Board = 1..Len(clicks) /\ Board[k] = Shows(clicks[k], runs)
      BY Elements, BoardIs, BoardParts
  <2>8. Board[k].st = "running"
      BY <1>1, <1>5, <2>7, ShowsParts, OutcomeIs
  <2>9. Board' = [Board EXCEPT ![k].st = end]
    <3> HIDE DEF Board, Shows
    <3> QED BY <2>5, <2>6, <2>7
  <2>10. Abstract!Settle(k, end)
      BY <2>8, <2>9 DEF Abstract!Settle, Board
  <2>11. k \in DOMAIN Board
      BY <2>7
  <2> QED BY <2>10, <2>11 DEF Abstract!Next, Board
<1> QED BY <1>4, <1>5

\* A page is told what became of its click, or its entry is lost.
LEMMA PollBoard ==
    ASSUME IInv, NEW k \in DOMAIN clicks, Poll(k)
    PROVE  [Abstract!Next]_Board
<1>1. /\ k \in 1..Len(clicks) /\ clicks[k] \in Clicks /\ runs' = runs
      /\ clicks[k].told = "running"
    BY Elements DEF Poll
<1>2. Knows(clicks[k], runs, jobs)
    BY <1>1, PagesKnow DEF IInv
<1>3. PICK t \in {"running", "done", "failed", "unknown"} :
          /\ clicks' = [clicks EXCEPT ![k] = [clicks[k] EXCEPT !.told = t]]
          /\ ~clicks[k].restarted => /\ clicks[k].id \in 1..Len(jobs)
                                     /\ t = jobs[clicks[k].id].state
  <2>1. CASE clicks[k].id \in DOMAIN jobs
    <3>1. jobs[clicks[k].id].state \in {"running", "done", "failed"}
        BY <2>1, Elements, JobTypes
    <3> QED BY <2>1, <3>1, Elements DEF Poll
  <2>2. CASE clicks[k].id \notin DOMAIN jobs
    <3>1. ~ ~clicks[k].restarted
        BY <1>1, <1>2, <2>2, Elements DEF Knows
    <3> QED BY <2>2, <3>1 DEF Poll
  <2> QED BY <2>1, <2>2
<1> DEFINE c == [clicks[k] EXCEPT !.told = t]
<1>4. /\ c \in Clicks /\ c.told = t /\ c.run = clicks[k].run
      /\ c.restarted = clicks[k].restarted
    BY <1>1, ClickTold
<1>5. Shows(c, runs) = [Shows(clicks[k], runs) EXCEPT !.told = t]
  <2> HIDE DEF c
  <2> QED BY <1>4 DEF Shows
<1> HIDE DEF c
<1>6. clicks' \in Seq(Clicks) /\ Len(clicks') = Len(clicks)
    BY <1>1, <1>3, <1>4, ExceptSeq, Elements DEF c
<1>7. clicks'[k] = c /\ \A j \in 1..Len(clicks) : j # k => clicks'[j] = clicks[j]
    BY <1>1, <1>3, Elements DEF c
<1>8. Board' = [Board EXCEPT ![k] = Shows(c, runs)]
  <2>1. \A j \in 1..Len(clicks) : j # k => Shows(clicks'[j], runs) = Shows(clicks[j], runs)
      BY <1>7
  <2>2. clicks \in Seq(Clicks) /\ k \in 1..Len(clicks)
      BY <1>1, Elements
  <2>3. BoardOf(clicks', runs) =
            [BoardOf(clicks, runs) EXCEPT ![k] = Shows(clicks'[k], runs)]
    <3> DEFINE ds == clicks'
    <3>1. /\ ds \in Seq(Clicks) /\ Len(ds) = Len(clicks)
          /\ \A j \in 1..Len(clicks) : j # k => Shows(ds[j], runs) = Shows(clicks[j], runs)
        BY <1>6, <2>1
    <3> HIDE DEF ds, Shows
    <3>2. BoardOf(ds, runs) = [BoardOf(clicks, runs) EXCEPT ![k] = Shows(ds[k], runs)]
      <4>1. /\ BoardOf(clicks, runs) = [j \in 1..Len(clicks) |-> Shows(clicks[j], runs)]
            /\ BoardOf(ds, runs) = [j \in 1..Len(clicks) |-> Shows(ds[j], runs)]
          BY <2>2, <3>1, BoardParts
      <4> HIDE DEF BoardOf
      <4> QED BY <2>2, <3>1, <4>1
    <3> QED BY <3>2 DEF ds
  <2> HIDE DEF Shows, BoardOf, Board
  <2> QED BY <1>1, <1>7, <2>3, BoardIs
<1>9. /\ DOMAIN Board = 1..Len(clicks) /\ Board[k] = Shows(clicks[k], runs)
    BY <1>1, Elements, BoardIs, BoardParts
<1>10. Board' = [Board EXCEPT ![k].told = t]
  <2> HIDE DEF Board, Shows
  <2> QED BY <1>1, <1>5, <1>8, <1>9
<1>11. /\ Board[k].told = "running" /\ Board[k].lost = clicks[k].restarted
       /\ Board[k].st = Outcome(runs[clicks[k].run].st)
    BY <1>1, <1>9, ShowsParts
<1>12. CASE t = "running"
  <2>1. Board' = Board
    <3>1. [Board EXCEPT ![k].told = "running"] = Board
      <4>1. Board[k] = [cmd |-> runs[clicks[k].run].cmd,
                        st |-> Outcome(runs[clicks[k].run].st),
                        told |-> "running", lost |-> clicks[k].restarted]
          BY <1>1, <1>9 DEF Shows
      <4>2. [Board[k] EXCEPT !.told = "running"] = Board[k]
          BY <4>1
      <4>3. Board = [j \in 1..Len(clicks) |-> Shows(clicks[j], runs)]
          BY Elements, BoardIs, BoardParts
      <4> HIDE DEF Board, Shows
      <4> QED BY <1>1, <4>2, <4>3
    <3> QED BY <1>10, <1>12, <3>1
  <2> QED BY <2>1
<1>13. CASE t # "running"
  <2>1. clicks[k].restarted \/ t = Outcome(runs[clicks[k].run].st)
    <3> SUFFICES ASSUME ~clicks[k].restarted
                 PROVE  t = Outcome(runs[clicks[k].run].st)
        OBVIOUS
    <3>1. PICK id \in 1..Len(jobs) : id = clicks[k].id
        BY <1>3
    <3>2. jobs[id].run = clicks[k].run /\ t = jobs[id].state /\ jobs[id] \in Jobs
        BY <1>1, <1>2, <1>3, <3>1, Elements DEF Knows
    <3>3. /\ t = "done" => runs[clicks[k].run].st = "ok"
          /\ t = "failed" => runs[clicks[k].run].st \notin {"ok", "running"}
        BY <3>2 DEF IInv, Daemon
    <3>4. t \in {"done", "failed"}
        BY <1>13, <3>2 DEF Jobs
    <3>5. runs[clicks[k].run].st \in {"running", "ok", "fail", "255", "gone"}
        BY <1>1, ClicksRun, Elements DEF Runs
    <3> QED BY <3>3, <3>4, <3>5, OutcomeIs
  <2>2. Abstract!Tell(k, t)
      BY <1>10, <1>11, <2>1 DEF Abstract!Tell, Board
  <2>3. k \in DOMAIN Board /\ t \in {"done", "failed", "unknown"}
      BY <1>1, <1>9, <1>13
  <2> QED BY <2>2, <2>3 DEF Abstract!Next, Board
<1> QED BY <1>12, <1>13

\* A click that the store lets through is posted: no process runs its command.
LEMMA ClickBoard ==
    ASSUME IInv, Tracked, NEW verb \in Verbs, NEW key \in Keys, Click(verb, key),
           Job(verb, key) \in Buttons
    PROVE  [Abstract!Next]_Board
<1> DEFINE cmd == Job(verb, key)
           r == [by |-> "ui", cmd |-> cmd, st |-> "running"]
           c == [id |-> Len(jobs) + 1, run |-> Len(runs) + 1,
                 told |-> "running", restarted |-> FALSE]
           e == [cmd |-> cmd, st |-> "running", told |-> "running", lost |-> FALSE]
<1>1. /\ Arrives(cmd) = cmd /\ runs' = Append(runs, r) /\ r \in Runs
      /\ clicks' = Append(clicks, c) /\ c \in Clicks
  <2>1. Arrives(cmd) = cmd
      BY JobIs
  <2>2. runs' = Append(runs, r)
      BY <2>1 DEF Click, Start
  <2>3. cmd \in Arrivals
      BY <2>1, ArrivalsOf
  <2>4. r \in Runs
    <3> HIDE DEF cmd
    <3> QED BY <2>3 DEF Runs
  <2>5. Len(jobs) + 1 \in Nat /\ Len(runs) + 1 \in Nat
      BY Elements
  <2>6. c \in Clicks
      BY <2>5, ClickTypes
  <2> QED BY <2>1, <2>2, <2>4, <2>6 DEF Click
<1>2. ~Conflict(verb, key)
    BY DEF Click
<1> HIDE DEF cmd
<1>3. /\ r.cmd = cmd /\ r.st = "running" /\ c.run = Len(runs) + 1
      /\ c.told = "running" /\ c.restarted = FALSE
    OBVIOUS
<1> HIDE DEF r, c
<1>4. /\ runs'[Len(runs) + 1] = r
      /\ \A i \in 1..Len(runs) : runs'[i] = runs[i]
    BY <1>1, AppendProperties, Elements
<1>5. /\ clicks' \in Seq(Clicks) /\ Len(clicks') = Len(clicks) + 1
      /\ clicks'[Len(clicks) + 1] = c
      /\ \A k \in 1..Len(clicks) : clicks'[k] = clicks[k]
    BY <1>1, AppendProperties, Elements
<1>6. Shows(c, runs') = e
    BY <1>3, <1>4, OutcomeIs DEF Shows
<1> HIDE DEF e
<1>7. \A k \in 1..Len(clicks) : Shows(clicks'[k], runs') = Shows(clicks[k], runs)
  <2> SUFFICES ASSUME NEW k \in 1..Len(clicks)
               PROVE  Shows(clicks'[k], runs') = Shows(clicks[k], runs)
      OBVIOUS
  <2>1. clicks'[k] = clicks[k] /\ runs'[clicks[k].run] = runs[clicks[k].run]
      BY <1>4, <1>5, ClicksRun
  <2> QED BY <2>1 DEF Shows
<1>8. Board' = Append(Board, e)
  <2>1. clicks \in Seq(Clicks)
      BY Elements
  <2>2. BoardOf(clicks', runs') = Append(BoardOf(clicks, runs),
                                         Shows(clicks'[Len(clicks')], runs'))
      BY <1>5, <1>7, <2>1, BoardMore
  <2> HIDE DEF Board
  <2> QED BY <1>5, <1>6, <2>2, BoardIs
<1>9. ASSUME NEW k \in DOMAIN Board, Board[k].cmd = cmd, Board[k].st = "running"
      PROVE  FALSE
  <2>1. k \in 1..Len(clicks) /\ Board[k] = Shows(clicks[k], runs)
      BY Elements, BoardIs, BoardParts
  <2>2. PICK i \in 1..Len(runs) : i = clicks[k].run /\ runs[i].by = "ui"
      BY <2>1, ClicksRun
  <2>3. runs[i].cmd = cmd /\ Outcome(runs[i].st) = "running"
      BY <1>9, <2>1, <2>2, ShowsParts
  <2>4. runs[i].st = "running"
      BY <2>3 DEF Outcome
  <2>5. PICK id \in 1..Len(jobs) : Serves(jobs[id], i, runs[i].cmd)
      BY <2>2, <2>4 DEF Tracked
  <2>6. jobs[id].verb \in Verbs /\ jobs[id].key \in Keys
      BY Elements DEF Jobs
  <2>7. Arrives(Job(jobs[id].verb, jobs[id].key)) = Arrives(Job(verb, key))
      BY <1>1, <2>3, <2>5 DEF Serves, cmd
  <2>8. jobs[id].verb = verb /\ jobs[id].key = key
      BY <2>6, <2>7, SameRequest
  <2> QED BY <1>2, <2>5, <2>8, Elements DEF Conflict, Serves
<1>10. Abstract!Post(cmd)
    BY <1>8, <1>9 DEF Abstract!Post, Abstract!Runs, Board, e
<1> QED BY <1>10 DEF Abstract!Next, cmd

LEMMA WipedIs ==
    ASSUME NEW cmd, NEW st, NEW told, NEW lost \in BOOLEAN
    PROVE  Abstract!Wiped([cmd |-> cmd, st |-> st, told |-> told, lost |-> lost]) =
               [cmd |-> cmd, st |-> IF st = "running" THEN "failed" ELSE st,
                told |-> told, lost |-> IF told = "running" THEN TRUE ELSE lost]
BY DEF Abstract!Wiped

\* A restart of the daemon wipes the board.
LEMMA RestartBoard == ASSUME IInv, Restart PROVE [Abstract!Next]_Board
<1>1. /\ runs' = [i \in DOMAIN runs |->
                      IF runs[i].by = "ui" /\ Running(i)
                      THEN [runs[i] EXCEPT !.st = "gone"] ELSE runs[i]]
      /\ clicks' = [k \in DOMAIN clicks |->
                        IF clicks[k].told = "running"
                        THEN [clicks[k] EXCEPT !.restarted = TRUE] ELSE clicks[k]]
    BY DEF Restart
<1>2. clicks' \in Seq(Clicks) /\ Len(clicks') = Len(clicks)
  <2>1. clicks' \in [1..Len(clicks) -> Clicks]
      BY <1>1, Elements, ClickTypes
  <2> QED BY <2>1, Elements, SeqDef, LenProperties
<1>3. ASSUME NEW k \in 1..Len(clicks)
      PROVE  Shows(clicks'[k], runs') = Abstract!Wiped(Shows(clicks[k], runs))
  <2>1. PICK i \in 1..Len(runs) : /\ i = clicks[k].run /\ runs[i].by = "ui"
                                  /\ runs[i] \in Runs /\ clicks[k] \in Clicks
      BY ClicksRun, Elements
  <2>2. /\ runs'[i].cmd = runs[i].cmd
        /\ Outcome(runs'[i].st) = IF Outcome(runs[i].st) = "running" THEN "failed"
                                  ELSE Outcome(runs[i].st)
    <3>1. CASE runs[i].st = "running"
      <4>1. runs'[i] = [runs[i] EXCEPT !.st = "gone"]
          BY <1>1, <2>1, <3>1, Elements DEF Running
      <4>2. runs'[i].cmd = runs[i].cmd /\ runs'[i].st = "gone"
          BY <2>1, <4>1 DEF Runs
      <4> QED BY <3>1, <4>2, OutcomeIs
    <3>2. CASE runs[i].st # "running"
      <4>1. runs'[i] = runs[i]
          BY <1>1, <3>2, Elements DEF Running
      <4>2. Outcome(runs[i].st) # "running"
          BY <3>2 DEF Outcome
      <4> QED BY <4>1, <4>2
    <3> QED BY <3>1, <3>2
  <2>3. /\ clicks'[k].run = i /\ clicks'[k].told = clicks[k].told
        /\ clicks'[k].restarted = IF clicks[k].told = "running" THEN TRUE
                                  ELSE clicks[k].restarted
    <3>1. CASE clicks[k].told = "running"
      <4>1. clicks'[k] = [clicks[k] EXCEPT !.restarted = TRUE]
          BY <1>1, <3>1, Elements
      <4>2. /\ clicks'[k].run = clicks[k].run /\ clicks'[k].told = clicks[k].told
            /\ clicks'[k].restarted = TRUE
          BY <2>1, <4>1, ClickTypes
      <4> QED BY <2>1, <3>1, <4>2
    <3>2. CASE clicks[k].told # "running"
      <4>1. clicks'[k] = clicks[k]
          BY <1>1, <3>2, Elements
      <4> QED BY <2>1, <3>2, <4>1
    <3> QED BY <3>1, <3>2
  <2>4. Shows(clicks'[k], runs') =
            [cmd |-> runs[i].cmd,
             st |-> IF Outcome(runs[i].st) = "running" THEN "failed"
                    ELSE Outcome(runs[i].st),
             told |-> clicks[k].told,
             lost |-> IF clicks[k].told = "running" THEN TRUE
                      ELSE clicks[k].restarted]
      BY <2>2, <2>3 DEF Shows
  <2>5. Shows(clicks[k], runs) =
            [cmd |-> runs[i].cmd, st |-> Outcome(runs[i].st),
             told |-> clicks[k].told, lost |-> clicks[k].restarted]
      BY <2>1 DEF Shows
  <2>6. Abstract!Wiped(Shows(clicks[k], runs)) = Shows(clicks'[k], runs')
    <3>1. PICK lost \in BOOLEAN : lost = clicks[k].restarted
        BY <2>1 DEF Clicks
    <3> DEFINE cmd == runs[i].cmd
               st == Outcome(runs[i].st)
               told == clicks[k].told
    <3>2. Shows(clicks[k], runs) =
              [cmd |-> cmd, st |-> st, told |-> told, lost |-> lost]
        BY <2>5, <3>1
    <3>3. Shows(clicks'[k], runs') =
              [cmd |-> cmd, st |-> IF st = "running" THEN "failed" ELSE st,
               told |-> told, lost |-> IF told = "running" THEN TRUE ELSE lost]
        BY <2>4, <3>1
    <3> HIDE DEF cmd, st, told, Shows
    <3>4. Abstract!Wiped([cmd |-> cmd, st |-> st, told |-> told, lost |-> lost]) =
              [cmd |-> cmd, st |-> IF st = "running" THEN "failed" ELSE st,
               told |-> told, lost |-> IF told = "running" THEN TRUE ELSE lost]
        BY WipedIs
    <3> QED BY ONLY <3>2, <3>3, <3>4, Zenon
  <2> QED BY <2>6
<1>4. /\ BoardOf(clicks, runs) = [k \in 1..Len(clicks) |-> Shows(clicks[k], runs)]
      /\ BoardOf(clicks', runs') = [k \in 1..Len(clicks) |-> Shows(clicks'[k], runs')]
    BY <1>2, Elements, BoardParts
<1>5. Board' = [k \in DOMAIN Board |-> Abstract!Wiped(Board[k])]
  <2> HIDE DEF Board, BoardOf, Shows
  <2> QED BY <1>3, <1>4, BoardIs
<1>6. Abstract!Restart
    BY <1>5 DEF Abstract!Restart, Board
<1> QED BY <1>6 DEF Abstract!Next

LEMMA BoardStep ==
    ASSUME IInv, Tracked, Apart, [Next]_vars
    PROVE  [Abstract!Next]_Board
<1> USE DEF laptop, ui
<1>0. Plane BY DEF IInv
<1>u. UNCHANGED runs => Untouched BY DEF Untouched
<1>1. ASSUME NEW a \in Accepted, Type(a) PROVE Board' = Board
    BY <1>1, <1>u, UntouchedBoard DEF Type
<1>2. CASE Connect
    BY <1>2, ConnectUntouched, UntouchedBoard DEF Connect
<1>3. CASE ConnectFails \/ Answer \/ KeepaliveExpires
    BY <1>0, <1>3, AgainUntouched, ReturnUntouched, UntouchedBoard
       DEF ConnectFails, Answer, KeepaliveExpires
<1>4. CASE Cut
    BY <1>4, <1>u, UntouchedBoard DEF Cut
<1>5. CASE Interrupt
    BY <1>0, <1>5, ReturnUntouched, UntouchedBoard DEF Interrupt
<1>6. ASSUME NEW i \in DOMAIN runs, RunEnds(i) PROVE [Abstract!Next]_Board
    BY <1>6, EndsBoard
<1>7. ASSUME NEW key \in Keys, Click("up", key) \/ Click("down", key)
      PROVE  [Abstract!Next]_Board
    BY <1>7, ClickBoard DEF Buttons, Verbs
<1>8. CASE Click("reap", NoKey)
    BY <1>8, ClickBoard, CommandsAssumption DEF Buttons, Verbs
<1>9. ASSUME NEW id \in DOMAIN jobs, Mark(id) PROVE Board' = Board
    BY <1>9, <1>u, UntouchedBoard DEF Mark
<1>10. ASSUME NEW k \in DOMAIN clicks, Poll(k) PROVE [Abstract!Next]_Board
    BY <1>10, PollBoard
<1>11. CASE Restart
    BY <1>11, RestartBoard
<1>12. CASE UNCHANGED vars
    BY <1>12, <1>u, UntouchedBoard DEF vars
<1> HIDE DEF Board
<1> QED
    BY <1>1, <1>2, <1>3, <1>4, <1>5, <1>6, <1>7, <1>8, <1>9, <1>10, <1>11,
       <1>12 DEF Next

\* A click's process is new; no other step gives a page another.
LEMMA ApartKept ==
    ASSUME IInv, Apart, [Next]_vars
    PROVE  Apart'
<1> DEFINE Same == /\ Len(clicks') = Len(clicks)
                   /\ \A k \in 1..Len(clicks) : clicks'[k].run = clicks[k].run
<1>s. Same => Apart'
    BY DEF Apart
<1>1. ASSUME NEW verb \in Verbs, NEW key \in Keys, Click(verb, key) PROVE Apart'
  <2> DEFINE c == [id |-> Len(jobs) + 1, run |-> Len(runs) + 1,
                   told |-> "running", restarted |-> FALSE]
  <2>1. clicks' = Append(clicks, c)
      BY <1>1 DEF Click
  <2>2. c \in Clicks /\ c.run = Len(runs) + 1
    <3>1. Len(jobs) + 1 \in Nat /\ Len(runs) + 1 \in Nat
        BY Elements
    <3> QED BY <3>1, ClickTypes
  <2> HIDE DEF c
  <2>3. /\ Len(clicks') = Len(clicks) + 1 /\ clicks'[Len(clicks) + 1] = c
        /\ \A k \in 1..Len(clicks) : clicks'[k] = clicks[k]
      BY <2>1, <2>2, AppendProperties, Elements
  <2>4. \A k \in 1..Len(clicks') : k \in 1..Len(clicks) \/ k = Len(clicks) + 1
      BY <2>3, Elements
  <2>5. \A k \in 1..Len(clicks) : clicks[k].run # Len(runs) + 1
      BY ClicksRun, Elements
  <2> QED BY <2>2, <2>3, <2>4, <2>5 DEF Apart
<1>2. ASSUME NEW k \in DOMAIN clicks, Poll(k) PROVE Apart'
  <2>1. PICK t \in {"running", "done", "failed", "unknown"} :
            clicks' = [clicks EXCEPT ![k] = [clicks[k] EXCEPT !.told = t]]
    <3>1. CASE clicks[k].id \in DOMAIN jobs
      <4>1. jobs[clicks[k].id].state \in {"running", "done", "failed"}
          BY <3>1, Elements, JobTypes
      <4> QED BY <1>2, <3>1, <4>1 DEF Poll
    <3>2. CASE clicks[k].id \notin DOMAIN jobs
        BY <1>2, <3>2 DEF Poll
    <3> QED BY <3>1, <3>2
  <2>2. PICK c \in Clicks : clicks' = [clicks EXCEPT ![k] = c] /\ c.run = clicks[k].run
    <3>1. /\ [clicks[k] EXCEPT !.told = t] \in Clicks
          /\ [clicks[k] EXCEPT !.told = t].run = clicks[k].run
        BY Elements, ClickTold
    <3> QED BY <2>1, <3>1
  <2>3. Len(clicks') = Len(clicks)
      BY <2>2, ExceptSeq, Elements
  <2>4. Same
      BY <2>2, <2>3, Elements
  <2> QED BY <2>4, <1>s
<1>3. CASE Restart
  <2>1. clicks' = [k \in DOMAIN clicks |->
                      IF clicks[k].told = "running"
                      THEN [clicks[k] EXCEPT !.restarted = TRUE] ELSE clicks[k]]
      BY <1>3 DEF Restart
  <2>2. clicks' \in [1..Len(clicks) -> Clicks]
      BY <2>1, Elements, ClickTypes
  <2>3. Len(clicks') = Len(clicks)
      BY <2>2, Elements, SeqDef, LenProperties
  <2>4. \A k \in 1..Len(clicks) : clicks'[k].run = clicks[k].run
      BY <2>1, Elements, ClickTypes
  <2> QED BY <2>3, <2>4, <1>s
<1>4. CASE UNCHANGED clicks
    BY <1>4 DEF Apart
<1>5. \/ UNCHANGED clicks \/ Restart
      \/ \E verb \in Verbs, key \in Keys : Click(verb, key)
      \/ \E k \in DOMAIN clicks : Poll(k)
    BY CommandsAssumption DEF Next, Verbs, Type, Connect, ConnectFails, Answer,
       Cut, KeepaliveExpires, Interrupt, RunEnds, Mark, vars, ui
<1> QED BY <1>1, <1>2, <1>3, <1>4, <1>5

\* Processes, job store, ids, pages and restarts (jobStore and the page's
\* poller in uicmd.go) implement the board of buttons, beside any number of
\* laptops' commands, for any keys, clicks and restarts.
THEOREM CommandsIsABoard == Spec => ImplementsBoard
<1>1. Init => Abstract!Init
  <2>1. Init => Board = <<>>
      BY DEF Init, Board
  <2> QED BY <2>1 DEF Abstract!Init, Board
<1>2. Init => Apart
  <2>1. 1..Len(<<>>) = {}
      OBVIOUS
  <2> QED BY <2>1 DEF Init, Apart
<1>3. IInv /\ Apart /\ [Next]_vars => Apart'
    BY ApartKept
<1>4. IInv /\ Tracked /\ Apart /\ [Next]_vars =>
          [Abstract!Next]_[k \in DOMAIN clicks |-> Entry(clicks[k])]
    BY BoardStep DEF Board
<1> QED BY <1>1, <1>2, <1>3, <1>4, CommandsInvariant, CommandsTracked, PTL
        DEF Spec, ImplementsBoard, Abstract!Spec


=============================================================================
