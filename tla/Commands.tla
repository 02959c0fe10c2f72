------------------------------ MODULE Commands ------------------------------
(***************************************************************************)
(* How a command reaches the control plane: a laptop delegates it over ssh *)
(* (delegate, sshRetry) and the web UI runs it as a job (jobStore).  Both  *)
(* hand the plane a Command that the plane parses again (Grammar), and     *)
(* both start a process there that outlives whoever asked for it.          *)
(*                                                                         *)
(* What the command does on the plane is left to the other modules: here   *)
(* its process runs, ends well or ends badly.                              *)
(***************************************************************************)
EXTENDS Grammar, FiniteSets

CONSTANTS
    Lines,      \* what the user types after `daybox`: sequences of tokens
    Keys,       \* what the browser's profile field holds
    MaxTries,   \* sshMaxAttempts
    MaxRuns,    \* bound on processes started on the plane
    MaxEvents   \* bound on lines typed, clicks, cuts, interrupts and restarts

\* The field may be empty, and reap has none.
NoKey == ""

\* What a request of the browser can ask for.
Verbs == {"up", "down", "reap"}

ASSUME CommandsAssumption ==
    /\ NoKey \in Keys
    /\ MaxTries \in Nat \ {0}
    /\ MaxRuns \in Nat /\ MaxEvents \in Nat

\* What the lines are made of: tokens, each with a spelling and a text.
Typed == UNION {{a[i] : i \in DOMAIN a} : a \in Lines}

ASSUME TokensAssumption ==
    /\ \A a \in Lines : a \in Seq(Typed)
    /\ \A t \in Typed : t # Absent /\ t = [flag |-> t.flag, text |-> t.text]
    /\ NoText \notin Keys \cup Verbs

VARIABLES
    left,    \* events still to come
    line,    \* laptop: the arguments of the verb that runs, or <<>>
    conn,    \* laptop: its ssh: "none" | "dial" | "up" | "dead"
    tries,   \* laptop: attempts begun
    mine,    \* laptop: the process its connection started, or 0
    runs,    \* plane: the processes started so far
    jobs,    \* UI daemon: its job store
    clicks   \* browsers: what was clicked and what the poller was last told

laptop == <<line, conn, tries, mine>>
ui == <<jobs, clicks>>
vars == <<left, laptop, runs, ui>>

\* A process: who started it ("laptop" waits for its own, for an "orphan" it
\* has given up waiting), its command, and how it stands.
NoRun == [by |-> "nobody", cmd |-> NoCommand, st |-> "gone"]

Running(i) == runs[i].st = "running"

-----------------------------------------------------------------------------
(* The laptop.                                                             *)

Delegated == {"up", "ssh", "attach", "status", "net", "down", "reap",
              "setup", "profile"}

\* No verb has anything in it for a shell to split or expand.
ASSUME VerbsAssumption == Delegated \subseteq Bare

\* run answers these itself, before Parse.
Special(t) == \/ t \in {Word("version"), Word("help")}
              \/ t.flag \in {"-v", "--version", "-h", "--help"}

\* The flags before up's server type.
UpFlags(rest) ==
    {i \in 1..Len(rest) : \A j \in 1..i : IsFlag(rest[j])}

Detach(c) == \E i \in UpFlags(c.rest) : c.rest[i] = Flag("--detach")

\* The plane's process ends in an ssh into the box.
Interactive(c) == c.verb \in {"ssh", "attach"} \/ (c.verb = "up" /\ ~Detach(c))

\* The laptop checks the line before it goes anywhere.  The seed-authority
\* subverbs of profile are not among Subs: they never delegate.
Accepts(a) ==
    LET c == Parse(a).cmd IN
    /\ a # <<>> /\ ~Special(Head(a)) /\ Parse(a).ok /\ c.verb \in Delegated
    /\ c.verb = "up" => \A i \in UpFlags(c.rest) : c.rest[i] = Flag("--detach")
    /\ c.verb = "profile" => ~WantsProfileHelp(c.rest) /\ ProfileArgs(c).ok

Accepted == {a \in Lines : Accepts(a)}

Type(a) ==
    /\ line = <<>> /\ left > 0
    /\ left' = left - 1
    /\ line' = a /\ conn' = "dial" /\ tries' = 1 /\ mine' = 0
    /\ UNCHANGED <<runs, ui>>

\* The plane's shell and its Parse make a command of what delegate sent.
Arrives(c) == Parse(String(c)).cmd

Start(by, c) == Append(runs, [by |-> by, cmd |-> Arrives(c), st |-> "running"])

Connect ==
    /\ conn = "dial" /\ Len(runs) < MaxRuns
    /\ conn' = "up" /\ mine' = Len(runs) + 1
    /\ runs' = Start("laptop", Parse(line).cmd)
    /\ UNCHANGED <<left, line, tries, ui>>

\* The verb is over.  A process of it that still runs goes on, but nobody
\* looks at it any more.
Return ==
    /\ line' = <<>> /\ conn' = "none" /\ tries' = 0 /\ mine' = 0
    /\ runs' = [i \in DOMAIN runs |->
                   IF runs[i].by = "ui" THEN runs[i] ELSE NoRun]

\* Mutant: every failure at the transport is worth another attempt.
AgainForever ==
    /\ conn' = "dial" /\ mine' = 0 /\ UNCHANGED <<line, tries, runs>>

\* ssh exited 255: another attempt, while there is one left.
Again == IF tries < MaxTries
         THEN /\ conn' = "dial" /\ tries' = tries + 1 /\ mine' = 0
              /\ UNCHANGED line
              /\ runs' = [i \in DOMAIN runs |->
                             IF i # mine THEN runs[i]
                             ELSE IF Running(i)
                                  THEN [runs[i] EXCEPT !.by = "orphan"]
                                  ELSE NoRun]
         ELSE Return

ConnectFails ==
    /\ conn = "dial" /\ Again /\ UNCHANGED <<left, ui>>

\* The exit code of the remote command; of an interactive one, the code of
\* the plane's own ssh, 255 included.
Answer ==
    /\ conn = "up" /\ ~Running(mine)
    /\ IF runs[mine].st = "255" THEN Again ELSE Return
    /\ UNCHANGED <<left, ui>>

Cut ==
    /\ conn = "up" /\ left > 0
    /\ left' = left - 1 /\ conn' = "dead"
    /\ UNCHANGED <<line, tries, mine, runs, ui>>

\* Mutant: no keepalives.
NeverExpires == FALSE /\ Again /\ UNCHANGED <<left, ui>>

\* Three keepalives went unanswered.
KeepaliveExpires == conn = "dead" /\ Again /\ UNCHANGED <<left, ui>>

\* The user closes the terminal.
Interrupt ==
    /\ line # <<>> /\ left > 0
    /\ left' = left - 1 /\ Return /\ UNCHANGED ui

-----------------------------------------------------------------------------
(* The plane's processes.                                                  *)

RunEnds(i) ==
    /\ Running(i)
    /\ \E st \in {"ok", "fail"}
              \cup (IF Interactive(runs[i].cmd) THEN {"255"} ELSE {}) :
           runs' = [runs EXCEPT ![i] =
               IF @.by \in {"laptop", "ui"} THEN [@ EXCEPT !.st = st] ELSE NoRun]
    /\ UNCHANGED <<left, laptop, ui>>

-----------------------------------------------------------------------------
(* The web UI's daemon.                                                    *)

\* What buildJobCommand makes of a request: up never connects, and no
\* profile (reap never has one) means no -p.
Job(verb, key) ==
    Parse(<<Word(verb)>>
          \o (IF key = NoKey THEN <<>> ELSE <<Flag("-p"), Word(key)>>)
          \o (IF verb = "up" THEN <<Flag("--detach")>> ELSE <<>>)).cmd

\* Mutant: only the newest job is looked at.
ConflictNewest(verb, key) ==
    /\ jobs # <<>>
    /\ jobs[Len(jobs)].verb = verb /\ jobs[Len(jobs)].key = key
    /\ jobs[Len(jobs)].state = "running"

Conflict(verb, key) ==
    \E id \in DOMAIN jobs : /\ jobs[id].verb = verb /\ jobs[id].key = key
                            /\ jobs[id].state = "running"

\* A click that is not refused (the page's reap sends no profile): the job has its id, the process runs, and
\* the page polls for that id.
Click(verb, key) ==
    /\ left > 0 /\ Len(runs) < MaxRuns /\ ~Conflict(verb, key)
    /\ left' = left - 1
    /\ runs' = Start("ui", Job(verb, key))
    /\ jobs' = Append(jobs, [verb |-> verb, key |-> key, state |-> "running",
                             run |-> Len(runs) + 1])
    /\ clicks' = Append(clicks, [id |-> Len(jobs) + 1, run |-> Len(runs) + 1,
                                 told |-> "running", restarted |-> FALSE])
    /\ UNCHANGED laptop

\* Mutant: the error of exec is dropped.
ResultDone(i) == "done"

Result(i) == IF runs[i].st = "ok" THEN "done" ELSE "failed"

\* run's goroutine has its process's exit status.
Mark(id) ==
    /\ jobs[id].state = "running" /\ ~Running(jobs[id].run)
    /\ jobs' = [jobs EXCEPT ![id].state = Result(jobs[id].run)]
    /\ UNCHANGED <<left, laptop, runs, clicks>>

\* The page asks again until the job is over; an id the store does not know
\* ends its polling as well.
Poll(k) ==
    /\ clicks[k].told = "running"
    /\ clicks' = [clicks EXCEPT ![k].told =
           IF clicks[k].id \in DOMAIN jobs THEN jobs[clicks[k].id].state
           ELSE "unknown"]
    /\ UNCHANGED <<left, laptop, runs, jobs>>

\* systemd restarts the daemon: its children go with its control group, its
\* jobs with its memory, and ids start at 1 again.
Restart ==
    /\ left > 0
    /\ left' = left - 1
    /\ jobs' = <<>>
    /\ runs' = [i \in DOMAIN runs |->
                   IF runs[i].by = "ui" /\ Running(i)
                   THEN [runs[i] EXCEPT !.st = "gone"] ELSE runs[i]]
    /\ clicks' = [k \in DOMAIN clicks |->
                     IF clicks[k].told = "running"
                     THEN [clicks[k] EXCEPT !.restarted = TRUE] ELSE clicks[k]]
    /\ UNCHANGED laptop

-----------------------------------------------------------------------------
Init ==
    /\ left = MaxEvents
    /\ line = <<>> /\ conn = "none" /\ tries = 0 /\ mine = 0
    /\ runs = <<>> /\ jobs = <<>> /\ clicks = <<>>

Next ==
    \/ \E a \in Accepted : Type(a)
    \/ Connect \/ ConnectFails \/ Answer
    \/ Cut \/ KeepaliveExpires \/ Interrupt
    \/ \E i \in DOMAIN runs : RunEnds(i)
    \/ \E key \in Keys : Click("up", key) \/ Click("down", key)
    \/ Click("reap", NoKey)
    \/ \E id \in DOMAIN jobs : Mark(id)
    \/ \E k \in DOMAIN clicks : Poll(k)
    \/ Restart

\* ssh and sshRetry go on by themselves; nobody else has to do anything.
Spec == Init /\ [][Next]_vars
             /\ WF_vars(ConnectFails \/ Connect)
             /\ WF_vars(Answer)
             /\ WF_vars(KeepaliveExpires)

-----------------------------------------------------------------------------
(* Properties.                                                             *)

TypeOK ==
    /\ left \in 0..MaxEvents
    /\ line \in Accepted \cup {<<>>}
    /\ conn \in {"none", "dial", "up", "dead"}
    /\ (conn = "none") = (line = <<>>)
    /\ tries \in 0..MaxTries
    /\ mine \in 0..Len(runs)
    /\ (mine = 0) = (conn \in {"none", "dial"})
    /\ Len(runs) <= MaxRuns
    /\ \A i \in DOMAIN runs :
           /\ runs[i].by \in {"laptop", "ui", "orphan", "nobody"}
           /\ runs[i].st \in {"running", "ok", "fail", "255", "gone"}
           /\ runs[i].by = "laptop" <=> i = mine
    /\ \A id \in DOMAIN jobs :
           /\ jobs[id].verb \in Verbs /\ jobs[id].key \in Keys
           /\ jobs[id].state \in {"running", "done", "failed"}
           /\ jobs[id].run \in DOMAIN runs
    /\ \A k \in DOMAIN clicks :
           clicks[k].told \in {"running", "done", "failed", "unknown"}

\* "The plane re-parses exactly what the laptop intended" (control.go:161),
\* wherever -p sits: a process runs the command the user's arguments parse
\* to, and a job the one its request was made into.
PlaneAgrees ==
    /\ conn = "up" => runs[mine].cmd = Parse(line).cmd
    /\ \A id \in DOMAIN jobs :
           runs[jobs[id].run].cmd = Job(jobs[id].verb, jobs[id].key)

\* The words of a profile subverb that could be the profile it acts on, or
\* an operand of it.
Candidates(c) ==
    {c.rest[i].text : i \in {j \in 2..Len(c.rest) : ~IsFlag(c.rest[j])}}

\* A subverb that changes or destroys a profile acts on one the user named, and
\* leaves no word of the parsed command without a meaning: rm and use have one
\* candidate, rename two and add at most a type besides.  The -p counted is the
\* one Parse kept, the last of the line: OneTarget is about the others.
NamedOnce ==
    conn = "up" /\ runs[mine].cmd.verb = "profile" =>
        LET c == runs[mine].cmd
            pc == ProfileArgs(c)
            words == Cardinality({j \in 2..Len(c.rest) : ~IsFlag(c.rest[j])})
                     + (IF c.global = Absent THEN 0 ELSE 1)
        IN /\ pc.ok
           /\ pc.sub \in {"rm", "use", "rename", "add"} =>
                  /\ pc.name.text \in Names
                  /\ pc.name.text \in Candidates(c) \cup {c.global.text}
           /\ pc.sub \in {"rm", "use"} => words = 1
           /\ pc.sub = "rename" => words = 2
           /\ pc.sub = "add" => words \in 1..2

\* "A destructive verb ... with two candidate targets is a usage error"
\* (control.go:351-352): the -p of a line that changes or destroys a profile
\* all hold the same value.
OneTarget ==
    conn = "up" /\ runs[mine].cmd.verb = "profile"
    /\ ProfileArgs(runs[mine].cmd).sub \in {"rm", "use", "rename", "add"} =>
        \A i, j \in {k \in DOMAIN line : IsGlobal(line[k])} :
            Value(line, i) = Value(line, j)

\* A stray double click cannot summon or reap twice (uicmd.go:144-145): no
\* command runs twice at a time for the UI, across restarts of its daemon.
OnePerKey ==
    \A i, j \in DOMAIN runs :
        /\ runs[i].by = "ui" /\ runs[j].by = "ui"
        /\ Running(i) /\ Running(j) /\ runs[i].cmd = runs[j].cmd
        => i = j

\* What the page says of a click is what became of its process, unless the
\* daemon restarted in between: "done" after it succeeded, "failed" after it
\* did not.
PollIsTrue ==
    \A k \in DOMAIN clicks :
        ~clicks[k].restarted =>
            /\ clicks[k].told = "done" => runs[clicks[k].run].st = "ok"
            /\ clicks[k].told = "failed" => runs[clicks[k].run].st \notin {"ok", "running"}

\* A delegated verb comes back, whatever the network does, unless its own
\* process on the plane goes on: a dead connection never hangs it.
LaptopReturns ==
    []<>(line = <<>> \/ (conn = "up" /\ Running(mine)))

\* "A 255 means the connection never came up, so no prior shell exists to
\* duplicate" (control.go:165): no attempt starts the command while one that
\* an earlier attempt started still runs.
NoPriorShell ==
    \A i \in DOMAIN runs :
        runs[i].by = "orphan" /\ Running(i) => conn # "up"

-----------------------------------------------------------------------------
(* What it implements.                                                     *)

\* The commands of the buttons.
Buttons == {Job(verb, key) : verb \in {"up", "down"}, key \in Keys}
           \cup {Job("reap", NoKey)}

\* How a process stands, for whoever clicked.
Outcome(st) == CASE st = "running" -> "running"
                 [] st = "ok" -> "done"
                 [] OTHER -> "failed"

Entry(c) == [cmd |-> runs[c.run].cmd, st |-> Outcome(runs[c.run].st),
             told |-> c.told, lost |-> c.restarted]

Abstract == INSTANCE JobBoard WITH
    Cmds <- Buttons,
    board <- [k \in DOMAIN clicks |-> Entry(clicks[k])]

\* Processes, job store, ids and restarts together are a JobBoard: no step of
\* a laptop or of the daemon starts a button's command twice, settles a click
\* twice, or tells a page what did not become of its own click.
ImplementsBoard == Abstract!Spec

=============================================================================
