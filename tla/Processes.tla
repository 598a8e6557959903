------------------------------ MODULE Processes ------------------------------
(***************************************************************************)
(* Sleeping processes: sleep, tsleep, wakeup, setrun and unsleep           *)
(* (sys/slp.c), signals (psignal, issig, stop, psig in sys/sig.c, ssig in  *)
(* sys/sys4.c), exit, wait and fork (sys/sys1.c), and the seconds of       *)
(* tsleep, which the clock counts (softclock in sys/clock.c).              *)
(*                                                                         *)
(* A process in the kernel is interrupted only at spl0: an action is what  *)
(* runs until the processor is given up, or until an interrupt could make  *)
(* a difference.  cpu is the process that is at such a point.              *)
(***************************************************************************)
EXTENDS Naturals, FiniteSets

CONSTANTS
  Proc, InitProc,  \* slots of the process table; proc[1], the parent of orphans
  NoProc, NoChan,
  Devices,         \* channels a process sleeps on at low priority numbers,
                   \* and that an interrupt wakes up sooner or later
  Terminals,       \* channels of interruptible sleeps, perhaps never awakened
  Signals,         \* the signals an instance uses,
  Sent,            \* those that somebody sends,
  TtySignals,      \* and those of them that an interrupt sends
  Targets,         \* the processes that are sent signals,
  Resets,          \* the actions signal() is called with, <<process, signal, action>>
  Parent0, Act0,   \* the first processes, and what they do with signals
  Calls,           \* the system calls each process makes
  MaxSecs,         \* the longest tsleep
  MaxPosts, MaxForks   \* how many signals are sent, how often there is a fork

Chan == Devices \cup Terminals
SIGHUP == 1
SIGKILL == 9
SIGSTOP == 17
SIGTSTP == 18
SIGCONT == 19
SIGCHLD == 20
SIGTTIN == 21
SIGTTOU == 22
SIGTINT == 23
Stops == {SIGSTOP, SIGTSTP, SIGTTIN, SIGTTOU}
Quiet == {SIGTINT, SIGCHLD}            \* forgotten when the action is SIG_DFL,
Ignorable == Quiet \cup {SIGCONT}      \* and those issig skips then
Kept == {4, 5}                         \* SIGILL, SIGTRAP: a caught one stays caught
Actions == {"DFL", "IGN", "CATCH", "HOLD"}
NoSig == 0
Never == MaxSecs + 1

ASSUME ProcAssumption ==
  /\ InitProc \in Proc /\ NoProc \notin Proc /\ NoChan \notin Chan \cup Proc
  /\ Chan \cap Proc = {} /\ Devices \cap Terminals = {}
  /\ Signals \subseteq 1..31 /\ Sent \subseteq Signals /\ TtySignals \subseteq Sent
  /\ {SIGHUP, SIGKILL, SIGCONT, SIGCHLD} \subseteq Signals
  /\ Targets \subseteq Proc \ {InitProc}
  /\ Resets \subseteq Proc \X (Signals \ {SIGKILL, SIGSTOP}) \X Actions
  /\ Parent0 \in [Proc -> Proc \cup {NoProc}]
  /\ Parent0[InitProc] = NoProc /\ \E p \in Proc : Parent0[p] = InitProc
  /\ Act0 \in [Proc -> [Signals -> Actions]]
  /\ \A p \in Proc : /\ Act0[p][SIGKILL] = "DFL"
                     /\ SIGSTOP \in Signals => Act0[p][SIGSTOP] = "DFL"
  /\ Calls \in [Proc -> SUBSET {"tsleep", "wait", "fork", "exit"}]
  /\ MaxSecs \in Nat /\ MaxPosts \in Nat /\ MaxForks \in Nat

VARIABLES
  proc,    \* the process table
  pc,      \* where each process is
  call,    \* the call it sleeps in
  res,     \* the value of its last tsleep
  cpu,     \* the process in the kernel, at a point where interrupts come in
  due,     \* ghost: seconds of its tsleep that have not passed
  posts, forks

vars == <<proc, pc, call, res, cpu, due, posts, forks>>
bounds == <<posts, forks>>

Stat == {"NULL", "SIDL", "SRUN", "SSLEEP", "SSTOP", "SZOMB"}

-----------------------------------------------------------------------------
(* The process table.  An operator on an entry e changes that entry only.  *)

Unsleep(e) == [e EXCEPT !.wchan = NoChan]
Setrun(e) == [Unsleep(e) EXCEPT !.stat = "SRUN"]

\* u_signal.  act is p_siga, which does not follow when psig resets u_signal
\* of a caught signal: p_siga still says that it is caught.
Usignal(e, s) == IF s \in e.reset THEN "DFL" ELSE e.act[s]

\* wakeup(c) also takes the stopped processes off the queue.
Wakeup(t, c) ==
  [q \in Proc |->
     IF t[q].wchan # c THEN t[q]
     ELSE IF t[q].stat = "SSLEEP" THEN Setrun(t[q]) ELSE Unsleep(t[q])]

\* psignal, up to the switch on p_stat.
Noted(e, s) ==
  [e EXCEPT !.sig = (@ \cup {s}) \ (CASE s = SIGCONT -> Stops
                                      [] s \in Stops -> {SIGCONT}
                                      [] OTHER -> {})]
Refused(e, s) == [e EXCEPT !.sig = @ \ {s}]
Deferred(e, s) == e.act[s] = "HOLD" \/ e.stat \notin {"SSLEEP", "SSTOP"}

\* psignal to a process that sleeps or is stopped; a sleeper that the signal
\* stops is left to Psignal.
PostAsleep(e, s) ==
  CASE ~e.hi -> Noted(e, s)
    [] e.hi /\ s \in Stops /\ e.act[s] = "DFL" ->
         Setrun(Refused(Noted(Noted(e, s), SIGKILL), s))   \* a child of init
    [] e.hi /\ s \in Quiet /\ e.act[s] = "DFL" -> Refused(Noted(e, s), s)
    [] OTHER -> Setrun(Noted(e, s))
\* Mutant: a stopped process is left stopped by SIGKILL.
PostStoppedDeaf(e, s) ==
  CASE s = SIGCONT /\ (e.act[s] # "DFL" \/ e.wchan = NoChan) -> Setrun(Noted(e, s))
    [] s = SIGCONT /\ e.act[s] = "DFL" /\ e.wchan # NoChan ->
         [Noted(e, s) EXCEPT !.stat = "SSLEEP"]
    [] s \in Stops -> Refused(Noted(e, s), s)
    [] OTHER -> IF e.hi THEN Unsleep(Noted(e, s)) ELSE Noted(e, s)
PostStopped(e, s) ==
  CASE s = SIGKILL -> Setrun(Noted(e, s))
    [] s = SIGCONT /\ (e.act[s] # "DFL" \/ e.wchan = NoChan) -> Setrun(Noted(e, s))
    [] s = SIGCONT /\ e.act[s] = "DFL" /\ e.wchan # NoChan ->
         [Noted(e, s) EXCEPT !.stat = "SSLEEP"]
    [] s \in Stops -> Refused(Noted(e, s), s)
    [] OTHER -> IF e.hi THEN Unsleep(Noted(e, s)) ELSE Noted(e, s)

Post(e, s) ==
  CASE e.act[s] = "IGN" -> e
    [] e.act[s] # "IGN" /\ Deferred(e, s) -> Noted(e, s)
    [] OTHER -> IF e.stat = "SSLEEP" THEN PostAsleep(e, s) ELSE PostStopped(e, s)

\* Mutant: stop sends the signal without the wakeup.
StopUnheard(t, p) ==
  LET w == [t EXCEPT ![p].stat = "SSTOP", ![p].wted = FALSE]
  IN [q \in Proc |-> IF q = t[p].pptr THEN Post(w[q], SIGCHLD) ELSE w[q]]
\* stop(p): the parent is awakened and sent SIGCHLD.
Stop(t, p) ==
  LET w == Wakeup([t EXCEPT ![p].stat = "SSTOP", ![p].wted = FALSE], t[p].pptr)
  IN [q \in Proc |-> IF q = t[p].pptr THEN Post(w[q], SIGCHLD) ELSE w[q]]

StopsSleeper(e, s) ==
  /\ e.stat = "SSLEEP" /\ e.hi /\ s \in Stops /\ e.act[s] = "DFL"
  /\ s = SIGSTOP \/ e.pptr # InitProc
Psignal(t, p, s) ==
  IF StopsSleeper(t[p], s)
    THEN Stop([t EXCEPT ![p] = [Refused(Noted(@, s), s) EXCEPT !.cursig = s]], p)
    ELSE [t EXCEPT ![p] = Post(@, s)]

-----------------------------------------------------------------------------
(* issig, with ISSIG's test around it.  Of the signals that are not held    *)
(* or ignored it takes SIGKILL first, else the smallest number.             *)

Pending(e) == {s \in e.sig : e.act[s] \notin {"IGN", "HOLD"}}
\* Mutant: issig does not skip the signals that are ignored by default.
EffectiveAll(e) == Pending(e)
Effective(e) == {s \in Pending(e) : ~(s \in Ignorable /\ Usignal(e, s) = "DFL")}
Taken(e) == IF SIGKILL \in e.sig THEN SIGKILL
            ELSE CHOOSE s \in Effective(e) : \A r \in Effective(e) : s <= r
Left(e) == e.sig \ (IF SIGKILL \in e.sig THEN {SIGKILL}
                    ELSE {s \in Pending(e) : s <= Taken(e)})
StopSignal(e) == Taken(e) \in Stops /\ Usignal(e, Taken(e)) = "DFL"
Orphaned(e) == e.pptr = InitProc /\ Taken(e) # SIGSTOP

\* What issig does: nothing, the process stops, or there is a signal for psig.
Issig(e) == CASE Effective(e) = {} -> "none"
              [] Effective(e) # {} /\ StopSignal(e) /\ ~Orphaned(e) -> "stop"
              [] OTHER -> "send"

Looked(t, p) ==
  LET e == t[p]
      took == [e EXCEPT !.sig = Left(e), !.cursig = Taken(e)]
  IN CASE Issig(e) = "none" ->
            IF Pending(e) = {} THEN t
            ELSE [t EXCEPT ![p].sig = @ \ Pending(e), ![p].cursig = NoSig]
       [] Issig(e) = "stop" -> Stop([t EXCEPT ![p] = took], p)
       [] OTHER -> [t EXCEPT ![p] = IF StopSignal(e)
                                      THEN [took EXCEPT !.cursig = SIGKILL]
                                      ELSE took]

-----------------------------------------------------------------------------
TypeOK ==
  /\ proc \in [Proc -> [stat: Stat, wchan: Chan \cup Proc \cup {NoChan},
                        hi: BOOLEAN, sig: SUBSET Signals,
                        cursig: Signals \cup {NoSig}, wted: BOOLEAN,
                        stimo: BOOLEAN, tsl: 0..MaxSecs,
                        pptr: Proc \cup {NoProc}, act: [Signals -> Actions],
                        reset: SUBSET Signals]]
  /\ pc \in [Proc -> {"user", "trap", "scan", "wsleep", "sleep", "stop1",
                      "stop2", "stopt", "fork", "exit", "exiting", "gone"}]
  /\ call \in [Proc -> {"none", "tsleep", "wait", "exit"}]
  /\ res \in [Proc -> {"none", "TS_OK", "TS_TIME", "TS_SIG"}]
  /\ cpu \in Proc \cup {NoProc}
  /\ due \in [Proc -> 0..Never]
  /\ posts \in 0..MaxPosts /\ forks \in 0..MaxForks

\* init waits for its children, the other processes run.
Init ==
  /\ proc = [p \in Proc |->
       [stat |-> CASE p = InitProc -> "SSLEEP"
                   [] p # InitProc /\ Parent0[p] # NoProc -> "SRUN"
                   [] OTHER -> "NULL",
        wchan |-> IF p = InitProc THEN p ELSE NoChan, hi |-> p = InitProc,
        sig |-> {}, cursig |-> NoSig, wted |-> FALSE, stimo |-> FALSE, tsl |-> 0,
        pptr |-> Parent0[p], act |-> Act0[p], reset |-> {}]]
  /\ pc = [p \in Proc |-> CASE p = InitProc -> "sleep"
                            [] p # InitProc /\ Parent0[p] # NoProc -> "user"
                            [] OTHER -> "gone"]
  /\ call = [p \in Proc |-> IF p = InitProc THEN "wait" ELSE "none"]
  /\ res = [p \in Proc |-> "none"]
  /\ cpu = NoProc
  /\ due = [p \in Proc |-> Never]
  /\ posts = 0 /\ forks = 0

Runs(p) == cpu = NoProc /\ proc[p].stat = "SRUN"

\* Mutant: STIMO survives the tsleep it was set for.
EndTsleepTimed(t, p, k) ==
  IF k = "tsleep" THEN [t EXCEPT ![p].tsl = 0] ELSE t
\* The end of tsleep.
EndTsleep(t, p, k) ==
  IF k = "tsleep" THEN [t EXCEPT ![p].tsl = 0, ![p].stimo = FALSE] ELSE t
Result(p, k, r) ==
  IF k = "tsleep"
    THEN res' = [res EXCEPT ![p] = r] /\ due' = [due EXCEPT ![p] = Never]
    ELSE UNCHANGED <<res, due>>

\* Call k goes on when its sleep returns.  longjmp ends the call: tsleep
\* catches it, wait and plain sleep go back to the trap.
Returns(t, p, k) ==
  /\ proc' = EndTsleep(t, p, k)
  /\ pc' = [pc EXCEPT ![p] = CASE k = "wait" -> "scan"
                               [] k = "exit" -> "exiting"
                               [] OTHER -> "trap"]
  /\ call' = [call EXCEPT ![p] = "none"]
  /\ Result(p, k, IF t[p].stimo THEN "TS_TIME" ELSE "TS_OK")
\* Mutant: a process that a signal interrupts stays on the sleep queue.
InterruptedQueued(t, p, k) ==
  /\ proc' = EndTsleep(t, p, k)
  /\ pc' = [pc EXCEPT ![p] = "trap"] /\ call' = [call EXCEPT ![p] = "none"]
  /\ Result(p, k, "TS_SIG")
Interrupted(t, p, k) ==
  /\ proc' = [EndTsleep(t, p, k) EXCEPT ![p] = Unsleep(@)]
  /\ pc' = [pc EXCEPT ![p] = "trap"] /\ call' = [call EXCEPT ![p] = "none"]
  /\ Result(p, k, "TS_SIG")
Stays(t, p, l, k) ==
  /\ proc' = t /\ pc' = [pc EXCEPT ![p] = l] /\ call' = [call EXCEPT ![p] = k]
  /\ UNCHANGED res

\* Mutant: sleep does not look at the signals before it gives up the processor.
SleepBlind(t, p, c, hi, k) ==
  Stays([t EXCEPT ![p].wchan = c, ![p].hi = hi, ![p].stat = "SSLEEP"], p, "sleep", k)
\* sleep(c, pri) in table t, up to swtch: a process that may be interrupted
\* is on the queue when it looks at its signals.
Sleep(t, p, c, hi, k) ==
  LET q == [t EXCEPT ![p].wchan = c, ![p].hi = hi]
  IN CASE ~hi -> Stays([q EXCEPT ![p].stat = "SSLEEP"], p, "sleep", k)
       [] hi /\ Issig(q[p]) = "none" ->
            Stays([Looked(q, p) EXCEPT ![p].stat = "SSLEEP"], p, "sleep", k)
       [] hi /\ Issig(q[p]) = "stop" -> Stays(Looked(q, p), p, "stop1", k)
       [] OTHER -> Interrupted(Looked(q, p), p, k)

Tsleep(p, c, s) ==
  /\ Runs(p) /\ pc[p] = "user" /\ "tsleep" \in Calls[p]
  /\ Sleep([proc EXCEPT ![p].tsl = s], p, c, c \in Terminals, "tsleep")
  /\ call'[p] # "none" => due' = [due EXCEPT ![p] = IF s = 0 THEN Never ELSE s]
  /\ UNCHANGED <<cpu, bounds>>

\* The start of exit: all signals are ignored.
Deaf(e) == [e EXCEPT !.act = [s \in Signals |-> "IGN"], !.reset = {}]

\* psig, for the signal in p_cursig; the default is exit.
Psig(t, p) ==
  /\ IF Usignal(t[p], t[p].cursig) = "CATCH"
       THEN /\ proc' = [t EXCEPT ![p].cursig = NoSig,
                                 ![p].reset = @ \cup ({t[p].cursig} \ Kept)]
            /\ pc' = [pc EXCEPT ![p] = "user"]
       ELSE /\ proc' = [t EXCEPT ![p] = Deaf(@)]
            /\ pc' = [pc EXCEPT ![p] = "exit"]
  /\ UNCHANGED <<call, res>>

\* After swtch the process looks again; issig goes on where it stopped.
Resume(p) ==
  /\ Runs(p) /\ pc[p] \in {"sleep", "stop1", "stop2"}
  /\ LET in == IF pc[p] = "sleep" \/ Pending(proc[p]) # {} THEN proc
               ELSE [proc EXCEPT ![p].cursig = NoSig]
     IN CASE ~proc[p].hi -> Returns(proc, p, call[p])
          [] proc[p].hi /\ Issig(proc[p]) = "none" -> Returns(Looked(in, p), p, call[p])
          [] proc[p].hi /\ Issig(proc[p]) = "stop" ->
               /\ Stays(Looked(in, p), p, IF pc[p] = "sleep" THEN "stop2" ELSE pc[p],
                        call[p])
               /\ UNCHANGED due
          [] OTHER -> Interrupted(Looked(in, p), p, call[p])
  /\ UNCHANGED <<cpu, bounds>>

\* The end of syscall and trap: if (p_cursig || ISSIG(p)) psig().
Trap(p) ==
  /\ Runs(p)
  /\ \/ pc[p] \in {"trap", "stopt"}
     \/ pc[p] = "user" /\ Pending(proc[p]) # {}
  /\ LET in == IF pc[p] = "stopt" THEN [proc EXCEPT ![p].cursig = NoSig] ELSE proc
     IN CASE in[p].cursig # NoSig -> Psig(in, p)
          [] in[p].cursig = NoSig /\ Issig(in[p]) = "none" ->
               Stays(Looked(in, p), p, "user", "none")
          [] in[p].cursig = NoSig /\ Issig(in[p]) = "stop" ->
               Stays(Looked(in, p), p, "stopt", "none")
          [] OTHER -> Psig(Looked(in, p), p)
  /\ UNCHANGED <<cpu, due, bounds>>

\* signal(s, f)
Ssig(p, s, f) ==
  /\ Runs(p) /\ pc[p] = "user" /\ Usignal(proc[p], s) # f
  /\ LET t == proc[p]
     IN proc' = [proc EXCEPT ![p] =
          [t EXCEPT !.sig = IF Usignal(t, s) = "IGN" THEN t.sig \ {s} ELSE t.sig,
                    !.act = [t.act EXCEPT ![s] = f], !.reset = t.reset \ {s}]]
  /\ pc' = [pc EXCEPT ![p] = "trap"]
  /\ UNCHANGED <<call, res, cpu, due, bounds>>

-----------------------------------------------------------------------------
(* exit, wait and fork *)

Exit(p) ==
  /\ Runs(p) /\ pc[p] = "user" /\ "exit" \in Calls[p]
  /\ proc' = [proc EXCEPT ![p] = Deaf(@)]
  /\ pc' = [pc EXCEPT ![p] = "exit"]
  /\ UNCHANGED <<call, res, cpu, due, bounds>>

\* closef and the rest of exit may sleep.
ExitSleep(p, c) ==
  /\ Runs(p) /\ pc[p] = "exit"
  /\ Sleep(proc, p, c, FALSE, "exit")
  /\ UNCHANGED <<cpu, due, bounds>>

\* A child of a process that exits goes to init; one that is stopped is
\* hung up and continued, and no keyboard stop stays pending.
Orphan(e) ==
  LET o == [e EXCEPT !.pptr = InitProc]
  IN [IF o.stat = "SSTOP" THEN Post(Post(o, SIGHUP), SIGCONT) ELSE o
        EXCEPT !.sig = @ \ {SIGTSTP, SIGTTIN, SIGTTOU}]

Disowned(p) ==
  LET Child(q) == q # p /\ proc[q].pptr = p
      t == [q \in Proc |-> CASE q = p -> [proc[p] EXCEPT !.stat = "SZOMB"]
                             [] Child(q) -> Orphan(proc[q])
                             [] OTHER -> proc[q]]
  IN IF \E q \in Proc : Child(q) THEN Wakeup(t, InitProc) ELSE t
ExitDone(p) ==
  /\ Runs(p) /\ pc[p] \in {"exit", "exiting"}
  /\ LET w == Wakeup(Disowned(p), proc[p].pptr)
     IN proc' = [q \in Proc |-> IF q = proc[p].pptr THEN Post(w[q], SIGCHLD) ELSE w[q]]
  /\ pc' = [pc EXCEPT ![p] = "gone"]
  /\ UNCHANGED <<call, res, cpu, due, bounds>>

\* wait1: a zombie, a child that stopped, no child at all, or sleep.
Wait(p) ==
  /\ Runs(p)
  /\ \/ pc[p] = "scan"
     \/ pc[p] = "user" /\ "wait" \in Calls[p]
Child(p, q) == proc[q].pptr = p
Zombie(p, q) == Child(p, q) /\ proc[q].stat = "SZOMB"
NewlyStopped(p, q) == Child(p, q) /\ proc[q].stat = "SSTOP" /\ ~proc[q].wted

WaitZombie(p, q) ==
  /\ Wait(p) /\ Zombie(p, q)
  /\ proc' = [proc EXCEPT ![q] =
       [@ EXCEPT !.stat = "NULL", !.pptr = NoProc, !.sig = {}, !.cursig = NoSig,
                 !.act = [s \in Signals |-> "DFL"], !.reset = {}, !.wted = FALSE, !.stimo = FALSE,
                 !.wchan = NoChan]]
  /\ pc' = [pc EXCEPT ![p] = "trap"]
  /\ UNCHANGED <<call, res, cpu, due, bounds>>
WaitStopped(p, q) ==
  /\ Wait(p) /\ NewlyStopped(p, q)
  /\ proc' = [proc EXCEPT ![q].wted = TRUE]
  /\ pc' = [pc EXCEPT ![p] = "trap"]
  /\ UNCHANGED <<call, res, cpu, due, bounds>>
WaitNoChild(p) ==
  /\ Wait(p) /\ \A q \in Proc : ~Child(p, q)
  /\ pc' = [pc EXCEPT ![p] = "trap"]
  /\ UNCHANGED <<proc, call, res, cpu, due, bounds>>
WaitNothing(p) ==
  /\ Wait(p) /\ \E q \in Proc : Child(p, q)
  /\ \A q \in Proc : ~Zombie(p, q) /\ ~NewlyStopped(p, q)
  /\ pc' = [pc EXCEPT ![p] = "wsleep"] /\ cpu' = p
  /\ UNCHANGED <<proc, call, res, due, bounds>>
WaitSleep(p) ==
  /\ cpu = p /\ pc[p] = "wsleep"
  /\ Sleep(proc, p, p, TRUE, "wait") /\ cpu' = NoProc
  /\ UNCHANGED <<due, bounds>>

Fork(p, q) ==
  /\ Runs(p) /\ pc[p] = "user" /\ "fork" \in Calls[p] /\ forks < MaxForks
  /\ proc[q].stat = "NULL"
  /\ proc' = [proc EXCEPT ![q] =
       [@ EXCEPT !.stat = "SIDL", !.pptr = p, !.act = proc[p].act, !.reset = proc[p].reset,
                 !.wted = FALSE, !.stimo = FALSE, !.wchan = NoChan]]
  /\ pc' = [pc EXCEPT ![p] = "fork"] /\ forks' = forks + 1
  /\ UNCHANGED <<call, res, cpu, due, posts>>
ForkDone(p) ==
  /\ Runs(p) /\ pc[p] = "fork"
  /\ LET new == {q \in Proc : Child(p, q) /\ proc[q].stat = "SIDL"}
     IN /\ proc' = [q \in Proc |-> IF q \in new THEN Setrun(proc[q]) ELSE proc[q]]
        /\ pc' = [q \in Proc |-> IF q \in new THEN "user"
                                 ELSE IF q = p THEN "trap" ELSE pc[q]]
  /\ UNCHANGED <<call, res, cpu, due, bounds>>

-----------------------------------------------------------------------------
(* Interrupts, and kill by any process *)

Kill(p, s) ==
  /\ s \in TtySignals \/ cpu = NoProc
  /\ posts < MaxPosts /\ posts' = posts + 1
  /\ proc[p].stat \notin {"NULL", "SZOMB"}
  /\ proc' = Psignal(proc, p, s)
  /\ UNCHANGED <<pc, call, res, cpu, due, forks>>

WakeChan(c) ==
  /\ \E p \in Proc : proc[p].wchan = c
  /\ proc' = Wakeup(proc, c)
  /\ UNCHANGED <<pc, call, res, cpu, due, bounds>>

\* Mutant: the timeout is noted, the process not awakened.
TimeinNoted(e) ==
  CASE e.tsl = 0 -> e
    [] e.tsl > 1 -> [e EXCEPT !.tsl = @ - 1]
    [] OTHER -> [e EXCEPT !.tsl = 0, !.stimo = TRUE]
\* Once a second, for every process: p_tsleep.
Timein(e) ==
  CASE e.tsl = 0 -> e
    [] e.tsl > 1 -> [e EXCEPT !.tsl = @ - 1]
    [] OTHER -> LET x == [e EXCEPT !.tsl = 0, !.stimo = TRUE]
                IN CASE e.stat = "SSLEEP" -> Setrun(x)
                     [] e.stat = "SSTOP" -> Unsleep(x)
                     [] OTHER -> x
Tick ==
  /\ \E p \in Proc : proc[p].tsl > 0
  /\ proc' = [p \in Proc |-> IF proc[p].stat \in {"NULL", "SZOMB"} THEN proc[p]
                             ELSE Timein(proc[p])]
  /\ due' = [p \in Proc |-> IF due[p] \in 1..MaxSecs THEN due[p] - 1 ELSE due[p]]
  /\ UNCHANGED <<pc, call, res, cpu, bounds>>

-----------------------------------------------------------------------------
\* What a process in the kernel does next, and the calls that begin.
Continue(p) ==
  \/ Resume(p) \/ Trap(p) \/ ExitDone(p) \/ WaitSleep(p) \/ ForkDone(p)
  \/ pc[p] = "scan" /\ (\/ WaitNoChild(p) \/ WaitNothing(p)
                        \/ \E q \in Proc : WaitZombie(p, q) \/ WaitStopped(p, q))
Enter(p) ==
  \/ \E c \in Chan, s \in 0..MaxSecs : Tsleep(p, c, s)
  \/ Exit(p) \/ \E c \in Devices : ExitSleep(p, c)
  \/ WaitNoChild(p) \/ WaitNothing(p)
  \/ \E q \in Proc : WaitZombie(p, q) \/ WaitStopped(p, q) \/ Fork(p, q)
  \/ \E r \in Resets : r[1] = p /\ Ssig(p, r[2], r[3])
Next ==
  \/ \E p \in Proc : Continue(p) \/ Enter(p)
  \/ \E p \in Targets, s \in Sent : Kill(p, s)
  \/ \E c \in Chan : WakeChan(c)
  \/ Tick

Spec == Init /\ [][Next]_vars
\* The scheduler runs every ready process again and again, the clock ticks,
\* and devices complete what they were asked for.
FairSpec ==
  /\ Spec /\ WF_vars(Tick)
  /\ \A p \in Proc : SF_vars(Continue(p))
  /\ \A c \in Devices : WF_vars(WakeChan(c))

-----------------------------------------------------------------------------
(* Properties *)

\* A process is on a sleep queue only while it sleeps or is stopped, and a
\* sleeping process is on one: otherwise wakeup and swtch panic, or nobody
\* can ever wake it up (slp.c:151, the firewall of swtch in locore.s:723).
QueueOK ==
  TypeOK /\ \A p \in Proc :
    /\ proc[p].wchan # NoChan => proc[p].stat \in {"SSLEEP", "SSTOP"}
    /\ proc[p].stat = "SSLEEP" => proc[p].wchan # NoChan
    /\ proc[p].stat \in {"NULL", "SIDL", "SZOMB"} => proc[p].tsl = 0 /\ ~proc[p].stimo

\* "if pri>PZERO signals will be processed" (slp.c:28): no process sleeps
\* interruptibly with a signal that is caught or kills it.
SignalsWake ==
  \A p \in Proc :
    proc[p].stat = "SSLEEP" /\ proc[p].hi =>
      {s \in Effective(proc[p]) : s \notin Stops \/ Usignal(proc[p], s) = "CATCH"} = {}

\* A parent that sleeps in wait has no zombie and no stopped child it was not
\* told of: the scan and the sleep are not one step (sys1.c:748, 785), so that
\* exit and stop must find the parent (sys1.c:701, sig.c:409).
WaitNotices ==
  \A p, q \in Proc :
    proc[p].stat = "SSLEEP" /\ call[p] = "wait" => ~Zombie(p, q) /\ ~NewlyStopped(p, q)

\* What tsleep returns (slp.c:84): TS_TIME only when the seconds have passed,
\* although STIMO and p_tsleep survive the wakeup, stops and other sleeps.
ResultTrue ==
  [][\A p \in Proc :
       res'[p] # res[p] =>
         /\ res'[p] = "TS_TIME" => due[p] = 0
         /\ res'[p] = "TS_SIG" => proc'[p].cursig # NoSig]_vars

\* A process dies of a signal only when the signal's action is to kill: a stop
\* signal that stays in p_cursig after the process was continued must not
\* reach psig (sig.c:177, trap.c:105).
KilledByFatal ==
  [][\A p \in Proc :
       pc[p] # "exit" /\ pc'[p] = "exit" =>
         proc'[p].cursig \notin Stops \cup Ignorable]_vars

\* tsleep with seconds returns, or the process is stopped (slp.c:81).
TimeoutReturns ==
  \A p \in Proc :
    (pc[p] = "sleep" /\ call[p] = "tsleep" /\ proc[p].tsl > 0)
      ~> (pc[p] # "sleep" \/ proc[p].stat = "SSTOP")

\* SIGKILL kills, whatever the process does, also when it is stopped or stops.
KillKills ==
  \A p \in Targets :
    (SIGKILL \in proc[p].sig /\ proc[p].act[SIGKILL] = "DFL")
      ~> proc[p].stat \in {"SZOMB", "NULL"}
=============================================================================
