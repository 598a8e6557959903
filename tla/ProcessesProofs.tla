--------------------------- MODULE ProcessesProofs ---------------------------
(***************************************************************************)
(* Proofs about Processes.                                                 *)
(***************************************************************************)
EXTENDS Processes, TLAPS, WellFoundedInduction

\* An entry of the process table.
Entry == [stat: Stat, wchan: Chan \cup Proc \cup {NoChan},
          hi: BOOLEAN, sig: SUBSET Signals,
          cursig: Signals \cup {NoSig}, wted: BOOLEAN,
          stimo: BOOLEAN, tsl: 0..MaxSecs,
          pptr: Proc \cup {NoProc}, act: [Signals -> Actions],
          reset: SUBSET Signals]

\* What does not change when a signal is sent to an entry e, or when it is
\* awakened.
Same(e, f) ==
  /\ f.hi = e.hi /\ f.cursig = e.cursig /\ f.wted = e.wted /\ f.stimo = e.stimo
  /\ f.tsl = e.tsl /\ f.pptr = e.pptr /\ f.act = e.act /\ f.reset = e.reset

\* And how its state may change then: it leaves the queue, is made ready, or
\* goes on with the sleep it was stopped in.
Moved(e, f) ==
  \/ f.stat = e.stat /\ (f.wchan = e.wchan \/ (e.stat # "SSLEEP" /\ f.wchan = NoChan))
  \/ e.stat \in {"SSLEEP", "SSTOP"} /\ f.stat = "SRUN" /\ f.wchan = NoChan
  \/ e.stat = "SSTOP" /\ f.stat = "SSLEEP" /\ f.wchan = e.wchan /\ e.wchan # NoChan

Shifted(e, f) == f \in Entry /\ Same(e, f) /\ Moved(e, f)

-----------------------------------------------------------------------------
(* The operators on an entry                                               *)

\* The signals that the kernel itself sends are signals, and 0 is none.
LEMMA SignalFacts ==
  /\ SIGHUP \in Signals /\ SIGKILL \in Signals /\ SIGCONT \in Signals /\ SIGCHLD \in Signals
  /\ Signals \subseteq 1..31 /\ NoSig \notin Signals /\ Sent \subseteq Signals
BY ProcAssumption DEF NoSig

\* psignal notes a signal in p_sig and touches nothing else.
LEMMA NotedFacts ==
  ASSUME NEW e \in Entry, NEW s \in Signals
  PROVE  /\ Noted(e, s) \in Entry /\ Same(e, Noted(e, s))
         /\ Noted(e, s).stat = e.stat /\ Noted(e, s).wchan = e.wchan
         /\ Noted(e, s).sig \subseteq e.sig \cup {s}
<1> DEFINE X == CASE s = SIGCONT -> Stops
                  [] s \in Stops -> {SIGCONT}
                  [] OTHER -> {}
<1>1. Noted(e, s) = [e EXCEPT !.sig = (e.sig \cup {s}) \ X]
  BY DEF Noted
<1> HIDE DEF X
<1> QED  BY <1>1 DEF Entry, Same

\* A signal that is refused is taken out again.
LEMMA RefusedFacts ==
  ASSUME NEW e \in Entry, NEW s \in Signals
  PROVE  /\ Refused(e, s) \in Entry /\ Same(e, Refused(e, s))
         /\ Refused(e, s).stat = e.stat /\ Refused(e, s).wchan = e.wchan
         /\ Refused(e, s).sig = e.sig \ {s}
BY DEF Entry, Same, Refused

\* unsleep and setrun.
LEMMA UnsleepFacts ==
  ASSUME NEW e \in Entry
  PROVE  /\ Unsleep(e) \in Entry /\ Same(e, Unsleep(e))
         /\ Unsleep(e).stat = e.stat /\ Unsleep(e).wchan = NoChan
         /\ Unsleep(e).sig = e.sig
BY DEF Entry, Same, Unsleep

\* setrun makes a process ready and takes it off the queue.
LEMMA SetrunFacts ==
  ASSUME NEW e \in Entry
  PROVE  /\ Setrun(e) \in Entry /\ Same(e, Setrun(e))
         /\ Setrun(e).stat = "SRUN" /\ Setrun(e).wchan = NoChan
         /\ Setrun(e).sig = e.sig
BY UnsleepFacts DEF Entry, Same, Setrun, Stat, Unsleep

\* psignal to a process that sleeps: it goes on sleeping or is made ready.
LEMMA PostAsleepMoves ==
  ASSUME NEW e \in Entry, NEW s \in Signals, e.stat = "SSLEEP"
  PROVE  Shifted(e, PostAsleep(e, s))
<1> DEFINE n == Noted(e, s)
<1>n. /\ n \in Entry /\ Same(e, n) /\ n.stat = e.stat /\ n.wchan = e.wchan
  BY NotedFacts
<1>1. CASE ~e.hi
  BY <1>1, <1>n DEF PostAsleep, Shifted, Moved
<1>2. CASE e.hi /\ s \in Stops /\ e.act[s] = "DFL"
  <2> DEFINE k == Noted(n, SIGKILL)
             r == Refused(k, s)
  <2> HIDE DEF n
  <2>1. k \in Entry /\ Same(n, k) /\ k.stat = n.stat /\ k.wchan = n.wchan
    BY <1>n, NotedFacts, SignalFacts
  <2> HIDE DEF k
  <2>2. r \in Entry /\ Same(k, r) /\ r.stat = k.stat
    BY <2>1, RefusedFacts
  <2>3. Setrun(r) \in Entry /\ Same(r, Setrun(r)) /\ Setrun(r).stat = "SRUN"
        /\ Setrun(r).wchan = NoChan
    BY <2>2, SetrunFacts
  <2>4. PostAsleep(e, s) = Setrun(r)
    BY <1>2 DEF PostAsleep, r, k, n, Stops, Quiet,
                SIGSTOP, SIGTSTP, SIGTTIN, SIGTTOU, SIGTINT, SIGCHLD
  <2> QED  BY <1>n, <2>1, <2>2, <2>3, <2>4 DEF Shifted, Same, Moved
<1>3. CASE e.hi /\ s \in Quiet /\ e.act[s] = "DFL"
  <2>1. PostAsleep(e, s) = Refused(n, s)
    BY <1>3 DEF PostAsleep, Stops, Quiet, SIGSTOP, SIGTSTP, SIGTTIN, SIGTTOU, SIGTINT, SIGCHLD
  <2> HIDE DEF n
  <2>2. Shifted(n, Refused(n, s))
    BY <1>n, RefusedFacts DEF Shifted, Moved
  <2> QED  BY <1>n, <2>1, <2>2 DEF Shifted, Same, Moved
<1>4. CASE e.hi /\ ~(s \in Stops /\ e.act[s] = "DFL") /\ ~(s \in Quiet /\ e.act[s] = "DFL")
  <2>1. PostAsleep(e, s) = Setrun(n)
    BY <1>4 DEF PostAsleep
  <2> HIDE DEF n
  <2>2. Setrun(n) \in Entry /\ Same(n, Setrun(n)) /\ Setrun(n).stat = "SRUN"
        /\ Setrun(n).wchan = NoChan
    BY <1>n, SetrunFacts
  <2> QED  BY <1>n, <2>1, <2>2 DEF Shifted, Same, Moved
<1> QED  BY <1>1, <1>2, <1>3, <1>4 DEF Entry

\* psignal to a stopped process: it stays stopped, goes on sleeping or is
\* made ready.
LEMMA PostStoppedMoves ==
  ASSUME NEW e \in Entry, NEW s \in Signals, e.stat = "SSTOP"
  PROVE  Shifted(e, PostStopped(e, s))
<1> DEFINE n == Noted(e, s)
<1>n. /\ n \in Entry /\ Same(e, n) /\ n.stat = e.stat /\ n.wchan = e.wchan
  BY NotedFacts
<1>r. Shifted(e, Setrun(n))
  <2> HIDE DEF n
  <2>1. Setrun(n) \in Entry /\ Same(n, Setrun(n)) /\ Setrun(n).stat = "SRUN"
        /\ Setrun(n).wchan = NoChan
    BY <1>n, SetrunFacts
  <2> QED  BY <1>n, <2>1 DEF Shifted, Same, Moved
<1>1. CASE s = SIGKILL
  <2>1. PostStopped(e, s) = Setrun(n)
    BY <1>1 DEF PostStopped, Stops, SIGKILL, SIGCONT, SIGSTOP, SIGTSTP, SIGTTIN, SIGTTOU
  <2> QED  BY <1>r, <2>1
<1>2. CASE s = SIGCONT /\ (e.act[s] # "DFL" \/ e.wchan = NoChan)
  <2>1. PostStopped(e, s) = Setrun(n)
    BY <1>2 DEF PostStopped, Stops, SIGKILL, SIGCONT, SIGSTOP, SIGTSTP, SIGTTIN, SIGTTOU
  <2> QED  BY <1>r, <2>1
<1>3. CASE s = SIGCONT /\ e.act[s] = "DFL" /\ e.wchan # NoChan
  <2>1. PostStopped(e, s) = [n EXCEPT !.stat = "SSLEEP"]
    BY <1>3 DEF PostStopped, Stops, SIGKILL, SIGCONT, SIGSTOP, SIGTSTP, SIGTTIN, SIGTTOU
  <2> HIDE DEF n
  <2> DEFINE f == [n EXCEPT !.stat = "SSLEEP"]
  <2>2. f \in Entry /\ Same(n, f) /\ f.stat = "SSLEEP" /\ f.wchan = n.wchan
    BY <1>n DEF Entry, Same, Stat
  <2> HIDE DEF f
  <2> QED  BY <1>3, <1>n, <2>1, <2>2 DEF f, Shifted, Same, Moved
<1>4. CASE s \in Stops
  <2>1. PostStopped(e, s) = Refused(n, s)
    BY <1>4 DEF PostStopped, Stops, SIGKILL, SIGCONT, SIGSTOP, SIGTSTP, SIGTTIN, SIGTTOU
  <2> HIDE DEF n
  <2>2. Shifted(n, Refused(n, s))
    BY <1>n, RefusedFacts DEF Shifted, Moved
  <2> QED  BY <1>n, <2>1, <2>2 DEF Shifted, Same, Moved
<1>5. CASE s # SIGKILL /\ s # SIGCONT /\ s \notin Stops
  <2>1. PostStopped(e, s) = IF e.hi THEN Unsleep(n) ELSE n
    BY <1>5 DEF PostStopped
  <2> HIDE DEF n
  <2>2. Unsleep(n) \in Entry /\ Same(n, Unsleep(n)) /\ Unsleep(n).stat = n.stat
        /\ Unsleep(n).wchan = NoChan
    BY <1>n, UnsleepFacts
  <2>3. Shifted(e, Unsleep(n))
    BY <1>n, <2>2 DEF Shifted, Same, Moved
  <2>4. Shifted(e, n)
    BY <1>n DEF Shifted, Moved
  <2> QED  BY <2>1, <2>3, <2>4
<1> QED  BY <1>1, <1>2, <1>3, <1>4, <1>5

\* psignal, but for the sleepers that it stops.
LEMMA PostShifts ==
  ASSUME NEW e \in Entry, NEW s \in Signals
  PROVE  Shifted(e, Post(e, s))
<1>1. CASE e.act[s] = "IGN"
  <2>1. Post(e, s) = e
    BY <1>1 DEF Post
  <2> QED  BY <2>1 DEF Shifted, Same, Moved
<1>2. CASE e.act[s] # "IGN" /\ Deferred(e, s)
  <2>1. Post(e, s) = Noted(e, s)
    BY <1>2 DEF Post
  <2> QED  BY <2>1, NotedFacts DEF Shifted, Moved
<1>3. CASE e.act[s] # "IGN" /\ ~Deferred(e, s)
  <2>1. Post(e, s) = IF e.stat = "SSLEEP" THEN PostAsleep(e, s) ELSE PostStopped(e, s)
    BY <1>3 DEF Post
  <2>2. e.stat \in {"SSLEEP", "SSTOP"}
    BY <1>3 DEF Deferred
  <2> QED  BY <2>1, <2>2, PostAsleepMoves, PostStoppedMoves
<1> QED  BY <1>1, <1>2, <1>3

-----------------------------------------------------------------------------
(* What the signals of a process that sleeps or is stopped say of it       *)

\* The signals that somebody sends, or the kernel.
Posted == Sent \cup {SIGHUP, SIGKILL, SIGCONT, SIGCHLD}

\* No signal that should end an interruptible sleep is pending.
Heard(e) == {s \in Effective(e) : s \notin Stops \/ Usignal(e, s) = "CATCH"} = {}
Heeds(e) == e.hi /\ e.wchan # NoChan => e.stat \in {"SSLEEP", "SSTOP"} /\ Heard(e)

\* A process that a SIGSTOP stopped, and that goes on, has a signal to look at.
Continued(e) ==
  \/ e.stat = "SSTOP" \/ SIGKILL \in e.sig
  \/ e.act[SIGCONT] \in {"DFL", "CATCH"} /\ (SIGCONT \in e.sig \/ SIGSTOP \in e.sig)
OnlyStop == Sent \cap Stops \subseteq {SIGSTOP}
Going(e) == OnlyStop /\ e.cursig = SIGSTOP => Continued(e)

Heeding(e, f) ==
  /\ e.sig \subseteq Posted => f.sig \subseteq Posted
  /\ Heeds(e) => Heeds(f)
  /\ Going(e) => Going(f)
Stirred(e, f) == Shifted(e, f) /\ Heeding(e, f)

\* The kernel sends no stop signal of its own.
LEMMA PostedFacts ==
  /\ Posted \subseteq Signals /\ Sent \subseteq Posted
  /\ SIGHUP \in Posted /\ SIGKILL \in Posted /\ SIGCONT \in Posted /\ SIGCHLD \in Posted
  /\ OnlyStop => Posted \cap Stops \subseteq {SIGSTOP}
BY SignalFacts DEF Posted, OnlyStop, Stops, SIGHUP, SIGKILL, SIGCONT, SIGCHLD,
   SIGSTOP, SIGTSTP, SIGTTIN, SIGTTOU

\* What is done to an entry keeps this through a sequence of calls.
LEMMA StirredTwice ==
  ASSUME NEW e, NEW f, NEW g, Stirred(e, f), Stirred(f, g)
  PROVE  Stirred(e, g)
<1>1. Shifted(e, g)
  BY DEF Stirred, Shifted, Same, Moved
<1>2. Heeding(e, g)
  BY DEF Stirred, Heeding
<1> QED  BY <1>1, <1>2 DEF Stirred

\* Nothing was done to an entry.
LEMMA StirredSelf ==
  ASSUME NEW e \in Entry
  PROVE  Stirred(e, e)
BY DEF Stirred, Shifted, Same, Moved, Heeding

\* Signals that are held, or ignored by default, end no sleep.
LEMMA HeardLess ==
  ASSUME NEW e, NEW f, f.act = e.act, f.reset = e.reset, Heard(e),
         \A s \in f.sig : \/ s \in e.sig \/ e.act[s] = "HOLD"
                          \/ s \in Ignorable /\ Usignal(e, s) = "DFL"
  PROVE  Heard(f)
<1>1. \A s : Usignal(f, s) = Usignal(e, s)
  BY DEF Usignal
<1>2. Effective(f) \subseteq Effective(e)
  BY <1>1 DEF Effective, Pending
<1> QED  BY <1>1, <1>2 DEF Heard

\* The signals of an entry on which one more is noted.
LEMMA NotedSigs ==
  ASSUME NEW e \in Entry, NEW s \in Signals
  PROVE  /\ s = SIGCONT => Noted(e, s).sig = (e.sig \cup {s}) \ Stops
         /\ s \in Stops => Noted(e, s).sig = (e.sig \cup {s}) \ {SIGCONT}
         /\ s # SIGCONT /\ s \notin Stops => Noted(e, s).sig = e.sig \cup {s}
         /\ s \in Noted(e, s).sig
<1> DEFINE X == CASE s = SIGCONT -> Stops
                  [] s \in Stops -> {SIGCONT}
                  [] OTHER -> {}
<1>1. Noted(e, s).sig = (e.sig \cup {s}) \ X
  BY DEF Noted, Entry
<1>2. /\ s = SIGCONT => X = Stops
      /\ s \in Stops => X = {SIGCONT}
      /\ s # SIGCONT /\ s \notin Stops => X = {}
  BY DEF Stops, SIGCONT, SIGSTOP, SIGTSTP, SIGTTIN, SIGTTOU
<1>3. SIGCONT \notin Stops
  BY DEF Stops, SIGCONT, SIGSTOP, SIGTSTP, SIGTTIN, SIGTTOU
<1> HIDE DEF X
<1> QED  BY <1>1, <1>2, <1>3

\* A process that goes on keeps a reason for it when a signal is noted.
LEMMA NotedGoing ==
  ASSUME NEW e \in Entry, NEW s \in Posted, OnlyStop
  PROVE  /\ SIGKILL \in e.sig => SIGKILL \in Noted(e, s).sig
         /\ SIGCONT \in e.sig \/ SIGSTOP \in e.sig =>
              SIGCONT \in Noted(e, s).sig \/ SIGSTOP \in Noted(e, s).sig
<1>1. s \in Signals /\ (s \in Stops => s = SIGSTOP)
  BY PostedFacts
<1>2. SIGKILL \notin Stops /\ SIGKILL # SIGCONT
  BY DEF Stops, SIGKILL, SIGCONT, SIGSTOP, SIGTSTP, SIGTTIN, SIGTTOU
<1> QED  BY <1>1, <1>2, NotedSigs

\* A signal is noted, and the process is where it was or is made ready.
LEMMA NotedHeeding ==
  ASSUME NEW e \in Entry, NEW s \in Posted, NEW f, Same(e, f), f.sig = Noted(e, s).sig,
         e.stat = "SSTOP" => \/ f.stat = "SSTOP" \/ s = SIGKILL
                             \/ s = SIGCONT /\ e.act[s] \in {"DFL", "CATCH"},
         Heeds(e) /\ f.hi /\ f.wchan # NoChan =>
           /\ e.wchan # NoChan /\ f.stat \in {"SSLEEP", "SSTOP"}
           /\ e.act[s] = "HOLD" \/ (s \in Ignorable /\ Usignal(e, s) = "DFL")
  PROVE  Heeding(e, f)
<1>s. s \in Signals
  BY PostedFacts
<1>1. f.sig \subseteq e.sig \cup {s} /\ s \in f.sig
  BY <1>s, NotedFacts, NotedSigs
<1>2. e.sig \subseteq Posted => f.sig \subseteq Posted
  BY <1>1
<1>3. ASSUME Heeds(e)
      PROVE  Heeds(f)
  <2> SUFFICES ASSUME f.hi, f.wchan # NoChan
               PROVE  f.stat \in {"SSLEEP", "SSTOP"} /\ Heard(f)
    BY DEF Heeds
  <2>1. e.hi /\ e.wchan # NoChan
    BY <1>3 DEF Same
  <2>2. Heard(e)
    BY <1>3, <2>1 DEF Heeds
  <2>3. \A r \in f.sig : \/ r \in e.sig \/ e.act[r] = "HOLD"
                         \/ r \in Ignorable /\ Usignal(e, r) = "DFL"
    BY <1>1, <1>3
  <2>4. Heard(f)
    BY <2>2, <2>3, HeardLess DEF Same
  <2> QED  BY <1>3, <2>4
<1>4. ASSUME Going(e), OnlyStop, f.cursig = SIGSTOP
      PROVE  Continued(f)
  <2>1. Continued(e)
    BY <1>4 DEF Going, Same
  <2>2. CASE e.stat = "SSTOP"
    BY <1>1, <2>2 DEF Continued, Same
  <2>3. CASE e.stat # "SSTOP"
    BY <1>4, <2>1, <2>3, NotedGoing DEF Continued, Same
  <2> QED  BY <2>2, <2>3
<1> QED  BY <1>2, <1>3, <1>4 DEF Heeding, Going

\* A signal is refused, and the process is where it was.
LEMMA RefusedHeeding ==
  ASSUME NEW e \in Entry, NEW s \in Posted, s \in Quiet \/ (s \in Stops /\ e.stat = "SSTOP")
  PROVE  Heeding(e, Refused(Noted(e, s), s))
<1> DEFINE n == Noted(e, s)
           f == Refused(n, s)
<1>s. s \in Signals
  BY PostedFacts
<1>n. n \in Entry /\ Same(e, n) /\ n.stat = e.stat /\ n.wchan = e.wchan /\ n.sig \subseteq e.sig \cup {s}
  BY <1>s, NotedFacts
<1>k. s \in Quiet => n.sig = e.sig \cup {s}
  BY <1>s, NotedSigs DEF Quiet, SIGTINT, SIGCHLD, SIGCONT, Stops, SIGSTOP, SIGTSTP, SIGTTIN, SIGTTOU
<1> HIDE DEF n
<1>f. Same(n, f) /\ f.stat = n.stat /\ f.wchan = n.wchan /\ f.sig = n.sig \ {s}
  BY <1>n, <1>s, RefusedFacts
<1> HIDE DEF f
<1>1. f.sig \subseteq e.sig /\ Same(e, f) /\ f.stat = e.stat /\ f.wchan = e.wchan
  BY <1>n, <1>f DEF Same
<1>2. Heeds(e) => Heeds(f)
  BY <1>1, HeardLess DEF Heeds, Same
<1>3. Going(e) => Going(f)
  <2>1. s \in Quiet => s # SIGKILL /\ s # SIGCONT /\ s # SIGSTOP
    BY DEF Quiet, SIGTINT, SIGCHLD, SIGKILL, SIGCONT, SIGSTOP
  <2>2. s \in Quiet => (\A r \in e.sig : r # s => r \in f.sig)
    BY <1>k, <1>f
  <2>3. CASE s \in Quiet
    BY <1>1, <2>1, <2>2, <2>3 DEF Going, Continued, Same
  <2>4. CASE e.stat = "SSTOP"
    BY <1>1, <2>4 DEF Going, Continued, Same
  <2> QED  BY <2>3, <2>4
<1>4. Heeding(e, f)
  BY <1>1, <1>2, <1>3 DEF Heeding
<1> QED  BY <1>4 DEF f, n

\* psignal to a sleeper, and the signals that are pending then.
LEMMA PostAsleepHeeding ==
  ASSUME NEW e \in Entry, NEW s \in Posted, e.stat = "SSLEEP"
  PROVE  Heeding(e, PostAsleep(e, s))
<1> DEFINE n == Noted(e, s)
<1>s. s \in Signals
  BY PostedFacts
<1>n. n \in Entry /\ Same(e, n) /\ n.stat = e.stat /\ n.wchan = e.wchan /\ n.sig \subseteq e.sig \cup {s}
  BY <1>s, NotedFacts
<1>1. CASE ~e.hi
  <2>1. PostAsleep(e, s) = n
    BY <1>1 DEF PostAsleep
  <2>2. n.sig = Noted(e, s).sig
    OBVIOUS
  <2> HIDE DEF n
  <2> QED  BY <1>1, <1>n, <2>1, <2>2, NotedHeeding DEF Same
<1>2. CASE e.hi /\ s \in Stops /\ e.act[s] = "DFL"
  <2> DEFINE k == Noted(n, SIGKILL)
             r == Refused(k, s)
  <2>0. PostAsleep(e, s) = Setrun(r)
    BY <1>2 DEF PostAsleep, Stops, Quiet,
                SIGSTOP, SIGTSTP, SIGTTIN, SIGTTOU, SIGTINT, SIGCHLD
  <2> HIDE DEF n
  <2>1. /\ k \in Entry /\ k.sig \subseteq n.sig \cup {SIGKILL} /\ SIGKILL \in k.sig
    BY <1>n, NotedFacts, NotedSigs, SignalFacts
  <2> HIDE DEF k
  <2>2. r \in Entry /\ r.sig = k.sig \ {s}
    BY <2>1, <1>s, RefusedFacts
  <2>3. Setrun(r).wchan = NoChan /\ Setrun(r).sig = r.sig
    BY <2>2, SetrunFacts
  <2>4. s # SIGKILL
    BY <1>2 DEF Stops, SIGKILL, SIGSTOP, SIGTSTP, SIGTTIN, SIGTTOU
  <2>5. SIGKILL \in Setrun(r).sig
    BY <2>1, <2>2, <2>3, <2>4
  <2> HIDE DEF r
  <2>6. e.sig \subseteq Posted => Setrun(r).sig \subseteq Posted
    BY <1>n, <2>1, <2>2, <2>3, PostedFacts
  <2>7. Heeds(Setrun(r)) /\ Going(Setrun(r))
    BY <2>3, <2>5 DEF Heeds, Going, Continued
  <2> QED  BY <2>0, <2>6, <2>7 DEF Heeding
<1>3. CASE e.hi /\ s \in Quiet /\ e.act[s] = "DFL"
  <2>1. PostAsleep(e, s) = Refused(n, s)
    BY <1>3 DEF PostAsleep, Stops, Quiet, SIGSTOP, SIGTSTP, SIGTTIN, SIGTTOU, SIGTINT, SIGCHLD
  <2> QED  BY <1>3, <2>1, RefusedHeeding
<1>4. CASE e.hi /\ ~(s \in Stops /\ e.act[s] = "DFL") /\ ~(s \in Quiet /\ e.act[s] = "DFL")
  <2>1. PostAsleep(e, s) = Setrun(n)
    BY <1>4 DEF PostAsleep
  <2>2. n.sig = Noted(e, s).sig
    OBVIOUS
  <2> HIDE DEF n
  <2>3. /\ Same(n, Setrun(n)) /\ Setrun(n).wchan = NoChan /\ Setrun(n).sig = n.sig
    BY <1>n, SetrunFacts
  <2>4. Same(e, Setrun(n)) /\ Setrun(n).sig = Noted(e, s).sig
    BY <1>n, <2>2, <2>3 DEF Same
  <2> QED  BY <2>1, <2>3, <2>4, NotedHeeding
<1> QED  BY <1>1, <1>2, <1>3, <1>4 DEF Entry

\* psignal to a stopped process, and the signals that are pending then.
LEMMA PostStoppedHeeding ==
  ASSUME NEW e \in Entry, NEW s \in Posted, e.stat = "SSTOP",
         e.act[s] \in {"DFL", "CATCH"}
  PROVE  Heeding(e, PostStopped(e, s))
<1> DEFINE n == Noted(e, s)
<1>s. s \in Signals
  BY PostedFacts
<1>n. n \in Entry /\ Same(e, n) /\ n.stat = e.stat /\ n.wchan = e.wchan /\ n.sig = Noted(e, s).sig
  BY <1>s, NotedFacts
<1>1. CASE s = SIGKILL \/ (s = SIGCONT /\ (e.act[s] # "DFL" \/ e.wchan = NoChan))
  <2>1. PostStopped(e, s) = Setrun(n)
    BY <1>1 DEF PostStopped, Stops, SIGKILL, SIGCONT, SIGSTOP, SIGTSTP, SIGTTIN, SIGTTOU
  <2> HIDE DEF n
  <2>3. /\ Same(n, Setrun(n)) /\ Setrun(n).wchan = NoChan /\ Setrun(n).sig = n.sig
    BY <1>n, SetrunFacts
  <2>4. Same(e, Setrun(n)) /\ Setrun(n).sig = Noted(e, s).sig
    BY <1>n, <2>3 DEF Same
  <2> QED  BY <1>1, <2>1, <2>3, <2>4, NotedHeeding
<1>3. CASE s = SIGCONT /\ e.act[s] = "DFL" /\ e.wchan # NoChan
  <2> DEFINE f == [n EXCEPT !.stat = "SSLEEP"]
  <2>1. PostStopped(e, s) = f
    BY <1>3 DEF PostStopped, Stops, SIGKILL, SIGCONT, SIGSTOP, SIGTSTP, SIGTTIN, SIGTTOU
  <2> HIDE DEF n
  <2>2. Same(n, f) /\ f.stat = "SSLEEP" /\ f.wchan = n.wchan /\ f.sig = n.sig
    BY <1>n DEF Entry, Same
  <2> HIDE DEF f
  <2>3. Same(e, f) /\ f.sig = Noted(e, s).sig
    BY <1>n, <2>2 DEF Same
  <2>4. s \in Ignorable /\ Usignal(e, s) = "DFL"
    BY <1>3 DEF Ignorable, Usignal
  <2> QED  BY <1>3, <2>1, <2>2, <2>3, <2>4, NotedHeeding
<1>4. CASE s \in Stops
  <2>1. PostStopped(e, s) = Refused(n, s)
    BY <1>4 DEF PostStopped, Stops, SIGKILL, SIGCONT, SIGSTOP, SIGTSTP, SIGTTIN, SIGTTOU
  <2> QED  BY <1>4, <2>1, RefusedHeeding
<1>5. CASE s # SIGKILL /\ s # SIGCONT /\ s \notin Stops
  <2>1. PostStopped(e, s) = IF e.hi THEN Unsleep(n) ELSE n
    BY <1>5 DEF PostStopped
  <2> HIDE DEF n
  <2>2. /\ Same(n, Unsleep(n)) /\ Unsleep(n).stat = n.stat /\ Unsleep(n).wchan = NoChan
        /\ Unsleep(n).sig = n.sig
    BY <1>n, UnsleepFacts
  <2>3. Same(e, Unsleep(n)) /\ Unsleep(n).sig = Noted(e, s).sig /\ Unsleep(n).stat = "SSTOP"
    BY <1>n, <2>2 DEF Same
  <2>4. Heeding(e, Unsleep(n))
    BY <2>2, <2>3, NotedHeeding
  <2>5. ~e.hi => Heeding(e, n)
    BY <1>n, NotedHeeding DEF Same
  <2> QED  BY <2>1, <2>4, <2>5
<1> QED  BY <1>1, <1>3, <1>4, <1>5

\* psignal, but for the sleepers that it stops.
LEMMA PostMoves ==
  ASSUME NEW e \in Entry, NEW s \in Posted
  PROVE  Stirred(e, Post(e, s))
<1>s. s \in Signals
  BY PostedFacts
<1>0. Shifted(e, Post(e, s))
  BY <1>s, PostShifts
<1>1. CASE e.act[s] = "IGN"
  <2>1. Post(e, s) = e
    BY <1>1 DEF Post
  <2> QED  BY <2>1, StirredSelf
<1>2. CASE e.act[s] # "IGN" /\ Deferred(e, s)
  <2>1. Post(e, s) = Noted(e, s)
    BY <1>2 DEF Post
  <2>2. /\ Same(e, Noted(e, s)) /\ Noted(e, s).stat = e.stat
        /\ Noted(e, s).wchan = e.wchan /\ Noted(e, s).hi = e.hi
    BY <1>s, NotedFacts DEF Same
  <2>3. Heeds(e) /\ e.hi /\ e.wchan # NoChan =>
           e.stat \in {"SSLEEP", "SSTOP"} /\ e.act[s] = "HOLD"
    BY <1>2 DEF Deferred, Heeds
  <2>4. Heeding(e, Noted(e, s))
    BY <2>2, <2>3, NotedHeeding
  <2> QED  BY <1>0, <2>1, <2>4 DEF Stirred
<1>3. CASE e.act[s] # "IGN" /\ ~Deferred(e, s)
  <2>1. Post(e, s) = IF e.stat = "SSLEEP" THEN PostAsleep(e, s) ELSE PostStopped(e, s)
    BY <1>3 DEF Post
  <2>2. e.stat \in {"SSLEEP", "SSTOP"} /\ e.act[s] \in {"DFL", "CATCH"}
    BY <1>3, <1>s DEF Deferred, Entry, Actions
  <2> QED  BY <1>0, <2>1, <2>2, PostAsleepHeeding, PostStoppedHeeding DEF Stirred
<1> QED  BY <1>1, <1>2, <1>3

\* A stopped process stays stopped when one of its children dies or stops.
LEMMA PostChild ==
  ASSUME NEW e \in Entry, e.stat = "SSTOP"
  PROVE  /\ Post(e, SIGCHLD).stat = "SSTOP"
         /\ e.sig \subseteq Post(e, SIGCHLD).sig
         /\ Post(e, SIGCHLD).sig \subseteq e.sig \cup {SIGCHLD}
<1> DEFINE n == Noted(e, SIGCHLD)
<1>n. /\ n \in Entry /\ Same(e, n) /\ n.stat = e.stat
      /\ n.sig \subseteq e.sig \cup {SIGCHLD}
  BY NotedFacts, SignalFacts
<1>1. e.sig \subseteq n.sig
  <2>1. (CASE SIGCHLD = SIGCONT -> Stops
           [] SIGCHLD \in Stops -> {SIGCONT}
           [] OTHER -> {}) = {}
    BY DEF SIGCHLD, SIGCONT, Stops, SIGSTOP, SIGTSTP, SIGTTIN, SIGTTOU
  <2> QED  BY <2>1 DEF Noted, Entry
<1>2. Post(e, SIGCHLD) \in {e, n, Unsleep(n)}
  <2>1. PostStopped(e, SIGCHLD) \in {n, Unsleep(n)}
    BY DEF PostStopped, SIGKILL, SIGCHLD, SIGCONT, Stops, SIGSTOP, SIGTSTP, SIGTTIN, SIGTTOU
  <2>2. Post(e, SIGCHLD) \in {e, n, PostStopped(e, SIGCHLD)}
    BY DEF Post
  <2> HIDE DEF n
  <2> QED  BY <2>1, <2>2
<1> HIDE DEF n
<1>3. Unsleep(n).stat = n.stat /\ Unsleep(n).sig = n.sig
  BY <1>n, UnsleepFacts
<1> QED  BY <1>n, <1>1, <1>2, <1>3

Table == [Proc -> Entry]

\* wakeup(c) only takes processes off the queue.
LEMMA WakeupMoves ==
  ASSUME NEW t \in Table, NEW c
  PROVE  /\ Wakeup(t, c) \in Table
         /\ \A q \in Proc : /\ Stirred(t[q], Wakeup(t, c)[q])
                            /\ Wakeup(t, c)[q].sig = t[q].sig
                            /\ c # NoChan => Wakeup(t, c)[q].wchan # c
                            /\ Wakeup(t, c)[q].stat = "SSLEEP" => Wakeup(t, c)[q] = t[q]
                            /\ t[q].stat # "SSLEEP" => Wakeup(t, c)[q].stat = t[q].stat
<1>1. \A q \in Proc : Wakeup(t, c)[q] =
                        IF t[q].wchan # c THEN t[q]
                        ELSE IF t[q].stat = "SSLEEP" THEN Setrun(t[q]) ELSE Unsleep(t[q])
  BY DEF Wakeup
<1>2. \A q \in Proc : t[q] \in Entry
  BY DEF Table
<1>3. ASSUME NEW q \in Proc
      PROVE  /\ Wakeup(t, c)[q] \in Entry
             /\ Stirred(t[q], Wakeup(t, c)[q])
             /\ Wakeup(t, c)[q].sig = t[q].sig
             /\ c # NoChan => Wakeup(t, c)[q].wchan # c
             /\ Wakeup(t, c)[q].stat = "SSLEEP" => Wakeup(t, c)[q] = t[q]
             /\ t[q].stat # "SSLEEP" => Wakeup(t, c)[q].stat = t[q].stat
  <2>1. CASE t[q].wchan # c
    BY <1>1, <1>2, <2>1, StirredSelf
  <2>2. CASE t[q].wchan = c /\ t[q].stat = "SSLEEP"
    <3>1. Wakeup(t, c)[q] = Setrun(t[q])
      BY <1>1, <2>2
    <3>2. Setrun(t[q]) \in Entry /\ Same(t[q], Setrun(t[q])) /\ Setrun(t[q]).stat = "SRUN"
          /\ Setrun(t[q]).wchan = NoChan /\ Setrun(t[q]).sig = t[q].sig
      BY <1>2, SetrunFacts
    <3>3. Shifted(t[q], Setrun(t[q]))
      BY <2>2, <3>2 DEF Shifted, Moved
    <3>4. Heeding(t[q], Setrun(t[q]))
      BY <2>2, <3>2 DEF Heeding, Heeds, Going, Continued, Same
    <3> QED  BY <2>2, <3>1, <3>2, <3>3, <3>4 DEF Stirred
  <2>3. CASE t[q].wchan = c /\ t[q].stat # "SSLEEP"
    <3>1. Wakeup(t, c)[q] = Unsleep(t[q])
      BY <1>1, <2>3
    <3>2. Unsleep(t[q]) \in Entry /\ Same(t[q], Unsleep(t[q])) /\ Unsleep(t[q]).stat = t[q].stat
          /\ Unsleep(t[q]).wchan = NoChan /\ Unsleep(t[q]).sig = t[q].sig
      BY <1>2, UnsleepFacts
    <3>3. Shifted(t[q], Unsleep(t[q]))
      BY <2>3, <3>2 DEF Shifted, Moved
    <3>4. Heeding(t[q], Unsleep(t[q]))
      BY <2>3, <3>2 DEF Heeding, Heeds, Going, Continued, Same
    <3> QED  BY <2>3, <3>1, <3>2, <3>3, <3>4 DEF Stirred
  <2> QED  BY <2>1, <2>2, <2>3
<1>4. Wakeup(t, c) \in Table
  BY <1>3 DEF Table, Wakeup
<1> QED  BY <1>3, <1>4

-----------------------------------------------------------------------------
(* stop and issig                                                          *)

\* A nonempty set of natural numbers has a least element.
LEMMA Least ==
  ASSUME NEW T, T \subseteq Nat, T # {}
  PROVE  \E x \in T : \A y \in T : x <= y
<1>1. \E R : IsWellFoundedOn(R, Nat) /\ \A x, y \in Nat : y < x => <<y, x>> \in R
  <2>1. IsWellFoundedOn(OpToRel(<, Nat), Nat)
    BY NatLessThanWellFounded, Zenon
  <2>2. \A x, y \in Nat : y < x => <<y, x>> \in OpToRel(<, Nat)
    BY Zenon DEF OpToRel
  <2> QED  BY <2>1, <2>2, Zenon
<1>2. PICK R : IsWellFoundedOn(R, Nat) /\ \A x, y \in Nat : y < x => <<y, x>> \in R
  BY <1>1, Zenon
<1>3. PICK x \in T : \A y \in T : ~(<<y, x>> \in R)
  BY <1>2, WFMin
<1>4. \A y \in T : ~(y < x)
  BY <1>2, <1>3
<1> QED  BY <1>3, <1>4

\* fsig: issig finds one of the pending signals, SIGKILL before all others.
LEMMA TakenFacts ==
  ASSUME NEW e \in Entry, Effective(e) # {}
  PROVE  /\ Taken(e) \in e.sig /\ Taken(e) \in Signals
         /\ Taken(e) # SIGKILL => Taken(e) \in Effective(e)
<1>1. e.sig \subseteq Signals
  BY DEF Entry
<1>2. Effective(e) \subseteq e.sig /\ Effective(e) \subseteq Nat
  <2>1. Effective(e) \subseteq e.sig
    BY Zenon DEF Effective, Pending
  <2>2. Signals \subseteq Nat
    BY SignalFacts
  <2> QED  BY <1>1, <2>1, <2>2, Zenon
<1>3. CASE SIGKILL \in e.sig
  BY <1>1, <1>3 DEF Taken
<1>4. CASE SIGKILL \notin e.sig
  <2>1. \E s \in Effective(e) : \A r \in Effective(e) : s <= r
    BY <1>2, Least
  <2>2. Taken(e) = CHOOSE s \in Effective(e) : \A r \in Effective(e) : s <= r
    BY <1>4 DEF Taken
  <2>3. Taken(e) \in Effective(e)
    BY <2>1, <2>2
  <2> QED  BY <1>1, <1>2, <2>3
<1> QED  BY <1>3, <1>4

\* The entry f of a process that was stopped, when stop has awakened the
\* parent and sent it SIGCHLD: the parent may be the process itself.  g are
\* the signals that were pending.
Halted(e, g, f) ==
  /\ f \in Entry
  /\ f.hi = e.hi /\ f.wted = FALSE /\ f.stimo = e.stimo /\ f.tsl = e.tsl
  /\ f.pptr = e.pptr /\ f.act = e.act /\ f.reset = e.reset
  /\ f.stat = "SSTOP" /\ f.wchan \in {e.wchan, NoChan}
  /\ g \subseteq f.sig /\ f.sig \subseteq g \cup {SIGCHLD}

\* stop finds the parent on the queue, if it is there.
LEMMA StopMoves ==
  ASSUME NEW t \in Table, NEW p \in Proc
  PROVE  /\ Stop(t, p) \in Table
         /\ \A q \in Proc : q # p => Stirred(t[q], Stop(t, p)[q])
         /\ Halted(t[p], t[p].sig, Stop(t, p)[p])
         /\ Stop(t, p)[p].cursig = t[p].cursig
         /\ Heeds(t[p]) => Heeds(Stop(t, p)[p])
         /\ \A q \in Proc : q = t[p].pptr => Stop(t, p)[q].wchan # q
<1> DEFINE h == [t EXCEPT ![p].stat = "SSTOP", ![p].wted = FALSE]
           w == Wakeup(h, t[p].pptr)
<1>1. /\ h \in Table
      /\ \A q \in Proc : q # p => h[q] = t[q]
      /\ h[p] = [t[p] EXCEPT !.stat = "SSTOP", !.wted = FALSE]
  <2> DEFINE f == [t[p] EXCEPT !.stat = "SSTOP", !.wted = FALSE]
  <2>1. t[p] \in Entry
    BY DEF Table
  <2>2. f \in Entry
    BY <2>1 DEF Entry, Stat
  <2>3. h = [t EXCEPT ![p] = f]
    BY DEF Table
  <2> HIDE DEF f, h
  <2>4. h \in Table /\ h[p] = f /\ \A q \in Proc : q # p => h[q] = t[q]
    BY <2>2, <2>3 DEF Table
  <2> QED  BY <2>4 DEF f
<1>2. \A q \in Proc : Stop(t, p)[q] = IF q = t[p].pptr THEN Post(w[q], SIGCHLD) ELSE w[q]
  BY DEF Stop
<1> HIDE DEF h
<1>3. /\ w \in Table
      /\ \A q \in Proc : Stirred(h[q], w[q])
      /\ \A q \in Proc : q = t[p].pptr => w[q].wchan # q
      /\ \A q \in Proc : w[q].sig = h[q].sig
      /\ \A q \in Proc : h[q].stat # "SSLEEP" => w[q].stat = h[q].stat
  BY <1>1, WakeupMoves, ProcAssumption
<1> HIDE DEF w
<1>4. ASSUME NEW q \in Proc
      PROVE  Stirred(w[q], Stop(t, p)[q])
  <2>1. w[q] \in Entry
    BY <1>3 DEF Table
  <2>2. CASE q = t[p].pptr
    BY <1>2, <2>1, <2>2, PostMoves, PostedFacts
  <2>3. CASE q # t[p].pptr
    BY <1>2, <2>1, <2>3, StirredSelf
  <2> QED  BY <2>2, <2>3
<1>5. \A q \in Proc : Stirred(h[q], Stop(t, p)[q])
  BY <1>3, <1>4, StirredTwice
<1>6. Stop(t, p) \in Table
  BY <1>5 DEF Stop, Table, Stirred, Shifted
<1>7. Halted(t[p], t[p].sig, Stop(t, p)[p]) /\ Stop(t, p)[p].cursig = t[p].cursig
  <2>1. t[p] \in Entry
    BY DEF Table
  <2>2. /\ h[p].hi = t[p].hi /\ h[p].wted = FALSE /\ h[p].stimo = t[p].stimo
        /\ h[p].tsl = t[p].tsl /\ h[p].pptr = t[p].pptr /\ h[p].act = t[p].act
        /\ h[p].reset = t[p].reset /\ h[p].stat = "SSTOP" /\ h[p].wchan = t[p].wchan
        /\ h[p].cursig = t[p].cursig
    BY <1>1, <2>1 DEF Entry
  <2>3. Stirred(h[p], Stop(t, p)[p])
    BY <1>5
  <2>4. w[p].stat = "SSTOP" /\ w[p].sig = t[p].sig
    BY <1>1, <1>3, <2>1, <2>2, ZenonT(60) DEF Entry
  <2>5. w[p] \in Entry
    BY <1>3 DEF Table
  <2>6. /\ Stop(t, p)[p].stat = "SSTOP" /\ t[p].sig \subseteq Stop(t, p)[p].sig
        /\ Stop(t, p)[p].sig \subseteq t[p].sig \cup {SIGCHLD}
    BY <1>2, <2>4, <2>5, PostChild
  <2> QED  BY <2>2, <2>3, <2>6 DEF Halted, Stirred, Shifted, Same, Moved
<1>8. \A q \in Proc : q # p => Stirred(t[q], Stop(t, p)[q])
  BY <1>1, <1>5
<1>9. ASSUME NEW q \in Proc, q = t[p].pptr
      PROVE  Stop(t, p)[q].wchan # q
  <2>1. w[q].wchan # q /\ Stirred(w[q], Stop(t, p)[q]) /\ q # NoChan
    BY <1>3, <1>4, <1>9, ProcAssumption
  <2> QED  BY <2>1 DEF Stirred, Shifted, Moved
<1>10. Heeds(t[p]) => Heeds(Stop(t, p)[p])
  <2>1. t[p] \in Entry
    BY DEF Table
  <2>2. /\ h[p].hi = t[p].hi /\ h[p].wchan = t[p].wchan /\ h[p].stat = "SSTOP"
        /\ h[p].act = t[p].act /\ h[p].reset = t[p].reset /\ h[p].sig = t[p].sig
    BY <1>1, <2>1 DEF Entry
  <2>3. Heeds(t[p]) => Heeds(h[p])
    BY <2>2, HeardLess DEF Heeds
  <2>4. Heeding(h[p], Stop(t, p)[p])
    BY <1>5 DEF Stirred
  <2> QED  BY <2>3, <2>4 DEF Heeding
<1> QED  BY <1>6, <1>7, <1>8, <1>9, <1>10

\* issig takes signals out of p_sig and sets p_cursig.
Picked(e, f) ==
  /\ f \in Entry
  /\ f.stat = e.stat /\ f.wchan = e.wchan /\ f.hi = e.hi /\ f.wted = e.wted
  /\ f.stimo = e.stimo /\ f.tsl = e.tsl /\ f.pptr = e.pptr /\ f.act = e.act
  /\ f.reset = e.reset

\* The three things issig does.
LEMMA IssigFacts ==
  ASSUME NEW e
  PROVE  /\ Issig(e) \in {"none", "stop", "send"}
         /\ Issig(e) = "none" <=> Effective(e) = {}
         /\ Issig(e) = "stop" => Effective(e) # {} /\ StopSignal(e)
BY DEF Issig

\* issig finds nothing: the signals it skips are forgotten.
LEMMA LookedNone ==
  ASSUME NEW t \in Table, NEW p \in Proc, Issig(t[p]) = "none"
  PROVE  /\ Looked(t, p) \in Table
         /\ \A q \in Proc : q # p => Looked(t, p)[q] = t[q]
         /\ Picked(t[p], Looked(t, p)[p])
         /\ Looked(t, p)[p].sig = t[p].sig \ Pending(t[p])
         /\ Looked(t, p)[p].cursig = IF Pending(t[p]) = {} THEN t[p].cursig ELSE NoSig
<1>t. t[p] \in Entry
  BY DEF Table
<1>1. Looked(t, p) = IF Pending(t[p]) = {} THEN t
                     ELSE [t EXCEPT ![p].sig = @ \ Pending(t[p]), ![p].cursig = NoSig]
  BY DEF Looked
<1>2. CASE Pending(t[p]) = {}
  BY <1>1, <1>2, <1>t DEF Picked
<1>3. CASE Pending(t[p]) # {}
  <2> DEFINE f == [t[p] EXCEPT !.sig = t[p].sig \ Pending(t[p]), !.cursig = NoSig]
  <2>1. Looked(t, p) = [t EXCEPT ![p] = f]
    BY <1>1, <1>3, <1>t DEF Table, Entry
  <2>2. Picked(t[p], f) /\ f.sig = t[p].sig \ Pending(t[p]) /\ f.cursig = NoSig
    BY <1>t DEF Picked, Entry
  <2> HIDE DEF f
  <2> QED  BY <1>3, <2>1, <2>2 DEF Table, Picked
<1> QED  BY <1>2, <1>3

\* The signal that issig leaves in p_cursig.
Sending(e) == IF StopSignal(e) THEN SIGKILL ELSE Taken(e)

\* issig finds a signal for psig.
LEMMA LookedSend ==
  ASSUME NEW t \in Table, NEW p \in Proc, Issig(t[p]) = "send"
  PROVE  /\ Looked(t, p) \in Table
         /\ \A q \in Proc : q # p => Looked(t, p)[q] = t[q]
         /\ Picked(t[p], Looked(t, p)[p])
         /\ Looked(t, p)[p].sig = Left(t[p])
         /\ Looked(t, p)[p].cursig = Sending(t[p])
         /\ Sending(t[p]) \in Signals
<1>t. t[p] \in Entry
  BY DEF Table
<1>1. Effective(t[p]) # {}
  BY IssigFacts
<1>2. Taken(t[p]) \in Signals /\ Sending(t[p]) \in Signals
  BY <1>1, <1>t, TakenFacts, SignalFacts DEF Sending
<1>3. Left(t[p]) \subseteq t[p].sig
  BY DEF Left
<1> DEFINE f == [t[p] EXCEPT !.sig = Left(t[p]), !.cursig = Sending(t[p])]
<1>4. Looked(t, p) = [t EXCEPT ![p] = f]
  <2> DEFINE k == [t[p] EXCEPT !.sig = Left(t[p]), !.cursig = Taken(t[p])]
  <2>1. Looked(t, p) = [t EXCEPT ![p] = IF StopSignal(t[p]) THEN [k EXCEPT !.cursig = SIGKILL] ELSE k]
    BY DEF Looked
  <2>2. CASE StopSignal(t[p])
    <3>1. [k EXCEPT !.cursig = SIGKILL] = f
      BY <1>t, <2>2 DEF Sending, Entry
    <3> HIDE DEF k, f
    <3> QED  BY <2>1, <2>2, <3>1
  <2>3. CASE ~StopSignal(t[p])
    <3>1. k = f
      BY <2>3 DEF Sending
    <3> HIDE DEF k, f
    <3> QED  BY <2>1, <2>3, <3>1
  <2> QED  BY <2>2, <2>3
<1>5. Picked(t[p], f) /\ f.sig = Left(t[p]) /\ f.cursig = Sending(t[p])
  BY <1>t, <1>2, <1>3 DEF Picked, Entry
<1> HIDE DEF f
<1> QED  BY <1>2, <1>4, <1>5 DEF Table, Picked

\* issig stops the process and tells its parent.
LEMMA LookedStop ==
  ASSUME NEW t \in Table, NEW p \in Proc, Issig(t[p]) = "stop"
  PROVE  /\ Looked(t, p) \in Table
         /\ \A q \in Proc : q # p => Stirred(t[q], Looked(t, p)[q])
         /\ Halted(t[p], Left(t[p]), Looked(t, p)[p])
         /\ Looked(t, p)[p].cursig = Taken(t[p])
         /\ \A q \in Proc : q = t[p].pptr => Looked(t, p)[q].wchan # q
<1>t. t[p] \in Entry
  BY DEF Table
<1>1. Effective(t[p]) # {}
  BY IssigFacts
<1>2. Taken(t[p]) \in Signals
  BY <1>1, <1>t, TakenFacts
<1>3. Left(t[p]) \subseteq t[p].sig
  BY DEF Left
<1> DEFINE f == [t[p] EXCEPT !.sig = Left(t[p]), !.cursig = Taken(t[p])]
           u == [t EXCEPT ![p] = f]
<1>4. Looked(t, p) = Stop(u, p)
  BY DEF Looked
<1>5. Picked(t[p], f) /\ f.cursig = Taken(t[p]) /\ f.sig = Left(t[p])
  BY <1>t, <1>2, <1>3 DEF Picked, Entry
<1> HIDE DEF f
<1>6. u \in Table /\ u[p] = f /\ \A q \in Proc : q # p => u[q] = t[q]
  BY <1>5 DEF Table, Picked
<1> HIDE DEF u
<1>7. /\ Stop(u, p) \in Table
      /\ \A q \in Proc : q # p => Stirred(u[q], Stop(u, p)[q])
      /\ Halted(u[p], u[p].sig, Stop(u, p)[p]) /\ Stop(u, p)[p].cursig = u[p].cursig
      /\ \A q \in Proc : q = u[p].pptr => Stop(u, p)[q].wchan # q
  BY <1>6, StopMoves
<1> QED  BY <1>4, <1>5, <1>6, <1>7 DEF Picked, Halted

-----------------------------------------------------------------------------
(* sleep, tsleep and psignal                                               *)

\* What issig looks at.
Alike(e, f) == f.sig = e.sig /\ f.act = e.act /\ f.reset = e.reset /\ f.pptr = e.pptr

\* What issig finds depends on the signals, the actions and the parent only.
LEMMA LooksAlike ==
  ASSUME NEW e, NEW f, Alike(e, f)
  PROVE  /\ Pending(f) = Pending(e) /\ Effective(f) = Effective(e)
         /\ Taken(f) = Taken(e) /\ Left(f) = Left(e) /\ Issig(f) = Issig(e)
         /\ Sending(f) = Sending(e)
<1>1. Pending(f) = Pending(e)
  BY DEF Alike, Pending
<1>2. \A s : Usignal(f, s) = Usignal(e, s)
  BY DEF Alike, Usignal
<1>3. Effective(f) = Effective(e)
  BY <1>1, <1>2 DEF Effective
<1>4. Taken(f) = Taken(e)
  BY <1>3 DEF Alike, Taken
<1>5. Left(f) = Left(e)
  BY <1>1, <1>4 DEF Alike, Left
<1>6. StopSignal(f) = StopSignal(e) /\ Orphaned(f) = Orphaned(e)
  BY <1>2, <1>4 DEF Alike, StopSignal, Orphaned
<1> QED  BY <1>1, <1>3, <1>4, <1>5, <1>6 DEF Issig, Sending

\* The entry f of a process whose tsleep has ended, or another sleep.
Ended(e, f, k) ==
  /\ f \in Entry
  /\ f.stat = e.stat /\ f.wchan = e.wchan /\ f.hi = e.hi /\ f.wted = e.wted
  /\ f.pptr = e.pptr /\ f.act = e.act /\ f.reset = e.reset
  /\ f.sig = e.sig /\ f.cursig = e.cursig
  /\ IF k = "tsleep" THEN f.tsl = 0 /\ f.stimo = FALSE ELSE f.tsl = e.tsl /\ f.stimo = e.stimo

\* The end of tsleep clears p_tsleep and STIMO and nothing else.
LEMMA EndTsleepFacts ==
  ASSUME NEW t \in Table, NEW p \in Proc, NEW k
  PROVE  /\ EndTsleep(t, p, k) \in Table
         /\ \A q \in Proc : q # p => EndTsleep(t, p, k)[q] = t[q]
         /\ Ended(t[p], EndTsleep(t, p, k)[p], k)
<1>t. t[p] \in Entry
  BY DEF Table
<1>1. CASE k = "tsleep"
  <2> DEFINE f == [t[p] EXCEPT !.tsl = 0, !.stimo = FALSE]
  <2>1. EndTsleep(t, p, k) = [t EXCEPT ![p] = f]
    BY <1>1 DEF EndTsleep, Table
  <2>2. Ended(t[p], f, k)
    <3>1. 0 \in 0..MaxSecs
      BY ProcAssumption
    <3>2. f \in Entry
      BY <1>t, <3>1 DEF Entry
    <3>3. /\ f.stat = t[p].stat /\ f.wchan = t[p].wchan /\ f.hi = t[p].hi /\ f.wted = t[p].wted
          /\ f.pptr = t[p].pptr /\ f.act = t[p].act /\ f.reset = t[p].reset
          /\ f.sig = t[p].sig /\ f.cursig = t[p].cursig /\ f.tsl = 0 /\ f.stimo = FALSE
      BY <1>t DEF Entry
    <3> HIDE DEF f
    <3> QED  BY <1>1, <3>2, <3>3 DEF Ended
  <2> HIDE DEF f
  <2> QED  BY <2>1, <2>2 DEF Table, Ended
<1>2. CASE k # "tsleep"
  BY <1>2, <1>t DEF EndTsleep, Ended
<1> QED  BY <1>1, <1>2

\* What the four outcomes of a sleep leave in the variables.  b is the entry
\* with the channel and the priority in it.
Onto(p, l, k) ==
  /\ pc' = [pc EXCEPT ![p] = l] /\ call' = [call EXCEPT ![p] = k]
Others(t, p) == \A q \in Proc : q # p => proc'[q] = t[q]
Slept(t, b, p, k) ==
  /\ Others(t, p) /\ Onto(p, "sleep", k) /\ res' = res
  /\ proc'[p].stat = "SSLEEP" /\ proc'[p].wchan = b.wchan /\ proc'[p].hi = b.hi
  /\ proc'[p].wted = b.wted /\ proc'[p].stimo = b.stimo /\ proc'[p].tsl = b.tsl
  /\ proc'[p].pptr = b.pptr /\ proc'[p].act = b.act /\ proc'[p].reset = b.reset
  /\ proc'[p].sig = (IF b.hi THEN b.sig \ Pending(b) ELSE b.sig)
  /\ proc'[p].cursig = (IF b.hi /\ Pending(b) # {} THEN NoSig ELSE b.cursig)
  /\ b.hi => Effective(b) = {}
\* The process stops, and its parent is told of it.
Stopped(t, b, p, l, k) ==
  /\ Onto(p, l, k) /\ res' = res
  /\ \A q \in Proc : q # p => Stirred(t[q], proc'[q])
  /\ \A q \in Proc : q = b.pptr => proc'[q].wchan # q
  /\ Halted(b, Left(b), proc'[p]) /\ proc'[p].cursig = Taken(b) /\ Issig(b) = "stop"
\* A signal ends the sleep.
Broken(t, b, p, k) ==
  /\ Others(t, p) /\ Onto(p, "trap", "none") /\ Result(p, k, "TS_SIG")
  /\ proc'[p].stat = b.stat /\ proc'[p].wchan = NoChan /\ proc'[p].wted = b.wted
  /\ proc'[p].pptr = b.pptr /\ proc'[p].act = b.act /\ proc'[p].reset = b.reset
  /\ IF k = "tsleep" THEN proc'[p].tsl = 0 /\ proc'[p].stimo = FALSE
                     ELSE proc'[p].tsl = b.tsl /\ proc'[p].stimo = b.stimo
  /\ proc'[p].sig = Left(b)
  /\ proc'[p].cursig = Sending(b) /\ Sending(b) \in Signals /\ Issig(b) = "send"

\* An interrupted sleep: the signal is looked at and the process leaves the queue.
LEMMA InterruptedFacts ==
  ASSUME NEW t \in Table, NEW p \in Proc, NEW k, Issig(t[p]) = "send",
         Interrupted(Looked(t, p), p, k)
  PROVE  proc' \in Table /\ Broken(t, t[p], p, k)
<1> DEFINE u == Looked(t, p)
           v == EndTsleep(u, p, k)
<1>1. /\ u \in Table /\ \A q \in Proc : q # p => u[q] = t[q]
      /\ Picked(t[p], u[p]) /\ u[p].cursig = Sending(t[p]) /\ Sending(t[p]) \in Signals
      /\ u[p].sig = Left(t[p])
  BY LookedSend
<1> HIDE DEF u
<1>2. v \in Table /\ (\A q \in Proc : q # p => v[q] = u[q]) /\ Ended(u[p], v[p], k)
  BY <1>1, EndTsleepFacts
<1>3. proc' = [v EXCEPT ![p] = Unsleep(v[p])] /\ Onto(p, "trap", "none") /\ Result(p, k, "TS_SIG")
  BY DEF Interrupted, Onto, u, v
<1> HIDE DEF v
<1>4. v[p] \in Entry
  BY <1>2 DEF Table
<1>5. /\ Unsleep(v[p]) \in Entry /\ Same(v[p], Unsleep(v[p]))
      /\ Unsleep(v[p]).stat = v[p].stat /\ Unsleep(v[p]).wchan = NoChan
      /\ Unsleep(v[p]).sig = v[p].sig
  BY <1>4, UnsleepFacts
<1> DEFINE f == Unsleep(v[p])
<1> HIDE DEF f
<1>6. proc' \in Table /\ proc'[p] = f /\ \A q \in Proc : q # p => proc'[q] = v[q]
  BY <1>2, <1>3, <1>5 DEF Table, f
<1>7. Others(t, p)
  BY <1>1, <1>2, <1>6 DEF Others
<1>8. /\ f.stat = t[p].stat /\ f.wchan = NoChan /\ f.wted = t[p].wted
      /\ f.pptr = t[p].pptr /\ f.act = t[p].act /\ f.reset = t[p].reset
      /\ f.cursig = Sending(t[p]) /\ f.sig = Left(t[p])
      /\ IF k = "tsleep" THEN f.tsl = 0 /\ f.stimo = FALSE
                         ELSE f.tsl = t[p].tsl /\ f.stimo = t[p].stimo
  BY <1>1, <1>2, <1>5 DEF f, Picked, Ended, Same
<1> QED  BY <1>1, <1>3, <1>6, <1>7, <1>8 DEF Broken

\* sleep(c, pri)
LEMMA SleepFacts ==
  ASSUME NEW t \in Table, NEW p \in Proc, NEW c \in Chan \cup Proc, NEW hi \in BOOLEAN, NEW k,
         Sleep(t, p, c, hi, k)
  PROVE  \E b \in Entry :
           /\ proc' \in Table
           /\ b.wchan = c /\ b.hi = hi /\ b.stat = t[p].stat /\ b.wted = t[p].wted
           /\ b.stimo = t[p].stimo /\ b.tsl = t[p].tsl /\ b.cursig = t[p].cursig
           /\ Alike(t[p], b)
           /\ Slept(t, b, p, k) \/ (hi /\ Stopped(t, b, p, "stop1", k))
                \/ (hi /\ Broken(t, b, p, k))
<1> DEFINE b == [t[p] EXCEPT !.wchan = c, !.hi = hi]
           u == [t EXCEPT ![p].wchan = c, ![p].hi = hi]
<1>t. t[p] \in Entry
  BY DEF Table
<1>1. /\ b \in Entry /\ b.wchan = c /\ b.hi = hi /\ b.stat = t[p].stat /\ b.wted = t[p].wted
      /\ b.stimo = t[p].stimo /\ b.tsl = t[p].tsl /\ b.cursig = t[p].cursig
      /\ Alike(t[p], b)
  BY <1>t DEF Entry, Alike
<1>2. u = [t EXCEPT ![p] = b]
  BY DEF Table
<1>3. CASE Sleep(t, p, c, hi, k) /\ ~hi
  <2>1. proc' = [u EXCEPT ![p].stat = "SSLEEP"] /\ Onto(p, "sleep", k) /\ res' = res
    BY <1>3 DEF Sleep, Stays, Onto
  <2> DEFINE f == [b EXCEPT !.stat = "SSLEEP"]
  <2>2. /\ f \in Entry /\ f.stat = "SSLEEP" /\ f.wchan = b.wchan /\ f.hi = b.hi
        /\ f.wted = b.wted /\ f.stimo = b.stimo /\ f.tsl = b.tsl
        /\ f.pptr = b.pptr /\ f.act = b.act /\ f.reset = b.reset
        /\ f.sig = b.sig /\ f.cursig = b.cursig
    BY <1>1 DEF Entry, Stat
  <2> HIDE DEF b, u
  <2>3. proc' = [t EXCEPT ![p] = f]
    BY <1>1, <1>2, <2>1 DEF Table
  <2> HIDE DEF f
  <2>4. proc' \in Table /\ proc'[p] = f /\ Others(t, p)
    BY <2>2, <2>3 DEF Table, Others
  <2>5. Slept(t, b, p, k)
    BY <1>1, <1>3, <2>1, <2>2, <2>4 DEF Slept
  <2> QED  BY <1>1, <2>4, <2>5
<1>4. CASE Sleep(t, p, c, hi, k) /\ hi
  <2> HIDE DEF b
  <2>u. u \in Table /\ u[p] = b /\ \A q \in Proc : q # p => u[q] = t[q]
    BY <1>1, <1>2 DEF Table
  <2>0. Issig(b) \in {"none", "stop", "send"}
    BY IssigFacts
  <2>1. CASE Issig(b) = "none"
    <3>1. proc' = [Looked(u, p) EXCEPT ![p].stat = "SSLEEP"] /\ Onto(p, "sleep", k) /\ res' = res
      BY <1>4, <2>1, <2>u DEF Sleep, Stays, Onto
    <3> HIDE DEF u
    <3> DEFINE v == Looked(u, p)
    <3>2. /\ v \in Table /\ \A q \in Proc : q # p => v[q] = u[q]
          /\ Picked(u[p], v[p]) /\ v[p].sig = u[p].sig \ Pending(u[p])
          /\ v[p].cursig = IF Pending(u[p]) = {} THEN u[p].cursig ELSE NoSig
      BY <2>1, <2>u, LookedNone, ZenonT(60)
    <3> HIDE DEF v
    <3> DEFINE f == [v[p] EXCEPT !.stat = "SSLEEP"]
    <3>3. v[p] \in Entry
      BY <3>2 DEF Table
    <3>4. /\ f \in Entry /\ f.stat = "SSLEEP" /\ f.wchan = v[p].wchan /\ f.hi = v[p].hi
          /\ f.wted = v[p].wted /\ f.stimo = v[p].stimo /\ f.tsl = v[p].tsl
          /\ f.pptr = v[p].pptr /\ f.act = v[p].act /\ f.reset = v[p].reset
          /\ f.sig = v[p].sig /\ f.cursig = v[p].cursig
      BY <3>3 DEF Entry, Stat
    <3>5. proc' = [v EXCEPT ![p] = f]
      BY <3>1, <3>2 DEF Table, v
    <3> HIDE DEF f
    <3>6. proc' \in Table /\ proc'[p] = f /\ \A q \in Proc : q # p => proc'[q] = v[q]
      BY <3>2, <3>4, <3>5 DEF Table
    <3>7. Others(t, p)
      BY <2>u, <3>2, <3>6 DEF Others
    <3>8. Effective(b) = {}
      BY <2>1, IssigFacts
    <3>9. /\ f.stat = "SSLEEP" /\ f.wchan = b.wchan /\ f.hi = b.hi
          /\ f.wted = b.wted /\ f.stimo = b.stimo /\ f.tsl = b.tsl
          /\ f.pptr = b.pptr /\ f.act = b.act /\ f.reset = b.reset
          /\ f.sig = b.sig \ Pending(b)
          /\ f.cursig = IF Pending(b) = {} THEN b.cursig ELSE NoSig
      BY <2>u, <3>2, <3>4 DEF Picked
    <3>10. b.hi = TRUE
      BY <1>1, <1>4
    <3>11. Slept(t, b, p, k)
      BY <3>1, <3>6, <3>7, <3>8, <3>9, <3>10 DEF Slept
    <3> QED  BY <1>1, <3>6, <3>11
  <2>2. CASE Issig(b) = "stop"
    <3>1. proc' = Looked(u, p) /\ Onto(p, "stop1", k) /\ res' = res
      BY <1>4, <2>2, <2>u DEF Sleep, Stays, Onto
    <3> HIDE DEF u
    <3>2. /\ proc' \in Table
          /\ \A q \in Proc : q # p => Stirred(u[q], proc'[q])
          /\ Halted(u[p], Left(u[p]), proc'[p])
          /\ proc'[p].cursig = Taken(u[p])
          /\ \A q \in Proc : q = u[p].pptr => proc'[q].wchan # q
      BY <2>2, <2>u, <3>1, LookedStop
    <3>3. Stopped(t, b, p, "stop1", k)
      BY <2>2, <2>u, <3>1, <3>2 DEF Stopped
    <3> QED  BY <1>1, <1>4, <3>2, <3>3
  <2>3. CASE Issig(b) = "send"
    <3>1. Interrupted(Looked(u, p), p, k)
      BY <1>4, <2>3, <2>u DEF Sleep
    <3> HIDE DEF u
    <3>2. proc' \in Table /\ Broken(u, u[p], p, k)
      BY <2>3, <2>u, <3>1, InterruptedFacts
    <3>3. Broken(t, b, p, k)
      BY <2>u, <3>2 DEF Broken, Others
    <3> QED  BY <1>1, <1>4, <3>2, <3>3
  <2> QED  BY <2>0, <2>1, <2>2, <2>3
<1> QED  BY <1>3, <1>4

\* The process x is on no queue of wait.
Unqueued(u, x) == \A q \in Proc : q = x => u[q].wchan # q

\* psignal stops a sleeper, and awakens its parent.
LEMMA PsignalStops ==
  ASSUME NEW t \in Table, NEW p \in Proc, NEW s \in Posted, StopsSleeper(t[p], s)
  PROVE  /\ Psignal(t, p, s) \in Table
         /\ \A q \in Proc : q # p => Stirred(t[q], Psignal(t, p, s)[q])
         /\ Halted(t[p], Noted(t[p], s).sig \ {s}, Psignal(t, p, s)[p])
         /\ Psignal(t, p, s)[p].cursig = s
         /\ Heeds(t[p]) => Heeds(Psignal(t, p, s)[p])
         /\ Unqueued(Psignal(t, p, s), t[p].pptr)
<1>t. \A q \in Proc : t[q] \in Entry
  BY DEF Table
<1>s. s \in Signals
  BY PostedFacts
<1> DEFINE n == Noted(t[p], s)
           r == Refused(n, s)
           b == [r EXCEPT !.cursig = s]
           u == [t EXCEPT ![p] = b]
<1>1. Psignal(t, p, s) = Stop(u, p)
  BY DEF Psignal, Table
<1>2. n \in Entry /\ Same(t[p], n) /\ n.stat = t[p].stat /\ n.wchan = t[p].wchan
      /\ n.sig \subseteq t[p].sig \cup {s}
  BY <1>s, <1>t, NotedFacts
<1> HIDE DEF n
<1>3. r \in Entry /\ Same(n, r) /\ r.stat = n.stat /\ r.wchan = n.wchan /\ r.sig = n.sig \ {s}
  BY <1>s, <1>2, RefusedFacts
<1> HIDE DEF r
<1>4. /\ b \in Entry /\ b.cursig = s /\ b.stat = r.stat /\ b.wchan = r.wchan /\ b.hi = r.hi
      /\ b.wted = r.wted /\ b.stimo = r.stimo /\ b.tsl = r.tsl /\ b.pptr = r.pptr
      /\ b.act = r.act /\ b.reset = r.reset /\ b.sig = r.sig
  BY <1>s, <1>3 DEF Entry
<1> HIDE DEF b
<1>5. u \in Table /\ u[p] = b /\ \A q \in Proc : q # p => u[q] = t[q]
  BY <1>4 DEF Table
<1> HIDE DEF u
<1>6. /\ Stop(u, p) \in Table
      /\ \A q \in Proc : q # p => Stirred(u[q], Stop(u, p)[q])
      /\ Halted(u[p], u[p].sig, Stop(u, p)[p])
      /\ Stop(u, p)[p].cursig = u[p].cursig
      /\ Heeds(u[p]) => Heeds(Stop(u, p)[p])
      /\ \A q \in Proc : q = u[p].pptr => Stop(u, p)[q].wchan # q
  BY <1>5, StopMoves
<1>7. Halted(t[p], n.sig \ {s}, Stop(u, p)[p])
  BY <1>2, <1>3, <1>4, <1>5, <1>6 DEF Halted, Same
<1>8. b.pptr = t[p].pptr
  BY <1>2, <1>3, <1>4 DEF Same
<1>9. Heeds(t[p]) => Heeds(b)
  <2>1. /\ b.sig \subseteq t[p].sig /\ b.act = t[p].act /\ b.reset = t[p].reset
        /\ b.hi = t[p].hi /\ b.wchan = t[p].wchan /\ b.stat = t[p].stat
    BY <1>2, <1>3, <1>4 DEF Same
  <2> QED  BY <2>1, HeardLess DEF Heeds
<1> QED  BY <1>1, <1>4, <1>5, <1>6, <1>7, <1>8, <1>9 DEF n, Unqueued

\* Otherwise it changes the entry of the process only.
LEMMA PsignalPosts ==
  ASSUME NEW t \in Table, NEW p \in Proc, NEW s \in Posted, ~StopsSleeper(t[p], s)
  PROVE  /\ Psignal(t, p, s) \in Table
         /\ Psignal(t, p, s)[p] = Post(t[p], s)
         /\ \A q \in Proc : q # p => Psignal(t, p, s)[q] = t[q]
         /\ \A q \in Proc : Stirred(t[q], Psignal(t, p, s)[q])
<1>t. \A q \in Proc : t[q] \in Entry
  BY DEF Table
<1>1. Psignal(t, p, s) = [t EXCEPT ![p] = Post(t[p], s)]
  BY DEF Psignal, Table
<1>2. Post(t[p], s) \in Entry /\ Stirred(t[p], Post(t[p], s))
  BY <1>t, PostMoves DEF Stirred, Shifted
<1>3. \A q \in Proc : Stirred(t[q], t[q])
  BY <1>t, StirredSelf
<1> QED  BY <1>1, <1>2, <1>3 DEF Table

\* The clock counts the seconds of a tsleep, and at the last one the process
\* is made ready or leaves the queue.
LEMMA TimeinFacts ==
  ASSUME NEW e \in Entry
  PROVE  /\ Timein(e) \in Entry
         /\ Timein(e).sig = e.sig /\ Timein(e).hi = e.hi /\ Timein(e).cursig = e.cursig
         /\ Timein(e).wted = e.wted /\ Timein(e).pptr = e.pptr /\ Timein(e).act = e.act
         /\ Timein(e).reset = e.reset /\ Moved(e, Timein(e))
         /\ Heeding(e, Timein(e))
         /\ e.tsl = 0 => Timein(e) = e
         /\ e.tsl > 1 => Timein(e).tsl = e.tsl - 1 /\ Timein(e).stimo = e.stimo
         /\ e.tsl = 1 => Timein(e).tsl = 0 /\ Timein(e).stimo = TRUE
<1>t. e.tsl \in 0..MaxSecs /\ MaxSecs \in Nat
  BY ProcAssumption DEF Entry
<1>1. CASE e.tsl = 0
  <2>1. Timein(e) = e
    BY <1>1 DEF Timein
  <2> QED  BY <1>1, <2>1 DEF Moved, Heeding
<1>2. CASE e.tsl > 1
  <2> DEFINE f == [e EXCEPT !.tsl = e.tsl - 1]
  <2>1. Timein(e) = f
    BY <1>2, <1>t DEF Timein
  <2>2. e.tsl - 1 \in 0..MaxSecs
    BY <1>2, <1>t
  <2>3. /\ f \in Entry /\ f.sig = e.sig /\ f.hi = e.hi /\ f.cursig = e.cursig
        /\ f.wted = e.wted /\ f.pptr = e.pptr /\ f.act = e.act /\ f.reset = e.reset
        /\ f.stat = e.stat /\ f.wchan = e.wchan /\ f.tsl = e.tsl - 1 /\ f.stimo = e.stimo
    BY <2>2 DEF Entry
  <2> HIDE DEF f
  <2>4. Heeding(e, f)
    BY <2>3, HeardLess DEF Heeding, Heeds, Going, Continued
  <2> QED  BY <1>2, <1>t, <2>1, <2>3, <2>4 DEF Moved
<1>3. CASE e.tsl = 1
  <2> DEFINE x == [e EXCEPT !.tsl = 0, !.stimo = TRUE]
  <2>1. Timein(e) = CASE e.stat = "SSLEEP" -> Setrun(x)
                      [] e.stat = "SSTOP" -> Unsleep(x)
                      [] OTHER -> x
    BY <1>3 DEF Timein
  <2>2. 0 \in 0..MaxSecs
    BY <1>t
  <2>3. /\ x \in Entry /\ x.sig = e.sig /\ x.hi = e.hi /\ x.cursig = e.cursig
        /\ x.wted = e.wted /\ x.pptr = e.pptr /\ x.act = e.act /\ x.reset = e.reset
        /\ x.stat = e.stat /\ x.wchan = e.wchan /\ x.tsl = 0 /\ x.stimo = TRUE
    BY <2>2 DEF Entry
  <2> HIDE DEF x
  <2>4. CASE e.stat = "SSLEEP"
    <3>1. Timein(e) = Setrun(x)
      BY <2>1, <2>4
    <3>2. Setrun(x) \in Entry /\ Same(x, Setrun(x)) /\ Setrun(x).stat = "SRUN"
          /\ Setrun(x).wchan = NoChan /\ Setrun(x).sig = x.sig
      BY <2>3, SetrunFacts
    <3>3. Heeding(e, Setrun(x))
      BY <2>3, <2>4, <3>2 DEF Heeding, Heeds, Going, Continued, Same
    <3> QED  BY <1>3, <2>3, <2>4, <3>1, <3>2, <3>3 DEF Moved, Same
  <2>5. CASE e.stat = "SSTOP"
    <3>1. Timein(e) = Unsleep(x)
      BY <2>1, <2>5
    <3>2. Unsleep(x) \in Entry /\ Same(x, Unsleep(x)) /\ Unsleep(x).stat = x.stat
          /\ Unsleep(x).wchan = NoChan /\ Unsleep(x).sig = x.sig
      BY <2>3, UnsleepFacts
    <3>3. Heeding(e, Unsleep(x))
      BY <2>3, <2>5, <3>2 DEF Heeding, Heeds, Going, Continued, Same
    <3> QED  BY <1>3, <2>3, <2>5, <3>1, <3>2, <3>3 DEF Moved, Same
  <2>6. CASE e.stat # "SSLEEP" /\ e.stat # "SSTOP"
    <3>1. Timein(e) = x
      BY <2>1, <2>6
    <3>2. Heeding(e, x)
      BY <2>3, HeardLess DEF Heeding, Heeds, Going, Continued
    <3> QED  BY <1>3, <2>3, <3>1, <3>2 DEF Moved
  <2> QED  BY <2>4, <2>5, <2>6
<1>4. e.tsl = 0 \/ e.tsl = 1 \/ e.tsl > 1
  BY <1>t
<1> QED  BY <1>1, <1>2, <1>3, <1>4

\* exit: a child goes to init; if it is stopped it is hung up and continued.
LEMMA OrphanFacts ==
  ASSUME NEW e \in Entry
  PROVE  /\ Orphan(e) \in Entry /\ Orphan(e).pptr = InitProc /\ Moved(e, Orphan(e))
         /\ Orphan(e).hi = e.hi /\ Orphan(e).cursig = e.cursig /\ Orphan(e).wted = e.wted
         /\ Orphan(e).stimo = e.stimo /\ Orphan(e).tsl = e.tsl /\ Orphan(e).act = e.act
         /\ Orphan(e).reset = e.reset /\ Heeding(e, Orphan(e))
<1> DEFINE o == [e EXCEPT !.pptr = InitProc]
           h == Post(o, SIGHUP)
           c == Post(h, SIGCONT)
           g == IF o.stat = "SSTOP" THEN c ELSE o
           f == [g EXCEPT !.sig = g.sig \ {SIGTSTP, SIGTTIN, SIGTTOU}]
<1>1. Orphan(e) = f
  BY DEF Orphan
<1>2. /\ o \in Entry /\ o.pptr = InitProc /\ o.hi = e.hi /\ o.cursig = e.cursig
      /\ o.wted = e.wted /\ o.stimo = e.stimo /\ o.tsl = e.tsl /\ o.act = e.act
      /\ o.reset = e.reset /\ o.stat = e.stat /\ o.wchan = e.wchan
      /\ o.sig = e.sig
  BY ProcAssumption DEF Entry
<1> HIDE DEF o
<1>3. Stirred(o, g)
  <2>1. Stirred(o, h)
    BY <1>2, PostMoves, PostedFacts
  <2>2. h \in Entry
    BY <2>1 DEF Stirred, Shifted
  <2> HIDE DEF h
  <2>3. Stirred(h, c)
    BY <2>2, PostMoves, PostedFacts
  <2> HIDE DEF c
  <2>4. Stirred(o, c)
    BY <2>1, <2>3, StirredTwice
  <2>5. Stirred(o, o)
    BY <1>2, StirredSelf
  <2> QED  BY <2>4, <2>5
<1>4. g \in Entry
  BY <1>3 DEF Stirred, Shifted
<1> HIDE DEF g
<1>5. /\ f \in Entry /\ f.pptr = g.pptr /\ f.hi = g.hi /\ f.cursig = g.cursig
      /\ f.wted = g.wted /\ f.stimo = g.stimo /\ f.tsl = g.tsl /\ f.act = g.act
      /\ f.reset = g.reset /\ f.stat = g.stat /\ f.wchan = g.wchan
      /\ f.sig = g.sig \ {SIGTSTP, SIGTTIN, SIGTTOU}
  BY <1>4 DEF Entry
<1> HIDE DEF f
<1>6. Heeding(e, o)
  BY <1>2, HeardLess DEF Heeding, Heeds, Going, Continued
<1>7. Heeding(g, f)
  <2>1. \A r \in {SIGKILL, SIGCONT, SIGSTOP} : r \in g.sig => r \in f.sig
    BY <1>5 DEF SIGKILL, SIGCONT, SIGSTOP, SIGTSTP, SIGTTIN, SIGTTOU
  <2> QED  BY <1>5, <2>1, HeardLess DEF Heeding, Heeds, Going, Continued
<1>8. Heeding(e, f)
  BY <1>3, <1>6, <1>7 DEF Stirred, Heeding
<1> QED  BY <1>1, <1>2, <1>3, <1>5, <1>8 DEF Stirred, Shifted, Same, Moved

-----------------------------------------------------------------------------
(* Where the processes are: queue, place in the kernel, seconds left       *)

Pcs == {"user", "trap", "scan", "wsleep", "sleep", "stop1", "stop2", "stopt",
        "fork", "exit", "exiting", "gone"}
InCall == {"sleep", "stop1", "stop2"}
Ks == {"none", "tsleep", "wait", "exit"}
Results == {"none", "TS_OK", "TS_TIME", "TS_SIG"}

\* An entry e of a process at place l, in the sleep of call k, with d seconds
\* of a tsleep to go.
Place(e, l, k, d) ==
  /\ e.wchan # NoChan => e.stat \in {"SSLEEP", "SSTOP"} /\ l \in {"sleep", "stop1"}
  /\ e.stat = "SSLEEP" => e.wchan # NoChan
  /\ e.stat = "SSTOP" => l \in {"sleep", "stop1", "stop2", "stopt"}
  /\ l = "gone" <=> e.stat \in {"NULL", "SIDL", "SZOMB"}
  /\ k # "none" <=> l \in InCall
  /\ k # "tsleep" => e.tsl = 0 /\ e.stimo = FALSE /\ d = Never
  /\ k = "tsleep" => /\ e.tsl > 0 => d = e.tsl /\ e.stimo = FALSE
                     /\ e.stimo = TRUE => d = 0
Orderly ==
  \A p \in Proc : /\ Place(proc[p], pc[p], call[p], due[p])
                  /\ cpu = p <=> pc[p] = "wsleep"
IInv == TypeOK /\ Orderly

\* The type invariant by parts.
LEMMA TypeFacts ==
  ASSUME TypeOK
  PROVE  /\ proc \in Table /\ pc \in [Proc -> Pcs] /\ call \in [Proc -> Ks]
         /\ res \in [Proc -> Results] /\ cpu \in Proc \cup {NoProc}
         /\ due \in [Proc -> 0..Never] /\ posts \in 0..MaxPosts /\ forks \in 0..MaxForks
         /\ \A p \in Proc : proc[p] \in Entry
BY DEF TypeOK, Table, Entry, Pcs, Ks, Results

\* And of the next state.
LEMMA TypeNext ==
  ASSUME proc' \in Table, pc' \in [Proc -> Pcs], call' \in [Proc -> Ks],
         res' \in [Proc -> Results], cpu' \in Proc \cup {NoProc},
         due' \in [Proc -> 0..Never], posts' \in 0..MaxPosts, forks' \in 0..MaxForks
  PROVE  TypeOK'
BY DEF TypeOK, Table, Entry, Pcs, Ks, Results

\* The seconds of a tsleep, and the mark that there are none.
LEMMA NeverFacts == Never \in 0..Never /\ MaxSecs \in Nat /\ 0..MaxSecs \subseteq 0..Never
                    /\ Never \in Nat /\ Never > MaxSecs
BY ProcAssumption DEF Never

\* A process that is awakened or sent a signal is still in its place.
LEMMA MovedPlace ==
  ASSUME NEW e, NEW f, NEW l, NEW k, NEW d, Place(e, l, k, d), Moved(e, f),
         f.tsl = e.tsl, f.stimo = e.stimo
  PROVE  Place(f, l, k, d)
BY DEF Place, Moved

\* A step of process p: the others are at most awakened or signalled.
LEMMA PlaceStep ==
  ASSUME IInv, NEW p \in Proc,
         proc' \in Table, pc' \in [Proc -> Pcs], call' \in [Proc -> Ks],
         res' \in [Proc -> Results], due' \in [Proc -> 0..Never],
         posts' \in 0..MaxPosts, forks' \in 0..MaxForks,
         \A q \in Proc : q # p =>
           /\ Moved(proc[q], proc'[q])
           /\ proc'[q].tsl = proc[q].tsl /\ proc'[q].stimo = proc[q].stimo
           /\ pc'[q] = pc[q] /\ call'[q] = call[q] /\ due'[q] = due[q],
         Place(proc'[p], pc'[p], call'[p], due'[p]),
         \/ cpu' = cpu /\ (pc'[p] = "wsleep" <=> pc[p] = "wsleep")
         \/ cpu = NoProc /\ pc'[p] = "wsleep" /\ cpu' = p
         \/ cpu = p /\ pc'[p] # "wsleep" /\ cpu' = NoProc
  PROVE  IInv'
<1>1. cpu' \in Proc \cup {NoProc}
  BY TypeFacts DEF IInv
<1>2. TypeOK'
  BY <1>1, TypeNext
<1>3. ASSUME NEW q \in Proc
      PROVE  Place(proc'[q], pc'[q], call'[q], due'[q])
  <2>1. CASE q = p
    BY <2>1
  <2>2. CASE q # p
    <3>1. Place(proc[q], pc[q], call[q], due[q])
      BY DEF IInv, Orderly
    <3> QED  BY <2>2, <3>1, MovedPlace
  <2> QED  BY <2>1, <2>2
<1>4. ASSUME NEW q \in Proc
      PROVE  cpu' = q <=> pc'[q] = "wsleep"
  <2>1. (cpu = q <=> pc[q] = "wsleep") /\ (cpu = p <=> pc[p] = "wsleep") /\ NoProc \notin Proc
    BY ProcAssumption DEF IInv, Orderly
  <2> QED  BY <2>1
<1> QED  BY <1>2, <1>3, <1>4 DEF IInv, Orderly

\* A process that runs is on no queue, and outside a sleep no second is counted.
LEMMA RunsFacts ==
  ASSUME IInv, NEW p \in Proc, proc[p].stat = "SRUN"
  PROVE  /\ proc[p] \in Entry /\ proc[p].wchan = NoChan /\ pc[p] # "gone"
         /\ call[p] # "none" <=> pc[p] \in InCall
         /\ call[p] # "tsleep" => proc[p].tsl = 0 /\ proc[p].stimo = FALSE /\ due[p] = Never
         /\ Runs(p) => pc[p] # "wsleep"
<1>1. proc[p] \in Entry /\ Place(proc[p], pc[p], call[p], due[p]) /\ (cpu = p <=> pc[p] = "wsleep")
  BY TypeFacts DEF IInv, Orderly
<1> QED  BY <1>1, ProcAssumption DEF Place, Runs

\* psig: the process goes back to the user with the signal caught, or exits.
LEMMA PsigFacts ==
  ASSUME NEW t \in Table, NEW p \in Proc, t[p].cursig # NoSig, Psig(t, p)
  PROVE  /\ proc' \in Table /\ Others(t, p) /\ call' = call /\ res' = res
         /\ proc'[p].stat = t[p].stat /\ proc'[p].wchan = t[p].wchan
         /\ proc'[p].hi = t[p].hi /\ proc'[p].wted = t[p].wted
         /\ proc'[p].stimo = t[p].stimo /\ proc'[p].tsl = t[p].tsl
         /\ proc'[p].pptr = t[p].pptr /\ proc'[p].sig = t[p].sig
         /\ \/ /\ Usignal(t[p], t[p].cursig) = "CATCH" /\ proc'[p].cursig = NoSig
               /\ proc'[p].act = t[p].act /\ pc' = [pc EXCEPT ![p] = "user"]
            \/ /\ Usignal(t[p], t[p].cursig) # "CATCH" /\ proc'[p].cursig = t[p].cursig
               /\ pc' = [pc EXCEPT ![p] = "exit"]
<1>t. t[p] \in Entry
  BY DEF Table
<1>1. CASE Usignal(t[p], t[p].cursig) = "CATCH"
  <2> DEFINE f == [t[p] EXCEPT !.cursig = NoSig,
                               !.reset = t[p].reset \cup ({t[p].cursig} \ Kept)]
  <2>1. proc' = [t EXCEPT ![p] = f] /\ pc' = [pc EXCEPT ![p] = "user"] /\ call' = call /\ res' = res
    BY <1>1, <1>t DEF Psig, Table, Entry
  <2>2. t[p].cursig \in Signals
    BY <1>t DEF Entry
  <2>3. /\ f \in Entry /\ f.stat = t[p].stat /\ f.wchan = t[p].wchan /\ f.hi = t[p].hi
        /\ f.wted = t[p].wted /\ f.stimo = t[p].stimo /\ f.tsl = t[p].tsl
        /\ f.pptr = t[p].pptr /\ f.sig = t[p].sig /\ f.cursig = NoSig /\ f.act = t[p].act
    BY <2>2, <1>t DEF Entry
  <2> HIDE DEF f
  <2> QED  BY <1>1, <2>1, <2>3 DEF Table, Others
<1>2. CASE Usignal(t[p], t[p].cursig) # "CATCH"
  <2> DEFINE f == Deaf(t[p])
  <2>1. proc' = [t EXCEPT ![p] = f] /\ pc' = [pc EXCEPT ![p] = "exit"] /\ call' = call /\ res' = res
    BY <1>2, <1>t DEF Psig, Table, Entry
  <2>2. /\ f \in Entry /\ f.stat = t[p].stat /\ f.wchan = t[p].wchan /\ f.hi = t[p].hi
        /\ f.wted = t[p].wted /\ f.stimo = t[p].stimo /\ f.tsl = t[p].tsl
        /\ f.pptr = t[p].pptr /\ f.sig = t[p].sig /\ f.cursig = t[p].cursig
    BY <1>t DEF Entry, Deaf, Actions
  <2> HIDE DEF f
  <2> QED  BY <1>2, <2>1, <2>2 DEF Table, Others
<1> QED  BY <1>1, <1>2

-----------------------------------------------------------------------------
(* Every action keeps the processes in their places                        *)

\* Every process starts where its state says.
LEMMA InitPlaces == Init => IInv
<1> SUFFICES ASSUME Init PROVE IInv
  OBVIOUS
<1>1. \A p \in Proc :
        /\ proc[p] \in Entry
        /\ proc[p].stat = CASE p = InitProc -> "SSLEEP"
                            [] p # InitProc /\ Parent0[p] # NoProc -> "SRUN"
                            [] OTHER -> "NULL"
        /\ proc[p].wchan = IF p = InitProc THEN p ELSE NoChan
        /\ proc[p].tsl = 0 /\ proc[p].stimo = FALSE
  <2> TAKE p \in Proc
  <2>1. /\ Parent0[p] \in Proc \cup {NoProc} /\ Act0[p] \in [Signals -> Actions]
        /\ 0 \in 0..MaxSecs
    BY ProcAssumption
  <2> DEFINE st == CASE p = InitProc -> "SSLEEP"
                     [] p # InitProc /\ Parent0[p] # NoProc -> "SRUN"
                     [] OTHER -> "NULL"
  <2>2. st \in Stat
    BY DEF Stat
  <2> HIDE DEF st
  <2>3. proc[p] = [stat |-> st, wchan |-> IF p = InitProc THEN p ELSE NoChan,
                   hi |-> p = InitProc, sig |-> {}, cursig |-> NoSig, wted |-> FALSE,
                   stimo |-> FALSE, tsl |-> 0, pptr |-> Parent0[p], act |-> Act0[p],
                   reset |-> {}]
    BY DEF Init, st
  <2>4. proc[p] \in Entry
    BY <2>1, <2>2, <2>3 DEF Entry
  <2>5. proc[p].stat = st /\ proc[p].wchan = (IF p = InitProc THEN p ELSE NoChan)
        /\ proc[p].tsl = 0 /\ proc[p].stimo = FALSE
    BY <2>3
  <2> QED  BY <2>4, <2>5 DEF st
<1>2. \A p \in Proc : /\ call[p] = IF p = InitProc THEN "wait" ELSE "none"
                      /\ pc[p] = CASE p = InitProc -> "sleep"
                                   [] p # InitProc /\ Parent0[p] # NoProc -> "user"
                                   [] OTHER -> "gone"
                      /\ due[p] = Never
  BY DEF Init
<1>3. TypeOK
  <2>1. proc \in Table
    <3>1. proc = [p \in Proc |-> proc[p]]
      BY DEF Init
    <3> QED  BY <1>1, <3>1 DEF Table
  <2>2. pc \in [Proc -> Pcs]
    <3>1. \A p \in Proc : pc[p] \in Pcs
      BY <1>2 DEF Pcs
    <3>2. pc = [p \in Proc |-> pc[p]]
      BY DEF Init
    <3> QED  BY <3>1, <3>2
  <2>3. call \in [Proc -> Ks] /\ res \in [Proc -> Results] /\ due \in [Proc -> 0..Never]
    BY NeverFacts DEF Init, Ks, Results
  <2>4. cpu \in Proc \cup {NoProc} /\ posts \in 0..MaxPosts /\ forks \in 0..MaxForks
    BY ProcAssumption DEF Init
  <2> QED  BY <2>1, <2>2, <2>3, <2>4 DEF TypeOK, Table, Entry, Pcs, Ks, Results
<1>4. ASSUME NEW p \in Proc
      PROVE  Place(proc[p], pc[p], call[p], due[p]) /\ (cpu = p <=> pc[p] = "wsleep")
  <2>0. cpu = NoProc /\ NoProc \notin Proc /\ NoChan \notin Proc
    BY ProcAssumption DEF Init
  <2>1. CASE p = InitProc
    <3>1. proc[p].stat = "SSLEEP" /\ pc[p] = "sleep" /\ proc[p].wchan = p
      BY <1>1, <1>2, <2>1
    <3> QED  BY <1>1, <1>2, <2>0, <2>1, <3>1 DEF Place, InCall
  <2>2. CASE p # InitProc /\ Parent0[p] # NoProc
    <3>1. proc[p].stat = "SRUN" /\ pc[p] = "user" /\ proc[p].wchan = NoChan
      BY <1>1, <1>2, <2>2
    <3> QED  BY <1>1, <1>2, <2>0, <2>2, <3>1 DEF Place, InCall
  <2>3. CASE p # InitProc /\ Parent0[p] = NoProc
    <3>1. proc[p].stat = "NULL" /\ pc[p] = "gone" /\ proc[p].wchan = NoChan
      BY <1>1, <1>2, <2>3
    <3> QED  BY <1>1, <1>2, <2>0, <2>3, <3>1 DEF Place, InCall
  <2> QED  BY <2>1, <2>2, <2>3
<1> QED  BY <1>3, <1>4 DEF IInv, Orderly

\* Others that are not touched at all.
LEMMA OthersMoved ==
  ASSUME NEW t \in Table, NEW p, Others(t, p)
  PROVE  \A q \in Proc : q # p => /\ Moved(t[q], proc'[q])
                                  /\ proc'[q].tsl = t[q].tsl /\ proc'[q].stimo = t[q].stimo
BY DEF Others, Moved

\* What holds of the table t when p has begun to sleep, or has not slept at all.
Begun(t, p) ==
  /\ proc' \in Table /\ pc' \in [Proc -> Pcs] /\ call' \in [Proc -> Ks]
  /\ res' \in [Proc -> Results] /\ due' \in [Proc -> 0..Never]
  /\ pc'[p] \in {"sleep", "stop1", "trap"}
  /\ \A q \in Proc : q # p =>
       /\ Moved(t[q], proc'[q])
       /\ proc'[q].tsl = t[q].tsl /\ proc'[q].stimo = t[q].stimo
       /\ pc'[q] = pc[q] /\ call'[q] = call[q] /\ due'[q] = due[q]
  /\ Place(proc'[p], pc'[p], call'[p], due'[p])

\* Only a tsleep has a time.
Timed(t, p, k) ==
  /\ k # "tsleep" => t[p].tsl = 0 /\ due[p] = Never /\ due' = due
  /\ k = "tsleep" => (call'[p] # "none" =>
                        due' = [due EXCEPT ![p] = IF t[p].tsl = 0 THEN Never ELSE t[p].tsl])

\* A sleep that begins.  The process is in its place whichever way it ends.
LEMMA SleepPlace ==
  ASSUME TypeOK, NEW t \in Table, NEW p \in Proc, NEW c \in Chan \cup Proc,
         NEW hi \in BOOLEAN, NEW k \in Ks \ {"none"},
         Sleep(t, p, c, hi, k), t[p].stat = "SRUN", t[p].stimo = FALSE, Timed(t, p, k)
  PROVE  Begun(t, p)
<1> USE DEF Begun, Timed
<1>t. /\ pc \in [Proc -> Pcs] /\ call \in [Proc -> Ks] /\ res \in [Proc -> Results]
      /\ due \in [Proc -> 0..Never] /\ t[p] \in Entry /\ t[p].tsl \in 0..MaxSecs
  BY TypeFacts DEF Table, Entry
<1>c. c # NoChan
  BY ProcAssumption
<1>1. PICK b \in Entry :
        /\ proc' \in Table
        /\ b.wchan = c /\ b.hi = hi /\ b.stat = t[p].stat /\ b.wted = t[p].wted
        /\ b.stimo = t[p].stimo /\ b.tsl = t[p].tsl /\ b.cursig = t[p].cursig
        /\ Alike(t[p], b)
        /\ \/ Slept(t, b, p, k)
           \/ hi /\ Stopped(t, b, p, "stop1", k)
           \/ hi /\ Broken(t, b, p, k)
  BY SleepFacts
<1>2. CASE Slept(t, b, p, k)
  <2>1. pc' = [pc EXCEPT ![p] = "sleep"] /\ call' = [call EXCEPT ![p] = k] /\ res' = res
        /\ Others(t, p)
    BY <1>2 DEF Slept, Onto
  <2>2. pc'[p] = "sleep" /\ call'[p] = k
    BY <1>t, <2>1
  <2>3. /\ due' \in [Proc -> 0..Never] /\ \A q \in Proc : q # p => due'[q] = due[q]
        /\ k = "tsleep" => due'[p] = (IF t[p].tsl = 0 THEN Never ELSE t[p].tsl)
        /\ k # "tsleep" => due'[p] = Never
    BY <1>t, <2>2, NeverFacts
  <2>4. Place(proc'[p], pc'[p], call'[p], due'[p])
    <3>1. proc'[p].stat = "SSLEEP" /\ proc'[p].wchan = c /\ proc'[p].stimo = FALSE
          /\ proc'[p].tsl = t[p].tsl
      BY <1>1, <1>2 DEF Slept
    <3> QED  BY <1>c, <1>t, <2>2, <2>3, <3>1 DEF Place, InCall
  <2>5. pc' \in [Proc -> Pcs] /\ call' \in [Proc -> Ks]
        /\ \A q \in Proc : q # p => pc'[q] = pc[q] /\ call'[q] = call[q]
    BY <1>t, <2>1 DEF Pcs
  <2> QED  BY <1>1, <1>t, <2>1, <2>2, <2>3, <2>4, <2>5, OthersMoved
<1>3. CASE Stopped(t, b, p, "stop1", k)
  <2>1. pc' = [pc EXCEPT ![p] = "stop1"] /\ call' = [call EXCEPT ![p] = k] /\ res' = res
        /\ \A q \in Proc : q # p => Stirred(t[q], proc'[q])
    BY <1>3 DEF Stopped, Onto
  <2>2. pc'[p] = "stop1" /\ call'[p] = k
    BY <1>t, <2>1
  <2>3. /\ due' \in [Proc -> 0..Never] /\ \A q \in Proc : q # p => due'[q] = due[q]
        /\ k = "tsleep" => due'[p] = (IF t[p].tsl = 0 THEN Never ELSE t[p].tsl)
        /\ k # "tsleep" => due'[p] = Never
    BY <1>t, <2>2, NeverFacts
  <2>4. Place(proc'[p], pc'[p], call'[p], due'[p])
    <3>1. proc'[p].stat = "SSTOP" /\ proc'[p].stimo = FALSE /\ proc'[p].tsl = t[p].tsl
      BY <1>1, <1>3 DEF Stopped, Halted
    <3> QED  BY <1>t, <2>2, <2>3, <3>1 DEF Place, InCall
  <2>5. pc' \in [Proc -> Pcs] /\ call' \in [Proc -> Ks]
        /\ \A q \in Proc : q # p => pc'[q] = pc[q] /\ call'[q] = call[q]
    BY <1>t, <2>1 DEF Pcs
  <2>6. \A q \in Proc : q # p => /\ Moved(t[q], proc'[q])
                                 /\ proc'[q].tsl = t[q].tsl /\ proc'[q].stimo = t[q].stimo
    BY <2>1 DEF Stirred, Shifted, Same
  <2> QED  BY <1>1, <1>t, <2>1, <2>2, <2>3, <2>4, <2>5, <2>6
<1>4. CASE Broken(t, b, p, k)
  <2>1. pc' = [pc EXCEPT ![p] = "trap"] /\ call' = [call EXCEPT ![p] = "none"]
        /\ Result(p, k, "TS_SIG") /\ Others(t, p)
    BY <1>4 DEF Broken, Onto
  <2>2. pc'[p] = "trap" /\ call'[p] = "none"
    BY <1>t, <2>1
  <2>3. /\ due' \in [Proc -> 0..Never] /\ \A q \in Proc : q # p => due'[q] = due[q]
        /\ due'[p] = Never /\ res' \in [Proc -> Results]
    BY <1>t, <2>1, NeverFacts DEF Result, Results
  <2>4. Place(proc'[p], pc'[p], call'[p], due'[p])
    <3>1. proc'[p].stat = "SRUN" /\ proc'[p].wchan = NoChan /\ proc'[p].tsl = 0
          /\ proc'[p].stimo = FALSE
      BY <1>1, <1>4 DEF Broken
    <3> QED  BY <2>2, <2>3, <3>1 DEF Place, InCall
  <2>5. pc' \in [Proc -> Pcs] /\ call' \in [Proc -> Ks]
        /\ \A q \in Proc : q # p => pc'[q] = pc[q] /\ call'[q] = call[q]
    BY <1>t, <2>1 DEF Pcs, Ks
  <2> QED  BY <1>1, <1>t, <2>1, <2>2, <2>3, <2>4, <2>5, OthersMoved
<1> QED  BY <1>1, <1>2, <1>3, <1>4

\* tsleep sets its seconds and sleeps.
LEMMA TsleepPlace ==
  ASSUME IInv, NEW p \in Proc, NEW c \in Chan, NEW s \in 0..MaxSecs, Tsleep(p, c, s)
  PROVE  IInv'
<1>1. proc[p].stat = "SRUN" /\ pc[p] = "user" /\ Runs(p)
  BY DEF Tsleep, Runs
<1>2. proc[p] \in Entry /\ proc[p].stimo = FALSE /\ TypeOK
  BY <1>1, RunsFacts DEF IInv, InCall
<1>3. PICK t : t = [proc EXCEPT ![p].tsl = s]
  OBVIOUS
<1>4. /\ t \in Table /\ t[p].stat = "SRUN" /\ t[p].stimo = FALSE /\ t[p].tsl = s
      /\ \A q \in Proc : q # p => t[q] = proc[q]
  <2> DEFINE f == [proc[p] EXCEPT !.tsl = s]
  <2>1. f \in Entry /\ f.stat = proc[p].stat /\ f.stimo = proc[p].stimo /\ f.tsl = s
    BY <1>2 DEF Entry
  <2>2. t = [proc EXCEPT ![p] = f]
    BY <1>3
  <2>3. proc \in Table
    BY <1>2, TypeFacts
  <2> HIDE DEF f
  <2> QED  BY <1>1, <1>2, <2>1, <2>2, <2>3 DEF Table
<1>5. Sleep(t, p, c, c \in Terminals, "tsleep")
  BY <1>3 DEF Tsleep
<1>6. PICK hi \in BOOLEAN : hi = (c \in Terminals)
  <2>1. (c \in Terminals) = TRUE \/ (c \in Terminals) = FALSE
    OBVIOUS
  <2> QED  BY <2>1, Zenon
<1>7. Sleep(t, p, c, hi, "tsleep")
  BY <1>5, <1>6
<1>8. call'[p] # "none" => due' = [due EXCEPT ![p] = IF t[p].tsl = 0 THEN Never ELSE t[p].tsl]
  BY <1>4 DEF Tsleep
<1>9. Begun(t, p)
  <2>1. PICK k \in Ks \ {"none"} : k = "tsleep"
    BY DEF Ks
  <2>2. c \in Chan \cup Proc
    OBVIOUS
  <2>3. Timed(t, p, k)
    BY <1>8, <2>1 DEF Timed
  <2>5. Sleep(t, p, c, hi, k)
    BY <1>7, <2>1
  <2>6. TypeOK /\ t \in Table /\ t[p].stat = "SRUN" /\ t[p].stimo = FALSE
    BY <1>2, <1>4
  <2> QED  BY <2>2, <2>3, <2>5, <2>6, SleepPlace, ZenonT(60)
<1>10. cpu' = cpu /\ posts' = posts /\ forks' = forks
  BY DEF Tsleep, bounds
<1>11. posts' \in 0..MaxPosts /\ forks' \in 0..MaxForks
  BY <1>2, <1>10, TypeFacts
<1> QED  BY <1>1, <1>4, <1>9, <1>10, <1>11, PlaceStep DEF Begun

\* The table as it is when the process looks at its signals again: p_cursig
\* may have been cleared.
Looks(t, p) ==
  /\ t \in Table /\ \A q \in Proc : q # p => t[q] = proc[q]
  /\ Picked(proc[p], t[p]) /\ Alike(proc[p], t[p])

\* After swtch a sleep returns, the process stops again, or a signal ends it.
LEMMA ResumeFacts ==
  ASSUME TypeOK, NEW p \in Proc, Resume(p)
  PROVE  \/ ~proc[p].hi /\ Returns(proc, p, call[p])
         \/ /\ proc[p].hi
            /\ \E t \in Table :
                 /\ Looks(t, p)
                 /\ t[p].cursig = IF pc[p] = "sleep" \/ Pending(proc[p]) # {}
                                    THEN proc[p].cursig ELSE NoSig
                 /\ \/ Issig(t[p]) = "none" /\ Returns(Looked(t, p), p, call[p])
                    \/ /\ Stopped(t, t[p], p, IF pc[p] = "sleep" THEN "stop2" ELSE pc[p], call[p])
                       /\ proc' \in Table /\ due' = due
                    \/ Broken(t, t[p], p, call[p]) /\ proc' \in Table
<1>t. proc \in Table /\ proc[p] \in Entry
  BY TypeFacts
<1> DEFINE in == IF pc[p] = "sleep" \/ Pending(proc[p]) # {} THEN proc
                 ELSE [proc EXCEPT ![p].cursig = NoSig]
<1>1. CASE ~proc[p].hi
  BY <1>1 DEF Resume
<1>2. CASE proc[p].hi
  <2>1. /\ Looks(in, p)
        /\ in[p].cursig = IF pc[p] = "sleep" \/ Pending(proc[p]) # {}
                            THEN proc[p].cursig ELSE NoSig
    <3>1. CASE pc[p] = "sleep" \/ Pending(proc[p]) # {}
      BY <1>t, <3>1 DEF Looks, Picked, Alike
    <3>2. CASE ~(pc[p] = "sleep" \/ Pending(proc[p]) # {})
      <4> DEFINE f == [proc[p] EXCEPT !.cursig = NoSig]
      <4>1. Picked(proc[p], f) /\ Alike(proc[p], f) /\ f.cursig = NoSig
        BY <1>t DEF Entry, Picked, Alike
      <4>2. in = [proc EXCEPT ![p] = f]
        BY <3>2, <1>t DEF Table
      <4> HIDE DEF f, in
      <4>3. in \in Table /\ in[p] = f /\ \A q \in Proc : q # p => in[q] = proc[q]
        BY <1>t, <4>1, <4>2 DEF Table, Picked
      <4> QED  BY <3>2, <4>1, <4>3 DEF Looks
    <3> QED  BY <3>1, <3>2
  <2>2. Issig(in[p]) = Issig(proc[p]) /\ in \in Table
    BY <2>1, LooksAlike DEF Looks
  <2>3. \/ Issig(proc[p]) = "none" /\ Returns(Looked(in, p), p, call[p])
        \/ /\ Issig(proc[p]) = "stop" /\ due' = due
           /\ Stays(Looked(in, p), p, IF pc[p] = "sleep" THEN "stop2" ELSE pc[p], call[p])
        \/ Issig(proc[p]) = "send" /\ Interrupted(Looked(in, p), p, call[p])
    BY <1>2, IssigFacts DEF Resume
  <2> HIDE DEF in
  <2> DEFINE l == IF pc[p] = "sleep" THEN "stop2" ELSE pc[p]
  <2>4. CASE Issig(proc[p]) = "none" /\ Returns(Looked(in, p), p, call[p])
    BY <1>2, <2>1, <2>2, <2>4
  <2>5. CASE Issig(proc[p]) = "stop" /\ due' = due /\ Stays(Looked(in, p), p, l, call[p])
    <3>1. proc' = Looked(in, p) /\ Onto(p, l, call[p]) /\ res' = res
      BY <2>5 DEF Stays, Onto
    <3>2. /\ proc' \in Table
          /\ \A q \in Proc : q # p => Stirred(in[q], proc'[q])
          /\ Halted(in[p], Left(in[p]), proc'[p])
          /\ proc'[p].cursig = Taken(in[p])
          /\ \A q \in Proc : q = in[p].pptr => proc'[q].wchan # q
      BY <2>2, <2>5, <3>1, LookedStop
    <3>3. Stopped(in, in[p], p, l, call[p])
      BY <2>2, <2>5, <3>1, <3>2 DEF Stopped
    <3> QED  BY <1>2, <2>1, <2>2, <2>5, <3>2, <3>3
  <2>6. CASE Issig(proc[p]) = "send" /\ Interrupted(Looked(in, p), p, call[p])
    <3>1. proc' \in Table /\ Broken(in, in[p], p, call[p])
      BY <2>2, <2>6, InterruptedFacts
    <3> QED  BY <1>2, <2>1, <2>2, <3>1
  <2> QED  BY <2>3, <2>4, <2>5, <2>6
<1> QED  BY <1>1, <1>2

\* A sleep returns to its call.
LEMMA ReturnsPlace ==
  ASSUME IInv, NEW p \in Proc, NEW t \in Table, Returns(t, p, call[p]),
         \A q \in Proc : q # p => t[q] = proc[q],
         t[p].stat = "SRUN", t[p].wchan = NoChan,
         t[p].tsl = proc[p].tsl, t[p].stimo = proc[p].stimo,
         cpu' = cpu, posts' = posts, forks' = forks, pc[p] \in InCall
  PROVE  IInv'
<1>t. /\ pc \in [Proc -> Pcs] /\ call \in [Proc -> Ks] /\ res \in [Proc -> Results]
      /\ due \in [Proc -> 0..Never] /\ TypeOK
      /\ posts \in 0..MaxPosts /\ forks \in 0..MaxForks
  BY TypeFacts DEF IInv
<1>1. /\ proc' \in Table /\ Others(t, p) /\ Ended(t[p], proc'[p], call[p])
  BY EndTsleepFacts DEF Returns, Others
<1> DEFINE l == CASE call[p] = "wait" -> "scan"
                  [] call[p] = "exit" -> "exiting"
                  [] OTHER -> "trap"
           r == IF t[p].stimo THEN "TS_TIME" ELSE "TS_OK"
<1>2. l \in {"scan", "exiting", "trap"} /\ r \in Results
  BY DEF Results
<1>3. pc' = [pc EXCEPT ![p] = l] /\ call' = [call EXCEPT ![p] = "none"] /\ Result(p, call[p], r)
  BY DEF Returns
<1> HIDE DEF l, r
<1>4. pc'[p] = l /\ call'[p] = "none" /\ pc' \in [Proc -> Pcs] /\ call' \in [Proc -> Ks]
      /\ \A q \in Proc : q # p => pc'[q] = pc[q] /\ call'[q] = call[q]
  BY <1>t, <1>2, <1>3 DEF Pcs, Ks
<1>5. Place(proc[p], pc[p], call[p], due[p])
  BY DEF IInv, Orderly
<1>6. /\ due' \in [Proc -> 0..Never] /\ res' \in [Proc -> Results] /\ due'[p] = Never
      /\ \A q \in Proc : q # p => due'[q] = due[q]
  <2>1. CASE call[p] = "tsleep"
    BY <1>t, <1>2, <1>3, <2>1, NeverFacts DEF Result
  <2>2. CASE call[p] # "tsleep"
    BY <1>t, <1>2, <1>3, <1>5, <2>2 DEF Result, Place
  <2> QED  BY <2>1, <2>2
<1>7. proc'[p].stat = "SRUN" /\ proc'[p].wchan = NoChan /\ proc'[p].tsl = 0
      /\ proc'[p].stimo = FALSE
  BY <1>1, <1>5 DEF Ended, Place
<1>8. Place(proc'[p], pc'[p], call'[p], due'[p])
  BY <1>2, <1>4, <1>6, <1>7 DEF Place, InCall
<1>9. pc'[p] # "wsleep" /\ pc[p] # "wsleep"
  BY <1>2, <1>4 DEF InCall
<1> QED  BY <1>1, <1>4, <1>6, <1>8, <1>9, <1>t, OthersMoved, PlaceStep

\* A sleep goes on after swtch.
LEMMA ResumePlace ==
  ASSUME IInv, NEW p \in Proc, Resume(p)
  PROVE  IInv'
<1>t. /\ pc \in [Proc -> Pcs] /\ call \in [Proc -> Ks] /\ res \in [Proc -> Results]
      /\ due \in [Proc -> 0..Never] /\ TypeOK /\ proc \in Table
      /\ posts \in 0..MaxPosts /\ forks \in 0..MaxForks
  BY TypeFacts DEF IInv
<1>0. /\ cpu' = cpu /\ posts' = posts /\ forks' = forks
      /\ Runs(p) /\ proc[p].stat = "SRUN" /\ pc[p] \in InCall
  BY DEF Resume, bounds, Runs, InCall
<1>1. /\ proc[p] \in Entry /\ proc[p].wchan = NoChan /\ call[p] # "none"
      /\ call[p] # "tsleep" => proc[p].tsl = 0 /\ proc[p].stimo = FALSE /\ due[p] = Never
      /\ pc[p] # "wsleep"
  BY <1>0, RunsFacts
<1>2. CASE Returns(proc, p, call[p])
  BY <1>0, <1>1, <1>2, <1>t, ReturnsPlace
<1>3. ASSUME NEW t \in Table, Looks(t, p), Issig(t[p]) = "none",
             Returns(Looked(t, p), p, call[p])
      PROVE  IInv'
  <2>1. PICK u : u = Looked(t, p)
    OBVIOUS
  <2>2. /\ u \in Table /\ \A q \in Proc : q # p => u[q] = proc[q]
        /\ Picked(t[p], u[p])
    BY <1>3, <2>1, LookedNone DEF Looks
  <2>3. /\ u[p].stat = "SRUN" /\ u[p].wchan = NoChan /\ u[p].tsl = proc[p].tsl
        /\ u[p].stimo = proc[p].stimo
    BY <1>0, <1>1, <1>3, <2>2 DEF Looks, Picked
  <2>4. Returns(u, p, call[p])
    BY <1>3, <2>1
  <2> QED  BY <1>0, <2>2, <2>3, <2>4, ReturnsPlace
<1>4. ASSUME NEW t \in Table, Looks(t, p), proc' \in Table, due' = due,
             Stopped(t, t[p], p, IF pc[p] = "sleep" THEN "stop2" ELSE pc[p], call[p])
      PROVE  IInv'
  <2> DEFINE l == IF pc[p] = "sleep" THEN "stop2" ELSE pc[p]
  <2>1. pc' = [pc EXCEPT ![p] = l] /\ call' = [call EXCEPT ![p] = call[p]] /\ res' = res
        /\ \A q \in Proc : q # p => Stirred(t[q], proc'[q])
    BY <1>4 DEF Stopped, Onto
  <2>2. l \in {"stop1", "stop2"}
    BY <1>0 DEF InCall
  <2> HIDE DEF l
  <2>3. pc'[p] = l /\ call' = call /\ pc' \in [Proc -> Pcs]
        /\ \A q \in Proc : q # p => pc'[q] = pc[q]
    BY <1>t, <2>1, <2>2 DEF Pcs
  <2>4. Place(proc'[p], pc'[p], call'[p], due'[p])
    <3>1. Place(proc[p], pc[p], call[p], due[p])
      BY DEF IInv, Orderly
    <3>2. proc'[p].stat = "SSTOP" /\ proc'[p].wchan = NoChan /\ proc'[p].tsl = proc[p].tsl
          /\ proc'[p].stimo = proc[p].stimo
      BY <1>1, <1>4 DEF Stopped, Halted, Looks, Picked
    <3> QED  BY <1>0, <1>1, <1>4, <2>2, <2>3, <3>1, <3>2 DEF Place, InCall
  <2>5. \A q \in Proc : q # p => /\ Moved(proc[q], proc'[q])
                                 /\ proc'[q].tsl = proc[q].tsl /\ proc'[q].stimo = proc[q].stimo
    BY <1>4, <2>1 DEF Stirred, Shifted, Same, Looks
  <2>6. pc'[p] # "wsleep"
    BY <2>2, <2>3
  <2> QED  BY <1>0, <1>1, <1>4, <1>t, <2>1, <2>3, <2>4, <2>5, <2>6, PlaceStep
<1>5. ASSUME NEW t \in Table, Looks(t, p), proc' \in Table, Broken(t, t[p], p, call[p])
      PROVE  IInv'
  <2>1. pc' = [pc EXCEPT ![p] = "trap"] /\ call' = [call EXCEPT ![p] = "none"]
        /\ Result(p, call[p], "TS_SIG") /\ Others(t, p)
    BY <1>5 DEF Broken, Onto
  <2>2. pc'[p] = "trap" /\ call'[p] = "none" /\ pc' \in [Proc -> Pcs] /\ call' \in [Proc -> Ks]
        /\ \A q \in Proc : q # p => pc'[q] = pc[q] /\ call'[q] = call[q]
    BY <1>t, <2>1 DEF Pcs, Ks
  <2>3. /\ due' \in [Proc -> 0..Never] /\ res' \in [Proc -> Results] /\ due'[p] = Never
        /\ \A q \in Proc : q # p => due'[q] = due[q]
    <3>1. CASE call[p] = "tsleep"
      BY <1>t, <2>1, <3>1, NeverFacts DEF Result, Results
    <3>2. CASE call[p] # "tsleep"
      BY <1>1, <1>t, <2>1, <3>2 DEF Result
    <3> QED  BY <3>1, <3>2
  <2>4. Place(proc'[p], pc'[p], call'[p], due'[p])
    <3>1. proc'[p].stat = "SRUN" /\ proc'[p].wchan = NoChan /\ proc'[p].tsl = 0
          /\ proc'[p].stimo = FALSE
      BY <1>0, <1>1, <1>5 DEF Broken, Looks, Picked
    <3> QED  BY <2>2, <2>3, <3>1 DEF Place, InCall
  <2>5. \A q \in Proc : q # p => /\ Moved(proc[q], proc'[q])
                                 /\ proc'[q].tsl = proc[q].tsl /\ proc'[q].stimo = proc[q].stimo
    BY <1>5, <2>1, OthersMoved DEF Looks
  <2> QED  BY <1>0, <1>1, <1>5, <1>t, <2>2, <2>3, <2>4, <2>5, PlaceStep
<1> QED  BY <1>t, <1>2, <1>3, <1>4, <1>5, ResumeFacts

\* The end of a system call: psig, another look at the signals, a stop.
LEMMA TrapFacts ==
  ASSUME TypeOK, NEW p \in Proc, Trap(p)
  PROVE  \E t \in Table :
           /\ Looks(t, p)
           /\ t[p].cursig = IF pc[p] = "stopt" THEN NoSig ELSE proc[p].cursig
           /\ \/ t[p].cursig # NoSig /\ Psig(t, p)
              \/ /\ t[p].cursig = NoSig /\ Issig(t[p]) = "none"
                 /\ proc' = Looked(t, p) /\ Onto(p, "user", "none") /\ res' = res
              \/ /\ t[p].cursig = NoSig /\ Stopped(t, t[p], p, "stopt", "none")
                 /\ proc' \in Table
              \/ /\ t[p].cursig = NoSig /\ Issig(t[p]) = "send" /\ Psig(Looked(t, p), p)
<1>t. proc \in Table /\ proc[p] \in Entry
  BY TypeFacts
<1> DEFINE in == IF pc[p] = "stopt" THEN [proc EXCEPT ![p].cursig = NoSig] ELSE proc
<1>1. /\ Looks(in, p)
      /\ in[p].cursig = IF pc[p] = "stopt" THEN NoSig ELSE proc[p].cursig
  <2>1. CASE pc[p] # "stopt"
    BY <1>t, <2>1 DEF Looks, Picked, Alike
  <2>2. CASE pc[p] = "stopt"
    <3> DEFINE f == [proc[p] EXCEPT !.cursig = NoSig]
    <3>1. Picked(proc[p], f) /\ Alike(proc[p], f) /\ f.cursig = NoSig
      BY <1>t DEF Entry, Picked, Alike
    <3>2. in = [proc EXCEPT ![p] = f]
      BY <2>2, <1>t DEF Table
    <3> HIDE DEF f, in
    <3>3. in \in Table /\ in[p] = f /\ \A q \in Proc : q # p => in[q] = proc[q]
      BY <1>t, <3>1, <3>2 DEF Table, Picked
    <3> QED  BY <2>2, <3>1, <3>3 DEF Looks
  <2> QED  BY <2>1, <2>2
<1>2. \/ in[p].cursig # NoSig /\ Psig(in, p)
      \/ in[p].cursig = NoSig /\ Issig(in[p]) = "none" /\ Stays(Looked(in, p), p, "user", "none")
      \/ in[p].cursig = NoSig /\ Issig(in[p]) = "stop" /\ Stays(Looked(in, p), p, "stopt", "none")
      \/ in[p].cursig = NoSig /\ Issig(in[p]) = "send" /\ Psig(Looked(in, p), p)
  BY IssigFacts DEF Trap
<1> HIDE DEF in
<1>3. in \in Table
  BY <1>1 DEF Looks
<1>4. CASE in[p].cursig = NoSig /\ Issig(in[p]) = "none" /\ Stays(Looked(in, p), p, "user", "none")
  BY <1>1, <1>3, <1>4 DEF Stays, Onto
<1>5. CASE in[p].cursig = NoSig /\ Issig(in[p]) = "stop" /\ Stays(Looked(in, p), p, "stopt", "none")
  <2>1. proc' = Looked(in, p) /\ Onto(p, "stopt", "none") /\ res' = res
    BY <1>5 DEF Stays, Onto
  <2>2. /\ proc' \in Table
        /\ \A q \in Proc : q # p => Stirred(in[q], proc'[q])
        /\ Halted(in[p], Left(in[p]), proc'[p])
        /\ proc'[p].cursig = Taken(in[p])
        /\ \A q \in Proc : q = in[p].pptr => proc'[q].wchan # q
    BY <1>3, <1>5, <2>1, LookedStop
  <2>3. Stopped(in, in[p], p, "stopt", "none")
    BY <1>5, <2>1, <2>2 DEF Stopped
  <2> QED  BY <1>1, <1>3, <1>5, <2>2, <2>3
<1> QED  BY <1>1, <1>2, <1>3, <1>4, <1>5

\* psig after issig has looked, or with an old p_cursig.
LEMMA PsigPlace ==
  ASSUME IInv, NEW p \in Proc, NEW t \in Table, Psig(t, p), t[p].cursig # NoSig,
         \A q \in Proc : q # p => t[q] = proc[q], Picked(proc[p], t[p]),
         proc[p].stat = "SRUN", call[p] = "none", pc[p] # "wsleep",
         cpu' = cpu, due' = due, posts' = posts, forks' = forks
  PROVE  IInv'
<1>t. /\ pc \in [Proc -> Pcs] /\ call \in [Proc -> Ks] /\ res \in [Proc -> Results]
      /\ due \in [Proc -> 0..Never] /\ TypeOK
      /\ posts \in 0..MaxPosts /\ forks \in 0..MaxForks
  BY TypeFacts DEF IInv
<1>1. /\ proc' \in Table /\ Others(t, p) /\ call' = call /\ res' = res
      /\ proc'[p].stat = t[p].stat /\ proc'[p].wchan = t[p].wchan
      /\ proc'[p].stimo = t[p].stimo /\ proc'[p].tsl = t[p].tsl
      /\ pc' = [pc EXCEPT ![p] = "user"] \/ pc' = [pc EXCEPT ![p] = "exit"]
  BY PsigFacts
<1>2. pc'[p] \in {"user", "exit"} /\ pc' \in [Proc -> Pcs]
      /\ \A q \in Proc : q # p => pc'[q] = pc[q]
  BY <1>t, <1>1 DEF Pcs
<1>3. Place(proc'[p], pc'[p], call'[p], due'[p])
  <2>1. Place(proc[p], pc[p], call[p], due[p])
    BY DEF IInv, Orderly
  <2>2. proc'[p].stat = "SRUN" /\ proc'[p].wchan = proc[p].wchan /\ proc'[p].tsl = proc[p].tsl
        /\ proc'[p].stimo = proc[p].stimo /\ call'[p] = "none" /\ due'[p] = due[p]
    BY <1>1 DEF Picked
  <2> QED  BY <1>2, <2>1, <2>2 DEF Place, InCall
<1>4. pc'[p] # "wsleep"
  BY <1>2
<1> QED  BY <1>1, <1>2, <1>3, <1>4, <1>t, OthersMoved, PlaceStep

\* The end of a system call or trap.
LEMMA TrapPlace ==
  ASSUME IInv, NEW p \in Proc, Trap(p)
  PROVE  IInv'
<1>t. /\ pc \in [Proc -> Pcs] /\ call \in [Proc -> Ks] /\ res \in [Proc -> Results]
      /\ due \in [Proc -> 0..Never] /\ TypeOK /\ proc \in Table
      /\ posts \in 0..MaxPosts /\ forks \in 0..MaxForks
  BY TypeFacts DEF IInv
<1>0. /\ cpu' = cpu /\ posts' = posts /\ forks' = forks /\ due' = due
      /\ Runs(p) /\ proc[p].stat = "SRUN" /\ pc[p] \in {"trap", "stopt", "user"}
  BY DEF Trap, bounds, Runs
<1>1. /\ proc[p] \in Entry /\ proc[p].wchan = NoChan /\ call[p] = "none"
      /\ proc[p].tsl = 0 /\ proc[p].stimo = FALSE /\ due[p] = Never
      /\ pc[p] # "wsleep"
  BY <1>0, RunsFacts DEF InCall
<1>2. PICK t \in Table :
        /\ Looks(t, p)
        /\ \/ t[p].cursig # NoSig /\ Psig(t, p)
           \/ /\ t[p].cursig = NoSig /\ Issig(t[p]) = "none"
              /\ proc' = Looked(t, p) /\ Onto(p, "user", "none") /\ res' = res
           \/ /\ t[p].cursig = NoSig /\ Stopped(t, t[p], p, "stopt", "none")
              /\ proc' \in Table
           \/ /\ t[p].cursig = NoSig /\ Issig(t[p]) = "send" /\ Psig(Looked(t, p), p)
  BY <1>t, TrapFacts
<1>3. CASE t[p].cursig # NoSig /\ Psig(t, p)
  BY <1>0, <1>1, <1>2, <1>3, PsigPlace DEF Looks
<1>4. CASE /\ Issig(t[p]) = "none"
           /\ proc' = Looked(t, p) /\ Onto(p, "user", "none") /\ res' = res
  <2>1. /\ proc' \in Table /\ (\A q \in Proc : q # p => proc'[q] = t[q])
        /\ Picked(t[p], proc'[p])
    BY <1>4, LookedNone
  <2>2. pc'[p] = "user" /\ call'[p] = "none" /\ pc' \in [Proc -> Pcs] /\ call' \in [Proc -> Ks]
        /\ \A q \in Proc : q # p => pc'[q] = pc[q] /\ call'[q] = call[q]
    BY <1>4, <1>t DEF Onto, Pcs, Ks
  <2>3. Place(proc'[p], pc'[p], call'[p], due'[p])
    <3>1. proc'[p].stat = "SRUN" /\ proc'[p].wchan = NoChan /\ proc'[p].tsl = 0
          /\ proc'[p].stimo = FALSE
      BY <1>0, <1>1, <1>2, <2>1 DEF Looks, Picked
    <3> QED  BY <1>0, <1>1, <2>2, <3>1 DEF Place, InCall
  <2>4. \A q \in Proc : q # p => /\ Moved(proc[q], proc'[q])
                                 /\ proc'[q].tsl = proc[q].tsl /\ proc'[q].stimo = proc[q].stimo
    BY <1>2, <2>1 DEF Looks, Moved
  <2> QED  BY <1>0, <1>1, <1>4, <1>t, <2>1, <2>2, <2>3, <2>4, PlaceStep
<1>5. CASE Stopped(t, t[p], p, "stopt", "none") /\ proc' \in Table
  <2>1. pc'[p] = "stopt" /\ call'[p] = "none" /\ pc' \in [Proc -> Pcs] /\ call' \in [Proc -> Ks]
        /\ \A q \in Proc : q # p => pc'[q] = pc[q] /\ call'[q] = call[q]
    BY <1>5, <1>t DEF Stopped, Onto, Pcs, Ks
  <2>2. Place(proc'[p], pc'[p], call'[p], due'[p])
    <3>1. proc'[p].stat = "SSTOP" /\ proc'[p].wchan = NoChan /\ proc'[p].tsl = 0
          /\ proc'[p].stimo = FALSE
      BY <1>1, <1>2, <1>5 DEF Stopped, Halted, Looks, Picked
    <3> QED  BY <1>0, <1>1, <2>1, <3>1 DEF Place, InCall
  <2>3. \A q \in Proc : q # p => /\ Moved(proc[q], proc'[q])
                                 /\ proc'[q].tsl = proc[q].tsl /\ proc'[q].stimo = proc[q].stimo
    BY <1>2, <1>5 DEF Stopped, Stirred, Shifted, Same, Looks
  <2>4. res' = res
    BY <1>5 DEF Stopped
  <2> QED  BY <1>0, <1>1, <1>5, <1>t, <2>1, <2>2, <2>3, <2>4, PlaceStep
<1>6. CASE Issig(t[p]) = "send" /\ Psig(Looked(t, p), p)
  <2>1. PICK u : u = Looked(t, p)
    OBVIOUS
  <2>2. /\ u \in Table /\ \A q \in Proc : q # p => u[q] = t[q]
        /\ Picked(t[p], u[p]) /\ u[p].cursig # NoSig
    BY <1>6, <2>1, LookedSend, SignalFacts
  <2>3. Picked(proc[p], u[p]) /\ \A q \in Proc : q # p => u[q] = proc[q]
    BY <1>2, <2>2 DEF Looks, Picked
  <2>4. Psig(u, p)
    BY <1>6, <2>1
  <2> QED  BY <1>0, <1>1, <2>2, <2>3, <2>4, PsigPlace
<1> QED  BY <1>2, <1>3, <1>4, <1>5, <1>6

\* signal().
LEMMA SsigPlace ==
  ASSUME IInv, NEW p \in Proc, NEW s \in Signals, NEW a \in Actions, Ssig(p, s, a)
  PROVE  IInv'
<1>t. /\ pc \in [Proc -> Pcs] /\ call \in [Proc -> Ks] /\ res \in [Proc -> Results]
      /\ due \in [Proc -> 0..Never] /\ TypeOK /\ proc \in Table
      /\ posts \in 0..MaxPosts /\ forks \in 0..MaxForks
  BY TypeFacts DEF IInv
<1>0. /\ cpu' = cpu /\ posts' = posts /\ forks' = forks /\ due' = due /\ call' = call /\ res' = res
      /\ Runs(p) /\ proc[p].stat = "SRUN" /\ pc[p] = "user"
      /\ pc' = [pc EXCEPT ![p] = "trap"]
  BY DEF Ssig, bounds, Runs
<1>1. /\ proc[p] \in Entry /\ proc[p].wchan = NoChan /\ call[p] = "none"
      /\ proc[p].tsl = 0 /\ proc[p].stimo = FALSE /\ due[p] = Never
  BY <1>0, RunsFacts DEF InCall
<1> DEFINE g == IF Usignal(proc[p], s) = "IGN" THEN proc[p].sig \ {s} ELSE proc[p].sig
           h == [proc[p].act EXCEPT ![s] = a]
           r == proc[p].reset \ {s}
           f == [proc[p] EXCEPT !.sig = g, !.act = h, !.reset = r]
<1>2. proc' = [proc EXCEPT ![p] = f]
  BY DEF Ssig
<1>3. g \subseteq Signals /\ h \in [Signals -> Actions] /\ r \subseteq Signals
  BY <1>1 DEF Entry
<1> HIDE DEF g, h, r
<1>4. f \in Entry /\ f.stat = "SRUN" /\ f.wchan = NoChan /\ f.tsl = 0 /\ f.stimo = FALSE
  BY <1>0, <1>1, <1>3 DEF Entry
<1> HIDE DEF f
<1>5. proc' \in Table /\ proc'[p] = f /\ Others(proc, p)
  BY <1>2, <1>4, <1>t DEF Table, Others
<1>6. pc'[p] = "trap" /\ pc' \in [Proc -> Pcs] /\ \A q \in Proc : q # p => pc'[q] = pc[q]
  BY <1>0, <1>t DEF Pcs
<1>7. Place(proc'[p], pc'[p], call'[p], due'[p])
  BY <1>0, <1>1, <1>4, <1>5, <1>6 DEF Place, InCall
<1> QED  BY <1>0, <1>1, <1>5, <1>6, <1>7, <1>t, OthersMoved, PlaceStep

\* The start of exit.
LEMMA ExitPlace ==
  ASSUME IInv, NEW p \in Proc, Exit(p)
  PROVE  IInv'
<1>t. /\ pc \in [Proc -> Pcs] /\ call \in [Proc -> Ks] /\ res \in [Proc -> Results]
      /\ due \in [Proc -> 0..Never] /\ TypeOK /\ proc \in Table
      /\ posts \in 0..MaxPosts /\ forks \in 0..MaxForks
  BY TypeFacts DEF IInv
<1>0. /\ cpu' = cpu /\ posts' = posts /\ forks' = forks /\ due' = due /\ call' = call /\ res' = res
      /\ Runs(p) /\ proc[p].stat = "SRUN" /\ pc[p] = "user"
      /\ pc' = [pc EXCEPT ![p] = "exit"]
  BY DEF Exit, bounds, Runs
<1>1. /\ proc[p] \in Entry /\ proc[p].wchan = NoChan /\ call[p] = "none"
      /\ proc[p].tsl = 0 /\ proc[p].stimo = FALSE /\ due[p] = Never
  BY <1>0, RunsFacts DEF InCall
<1> DEFINE f == Deaf(proc[p])
<1>2. proc' = [proc EXCEPT ![p] = f]
  BY <1>t DEF Exit, Table
<1>3. f \in Entry /\ f.stat = "SRUN" /\ f.wchan = NoChan /\ f.tsl = 0 /\ f.stimo = FALSE
  BY <1>0, <1>1 DEF Entry, Deaf, Actions
<1> HIDE DEF f
<1>4. proc' \in Table /\ proc'[p] = f /\ Others(proc, p)
  BY <1>2, <1>3, <1>t DEF Table, Others
<1>5. pc'[p] = "exit" /\ pc' \in [Proc -> Pcs] /\ \A q \in Proc : q # p => pc'[q] = pc[q]
  BY <1>0, <1>t DEF Pcs
<1>6. Place(proc'[p], pc'[p], call'[p], due'[p])
  BY <1>0, <1>1, <1>3, <1>4, <1>5 DEF Place, InCall
<1> QED  BY <1>0, <1>1, <1>4, <1>5, <1>6, <1>t, OthersMoved, PlaceStep

\* A sleep in exit.
LEMMA ExitSleepPlace ==
  ASSUME IInv, NEW p \in Proc, NEW c \in Devices, ExitSleep(p, c)
  PROVE  IInv'
<1>0. /\ cpu' = cpu /\ posts' = posts /\ forks' = forks /\ due' = due
      /\ Runs(p) /\ proc[p].stat = "SRUN" /\ pc[p] = "exit"
      /\ Sleep(proc, p, c, FALSE, "exit")
  BY DEF ExitSleep, bounds, Runs
<1>1. /\ proc[p] \in Entry /\ proc[p].tsl = 0 /\ proc[p].stimo = FALSE /\ due[p] = Never
      /\ TypeOK /\ proc \in Table /\ posts \in 0..MaxPosts /\ forks \in 0..MaxForks
  BY <1>0, RunsFacts, TypeFacts DEF InCall, IInv
<1>2. PICK k \in Ks \ {"none"} : k = "exit"
  BY DEF Ks
<1>3. PICK hi \in BOOLEAN : hi = FALSE
  OBVIOUS
<1>4. PICK t \in Table : t = proc
  BY <1>1
<1>5. Begun(t, p)
  <2>1. Sleep(t, p, c, hi, k)
    BY <1>0, <1>2, <1>3, <1>4
  <2>2. c \in Chan \cup Proc
    BY DEF Chan
  <2>3. Timed(t, p, k)
    BY <1>0, <1>1, <1>2, <1>4 DEF Timed
  <2>5. TypeOK /\ t[p].stat = "SRUN" /\ t[p].stimo = FALSE
    BY <1>0, <1>1, <1>4
  <2> QED  BY <2>1, <2>2, <2>3, <2>5, SleepPlace, ZenonT(60)
<1> QED  BY <1>0, <1>1, <1>4, <1>5, PlaceStep DEF Begun

\* The sleep of wait.
LEMMA WaitSleepPlace ==
  ASSUME IInv, NEW p \in Proc, WaitSleep(p)
  PROVE  IInv'
<1>0. /\ cpu = p /\ cpu' = NoProc /\ posts' = posts /\ forks' = forks /\ due' = due
      /\ pc[p] = "wsleep" /\ Sleep(proc, p, p, TRUE, "wait")
  BY DEF WaitSleep, bounds
<1>t. /\ TypeOK /\ proc \in Table /\ proc[p] \in Entry
      /\ posts \in 0..MaxPosts /\ forks \in 0..MaxForks
  BY TypeFacts DEF IInv
<1>1. proc[p].stat = "SRUN"
  <2>1. Place(proc[p], pc[p], call[p], due[p])
    BY DEF IInv, Orderly
  <2> QED  BY <1>0, <1>t, <2>1 DEF Place, Entry, Stat
<1>2. proc[p].tsl = 0 /\ proc[p].stimo = FALSE /\ due[p] = Never
  BY <1>0, <1>1, RunsFacts DEF InCall
<1>3. PICK k \in Ks \ {"none"} : k = "wait"
  BY DEF Ks
<1>4. PICK hi \in BOOLEAN : hi = TRUE
  OBVIOUS
<1>5. PICK t \in Table : t = proc
  BY <1>t
<1>6. Begun(t, p)
  <2>1. \A c : c = p => Sleep(t, p, c, hi, k)
    BY <1>0, <1>3, <1>4, <1>5
  <2>2. PICK c \in Chan \cup Proc : c = p
    OBVIOUS
  <2>3. Timed(t, p, k)
    BY <1>0, <1>2, <1>3, <1>5 DEF Timed
  <2>5. TypeOK /\ t[p].stat = "SRUN" /\ t[p].stimo = FALSE
    BY <1>1, <1>2, <1>5, <1>t
  <2>6. Sleep(t, p, c, hi, k)
    BY <2>1, <2>2
  <2> QED  BY <2>2, <2>3, <2>5, <2>6, SleepPlace, ZenonT(60)
<1>7. pc'[p] # "wsleep"
  BY <1>6 DEF Begun
<1> QED  BY <1>0, <1>5, <1>6, <1>7, <1>t, PlaceStep DEF Begun

\* exit: what becomes of the table.  Children go to init, the parent and, for
\* the children, init leave the queue they wait for children on.
LEMMA ExitDoneFacts ==
  ASSUME TypeOK, NEW p \in Proc, ExitDone(p)
  PROVE  /\ proc' \in Table
         /\ \A q \in Proc : q # p =>
              /\ Moved(proc[q], proc'[q]) /\ Heeding(proc[q], proc'[q])
              /\ proc'[q].hi = proc[q].hi /\ proc'[q].cursig = proc[q].cursig
              /\ proc'[q].wted = proc[q].wted /\ proc'[q].stimo = proc[q].stimo
              /\ proc'[q].tsl = proc[q].tsl /\ proc'[q].act = proc[q].act
              /\ proc'[q].reset = proc[q].reset
              /\ proc'[q].pptr = IF proc[q].pptr = p THEN InitProc ELSE proc[q].pptr
         /\ proc'[p].stat = "SZOMB" /\ proc'[p].wchan \in {proc[p].wchan, NoChan}
         /\ proc'[p].stimo = proc[p].stimo /\ proc'[p].tsl = proc[p].tsl
         /\ proc'[p].pptr = proc[p].pptr
         /\ proc[p].sig \subseteq Posted => proc'[p].sig \subseteq Posted
         /\ \A q \in Proc : q = proc[p].pptr => proc'[q].wchan # q
         /\ \A q \in Proc : q # p /\ proc[q].pptr = p => proc'[InitProc].wchan # InitProc
<1>t. proc \in Table /\ \A q \in Proc : proc[q] \in Entry
  BY TypeFacts
<1> DEFINE kids == {q \in Proc : q # p /\ proc[q].pptr = p}
           z == [proc[p] EXCEPT !.stat = "SZOMB"]
           t == [q \in Proc |-> CASE q = p -> z
                                  [] q # p /\ proc[q].pptr = p -> Orphan(proc[q])
                                  [] OTHER -> proc[q]]
           d == Disowned(p)
           w == Wakeup(d, proc[p].pptr)
<1>1. \A q \in Proc : /\ q = p => t[q] = z
                      /\ q \in kids => t[q] = Orphan(proc[q])
                      /\ q # p /\ q \notin kids => t[q] = proc[q]
  OBVIOUS
<1>2. d = IF kids # {} THEN Wakeup(t, InitProc) ELSE t
  BY DEF Disowned
<1>3. /\ z \in Entry /\ z.stat = "SZOMB" /\ z.wchan = proc[p].wchan
      /\ z.stimo = proc[p].stimo /\ z.tsl = proc[p].tsl /\ z.pptr = proc[p].pptr
      /\ z.sig = proc[p].sig
  BY <1>t DEF Entry, Stat
<1>4. t \in Table
  <2>1. \A q \in Proc : t[q] \in Entry
    BY <1>1, <1>3, <1>t, OrphanFacts
  <2> QED  BY <2>1 DEF Table
<1> HIDE DEF z, t
<1>5. /\ d \in Table /\ \A q \in Proc : Stirred(t[q], d[q])
      /\ t[p].stat # "SSLEEP" => d[p].stat = t[p].stat
      /\ kids # {} => d[InitProc].wchan # InitProc
  <2>1. CASE kids = {}
    <3>1. d = t
      BY <1>2, <2>1
    <3>2. \A q \in Proc : t[q] \in Entry
      BY <1>4 DEF Table
    <3> QED  BY <1>4, <2>1, <3>1, <3>2, StirredSelf
  <2>2. CASE kids # {}
    <3>1. d = Wakeup(t, InitProc)
      BY <1>2, <2>2
    <3>2. InitProc \in Proc /\ InitProc # NoChan
      BY ProcAssumption
    <3> QED  BY <1>4, <3>1, <3>2, WakeupMoves
  <2> QED  BY <2>1, <2>2
<1> HIDE DEF d
<1>6. /\ w \in Table /\ \A q \in Proc : Stirred(d[q], w[q])
      /\ d[p].stat # "SSLEEP" => w[p].stat = d[p].stat
      /\ \A q \in Proc : q = proc[p].pptr => w[q].wchan # q
  BY <1>5, WakeupMoves, ProcAssumption
<1>7. \A q \in Proc : proc'[q] = IF q = proc[p].pptr THEN Post(w[q], SIGCHLD) ELSE w[q]
  BY DEF ExitDone, d
<1>8. proc' = [q \in Proc |-> proc'[q]]
  BY DEF ExitDone
<1> HIDE DEF w
<1>9. ASSUME NEW q \in Proc
      PROVE  Stirred(w[q], proc'[q])
  <2>1. w[q] \in Entry
    BY <1>6 DEF Table
  <2>2. CASE q = proc[p].pptr
    BY <1>7, <2>1, <2>2, PostMoves, PostedFacts
  <2>3. CASE q # proc[p].pptr
    BY <1>7, <2>1, <2>3, StirredSelf
  <2> QED  BY <2>2, <2>3
<1>10. \A q \in Proc : Stirred(t[q], proc'[q])
  BY <1>5, <1>6, <1>9, StirredTwice
<1>11. proc' \in Table
  <2>1. \A q \in Proc : proc'[q] \in Entry
    BY <1>10 DEF Stirred, Shifted
  <2> QED  BY <1>8, <2>1 DEF Table
<1>12. ASSUME NEW q \in Proc, q # p
       PROVE  /\ Moved(proc[q], proc'[q]) /\ Heeding(proc[q], proc'[q])
              /\ proc'[q].hi = proc[q].hi /\ proc'[q].cursig = proc[q].cursig
              /\ proc'[q].wted = proc[q].wted /\ proc'[q].stimo = proc[q].stimo
              /\ proc'[q].tsl = proc[q].tsl /\ proc'[q].act = proc[q].act
              /\ proc'[q].reset = proc[q].reset
              /\ proc'[q].pptr = IF proc[q].pptr = p THEN InitProc ELSE proc[q].pptr
  <2>1. CASE q \in kids
    <3>1. /\ t[q].pptr = InitProc /\ Moved(proc[q], t[q]) /\ Heeding(proc[q], t[q])
          /\ t[q].hi = proc[q].hi /\ t[q].cursig = proc[q].cursig /\ t[q].wted = proc[q].wted
          /\ t[q].stimo = proc[q].stimo /\ t[q].tsl = proc[q].tsl /\ t[q].act = proc[q].act
          /\ t[q].reset = proc[q].reset
      BY <1>1, <1>t, <2>1, OrphanFacts
    <3>2. Stirred(t[q], proc'[q]) /\ proc[q].pptr = p
      BY <1>10, <2>1
    <3>3. Heeding(proc[q], proc'[q])
      BY <3>1, <3>2 DEF Stirred, Heeding
    <3> QED  BY <3>1, <3>2, <3>3 DEF Stirred, Shifted, Same, Moved
  <2>2. CASE q \notin kids
    <3>1. t[q] = proc[q] /\ proc[q].pptr # p
      BY <1>1, <1>12, <2>2
    <3>2. Stirred(proc[q], proc'[q])
      BY <1>10, <3>1
    <3> QED  BY <3>1, <3>2 DEF Stirred, Shifted, Same
  <2> QED  BY <2>1, <2>2
<1>13. /\ proc'[p].stat = "SZOMB" /\ proc'[p].wchan \in {proc[p].wchan, NoChan}
       /\ proc'[p].stimo = proc[p].stimo /\ proc'[p].tsl = proc[p].tsl
       /\ proc'[p].pptr = proc[p].pptr
       /\ proc[p].sig \subseteq Posted => proc'[p].sig \subseteq Posted
  <2>1. t[p] = z /\ Stirred(t[p], proc'[p])
    BY <1>1, <1>10
  <2> QED  BY <1>3, <2>1 DEF Stirred, Shifted, Same, Moved, Heeding
<1>14. \A q \in Proc : q = proc[p].pptr => proc'[q].wchan # q
  <2> TAKE q \in Proc
  <2>1. Stirred(w[q], proc'[q]) /\ q # NoChan /\ (q = proc[p].pptr => w[q].wchan # q)
    BY <1>6, <1>9, ProcAssumption
  <2> QED  BY <2>1 DEF Stirred, Shifted, Moved
<1>15. kids # {} => proc'[InitProc].wchan # InitProc
  <2>1. InitProc \in Proc /\ InitProc # NoChan
    BY ProcAssumption
  <2>2. Stirred(d[InitProc], proc'[InitProc])
    BY <1>6, <1>9, <2>1, StirredTwice
  <2> QED  BY <1>5, <2>1, <2>2 DEF Stirred, Shifted, Moved
<1> QED  BY <1>11, <1>12, <1>13, <1>14, <1>15

\* The end of exit.
LEMMA ExitDonePlace ==
  ASSUME IInv, NEW p \in Proc, ExitDone(p)
  PROVE  IInv'
<1>t. /\ pc \in [Proc -> Pcs] /\ call \in [Proc -> Ks] /\ res \in [Proc -> Results]
      /\ due \in [Proc -> 0..Never] /\ TypeOK /\ proc \in Table
      /\ posts \in 0..MaxPosts /\ forks \in 0..MaxForks
  BY TypeFacts DEF IInv
<1>0. /\ cpu' = cpu /\ posts' = posts /\ forks' = forks /\ due' = due /\ call' = call /\ res' = res
      /\ Runs(p) /\ proc[p].stat = "SRUN" /\ pc[p] \in {"exit", "exiting"}
      /\ pc' = [pc EXCEPT ![p] = "gone"]
  BY DEF ExitDone, bounds, Runs
<1>1. /\ proc[p] \in Entry /\ proc[p].wchan = NoChan /\ call[p] = "none"
      /\ proc[p].tsl = 0 /\ proc[p].stimo = FALSE /\ due[p] = Never
  BY <1>0, RunsFacts DEF InCall
<1>2. /\ proc' \in Table
      /\ \A q \in Proc : q # p =>
           /\ Moved(proc[q], proc'[q])
           /\ proc'[q].stimo = proc[q].stimo /\ proc'[q].tsl = proc[q].tsl
      /\ proc'[p].stat = "SZOMB" /\ proc'[p].wchan \in {proc[p].wchan, NoChan}
      /\ proc'[p].stimo = proc[p].stimo /\ proc'[p].tsl = proc[p].tsl
  BY <1>t, ExitDoneFacts
<1>3. pc'[p] = "gone" /\ pc' \in [Proc -> Pcs] /\ \A q \in Proc : q # p => pc'[q] = pc[q]
  BY <1>0, <1>t DEF Pcs
<1>4. Place(proc'[p], pc'[p], call'[p], due'[p])
  BY <1>0, <1>1, <1>2, <1>3 DEF Place, InCall
<1>5. pc'[p] # "wsleep" /\ pc[p] # "wsleep"
  BY <1>0, <1>3
<1> QED  BY <1>0, <1>2, <1>3, <1>4, <1>5, <1>t, PlaceStep

\* What is to show when the places of more than one process are new.
LEMMA PlaceAll ==
  ASSUME IInv,
         proc' \in Table, pc' \in [Proc -> Pcs], call' \in [Proc -> Ks],
         res' \in [Proc -> Results], cpu' \in Proc \cup {NoProc},
         due' \in [Proc -> 0..Never], posts' \in 0..MaxPosts, forks' \in 0..MaxForks,
         \A q \in Proc : /\ Place(proc'[q], pc'[q], call'[q], due'[q])
                         /\ cpu' = q <=> pc'[q] = "wsleep"
  PROVE  IInv'
BY TypeNext DEF IInv, Orderly

\* wait1 takes a zombie off the table.
LEMMA WaitZombiePlace ==
  ASSUME IInv, NEW p \in Proc, NEW q \in Proc, WaitZombie(p, q)
  PROVE  IInv'
<1>t. /\ pc \in [Proc -> Pcs] /\ call \in [Proc -> Ks] /\ res \in [Proc -> Results]
      /\ due \in [Proc -> 0..Never] /\ TypeOK /\ proc \in Table /\ cpu \in Proc \cup {NoProc}
      /\ posts \in 0..MaxPosts /\ forks \in 0..MaxForks /\ proc[q] \in Entry
  BY TypeFacts DEF IInv
<1>0. /\ cpu' = cpu /\ posts' = posts /\ forks' = forks /\ due' = due /\ call' = call /\ res' = res
      /\ Runs(p) /\ proc[p].stat = "SRUN" /\ pc[p] \in {"scan", "user"}
      /\ pc' = [pc EXCEPT ![p] = "trap"] /\ proc[q].stat = "SZOMB"
  BY DEF WaitZombie, Wait, Zombie, bounds, Runs
<1> DEFINE f == [proc[q] EXCEPT !.stat = "NULL", !.pptr = NoProc, !.sig = {}, !.cursig = NoSig,
                   !.act = [s \in Signals |-> "DFL"], !.reset = {}, !.wted = FALSE,
                   !.stimo = FALSE, !.wchan = NoChan]
<1>1. proc' = [proc EXCEPT ![q] = f]
  BY <1>t DEF WaitZombie, Table
<1>2. f \in Entry /\ f.stat = "NULL" /\ f.wchan = NoChan /\ f.stimo = FALSE /\ f.tsl = proc[q].tsl
  BY <1>t DEF Entry, Stat, Actions
<1> HIDE DEF f
<1>3. proc' \in Table /\ proc'[q] = f /\ Others(proc, q)
  BY <1>1, <1>2, <1>t DEF Table, Others
<1>4. pc'[p] = "trap" /\ pc' \in [Proc -> Pcs] /\ \A r \in Proc : r # p => pc'[r] = pc[r]
  BY <1>0, <1>t DEF Pcs
<1>5. ASSUME NEW r \in Proc
      PROVE  Place(proc'[r], pc'[r], call'[r], due'[r]) /\ (cpu' = r <=> pc'[r] = "wsleep")
  <2>1. Place(proc[r], pc[r], call[r], due[r]) /\ (cpu = r <=> pc[r] = "wsleep")
    BY DEF IInv, Orderly
  <2>2. CASE r = p
    <3>1. proc'[r] = proc[r] /\ pc'[r] = "trap"
      BY <1>0, <1>3, <1>4, <2>2 DEF Others
    <3> QED  BY <1>0, <2>1, <2>2, <3>1 DEF Place, InCall
  <2>3. CASE r = q
    <3>1. pc'[r] = pc[r] /\ proc'[r] = f
      BY <1>0, <1>3, <1>4, <2>3
    <3> QED  BY <1>0, <1>2, <2>1, <2>3, <3>1 DEF Place, InCall
  <2>4. CASE r # p /\ r # q
    <3>1. proc'[r] = proc[r] /\ pc'[r] = pc[r]
      BY <1>3, <1>4, <2>4 DEF Others
    <3> QED  BY <1>0, <2>1, <3>1
  <2> QED  BY <2>2, <2>3, <2>4
<1> QED  BY <1>0, <1>3, <1>4, <1>5, <1>t, PlaceAll

\* wait finds a stopped child.
LEMMA WaitStoppedPlace ==
  ASSUME IInv, NEW p \in Proc, NEW q \in Proc, WaitStopped(p, q)
  PROVE  IInv'
<1>t. /\ pc \in [Proc -> Pcs] /\ call \in [Proc -> Ks] /\ res \in [Proc -> Results]
      /\ due \in [Proc -> 0..Never] /\ TypeOK /\ proc \in Table
      /\ posts \in 0..MaxPosts /\ forks \in 0..MaxForks /\ proc[q] \in Entry
  BY TypeFacts DEF IInv
<1>0. /\ cpu' = cpu /\ posts' = posts /\ forks' = forks /\ due' = due /\ call' = call /\ res' = res
      /\ Runs(p) /\ proc[p].stat = "SRUN" /\ pc[p] \in {"scan", "user"}
      /\ pc' = [pc EXCEPT ![p] = "trap"] /\ proc[q].stat = "SSTOP"
  BY DEF WaitStopped, Wait, NewlyStopped, bounds, Runs
<1> DEFINE f == [proc[q] EXCEPT !.wted = TRUE]
<1>1. proc' = [proc EXCEPT ![q] = f]
  BY <1>t DEF WaitStopped, Table
<1>2. f \in Entry /\ f.stat = proc[q].stat /\ f.wchan = proc[q].wchan /\ f.stimo = proc[q].stimo
      /\ f.tsl = proc[q].tsl
  BY <1>t DEF Entry
<1> HIDE DEF f
<1>3. proc' \in Table /\ proc'[q] = f /\ Others(proc, q)
  BY <1>1, <1>2, <1>t DEF Table, Others
<1>4. pc'[p] = "trap" /\ pc' \in [Proc -> Pcs] /\ \A r \in Proc : r # p => pc'[r] = pc[r]
  BY <1>0, <1>t DEF Pcs
<1>5. \A r \in Proc : /\ Moved(proc[r], proc'[r])
                      /\ proc'[r].tsl = proc[r].tsl /\ proc'[r].stimo = proc[r].stimo
  BY <1>2, <1>3 DEF Others, Moved
<1>6. Place(proc'[p], pc'[p], call'[p], due'[p])
  <2>1. Place(proc[p], pc[p], call[p], due[p])
    BY DEF IInv, Orderly
  <2>2. proc'[p] = proc[p]
    BY <1>0, <1>3 DEF Others
  <2> QED  BY <1>0, <1>4, <2>1, <2>2 DEF Place, InCall
<1>7. pc'[p] # "wsleep" /\ pc[p] # "wsleep"
  BY <1>0, <1>4
<1> QED  BY <1>0, <1>3, <1>4, <1>5, <1>6, <1>7, <1>t, PlaceStep

\* wait finds no child.
LEMMA WaitNoChildPlace ==
  ASSUME IInv, NEW p \in Proc, WaitNoChild(p)
  PROVE  IInv'
<1>t. /\ pc \in [Proc -> Pcs] /\ call \in [Proc -> Ks] /\ res \in [Proc -> Results]
      /\ due \in [Proc -> 0..Never] /\ TypeOK /\ proc \in Table
      /\ posts \in 0..MaxPosts /\ forks \in 0..MaxForks
  BY TypeFacts DEF IInv
<1>0. /\ cpu' = cpu /\ posts' = posts /\ forks' = forks /\ due' = due /\ call' = call /\ res' = res
      /\ Runs(p) /\ proc[p].stat = "SRUN" /\ pc[p] \in {"scan", "user"} /\ proc' = proc
      /\ pc' = [pc EXCEPT ![p] = "trap"]
  BY DEF WaitNoChild, Wait, bounds, Runs
<1>1. pc'[p] = "trap" /\ pc' \in [Proc -> Pcs] /\ \A r \in Proc : r # p => pc'[r] = pc[r]
  BY <1>0, <1>t DEF Pcs
<1>2. Place(proc'[p], pc'[p], call'[p], due'[p])
  <2>1. Place(proc[p], pc[p], call[p], due[p])
    BY DEF IInv, Orderly
  <2> QED  BY <1>0, <1>1, <2>1 DEF Place, InCall
<1>3. pc'[p] # "wsleep" /\ pc[p] # "wsleep"
  BY <1>0, <1>1
<1>4. \A r \in Proc : Moved(proc[r], proc'[r]) /\ proc'[r] = proc[r]
  BY <1>0 DEF Moved
<1> QED  BY <1>0, <1>1, <1>2, <1>3, <1>4, <1>t, PlaceStep

\* wait finds nothing to report.
LEMMA WaitNothingPlace ==
  ASSUME IInv, NEW p \in Proc, WaitNothing(p)
  PROVE  IInv'
<1>t. /\ pc \in [Proc -> Pcs] /\ call \in [Proc -> Ks] /\ res \in [Proc -> Results]
      /\ due \in [Proc -> 0..Never] /\ TypeOK /\ proc \in Table
      /\ posts \in 0..MaxPosts /\ forks \in 0..MaxForks
  BY TypeFacts DEF IInv
<1>0. /\ cpu = NoProc /\ cpu' = p /\ posts' = posts /\ forks' = forks /\ due' = due
      /\ call' = call /\ res' = res
      /\ Runs(p) /\ proc[p].stat = "SRUN" /\ pc[p] \in {"scan", "user"} /\ proc' = proc
      /\ pc' = [pc EXCEPT ![p] = "wsleep"]
  BY DEF WaitNothing, Wait, bounds, Runs
<1>1. pc'[p] = "wsleep" /\ pc' \in [Proc -> Pcs] /\ \A r \in Proc : r # p => pc'[r] = pc[r]
  BY <1>0, <1>t DEF Pcs
<1>2. Place(proc'[p], pc'[p], call'[p], due'[p])
  <2>1. Place(proc[p], pc[p], call[p], due[p])
    BY DEF IInv, Orderly
  <2> QED  BY <1>0, <1>1, <2>1 DEF Place, InCall
<1>3. \A r \in Proc : Moved(proc[r], proc'[r]) /\ proc'[r] = proc[r]
  BY <1>0 DEF Moved
<1> QED  BY <1>0, <1>1, <1>2, <1>3, <1>t, PlaceStep

\* fork makes a new entry, not yet complete.
LEMMA ForkPlace ==
  ASSUME IInv, NEW p \in Proc, NEW q \in Proc, Fork(p, q)
  PROVE  IInv'
<1>t. /\ pc \in [Proc -> Pcs] /\ call \in [Proc -> Ks] /\ res \in [Proc -> Results]
      /\ due \in [Proc -> 0..Never] /\ TypeOK /\ proc \in Table /\ cpu \in Proc \cup {NoProc}
      /\ posts \in 0..MaxPosts /\ forks \in 0..MaxForks /\ proc[q] \in Entry /\ proc[p] \in Entry
  BY TypeFacts DEF IInv
<1>0. /\ cpu' = cpu /\ posts' = posts /\ due' = due /\ call' = call /\ res' = res
      /\ proc[p].stat = "SRUN" /\ pc[p] = "user" /\ forks < MaxForks /\ forks' = forks + 1
      /\ pc' = [pc EXCEPT ![p] = "fork"] /\ proc[q].stat = "NULL"
  BY DEF Fork, Runs
<1>n. forks' \in 0..MaxForks
  BY <1>0, <1>t, ProcAssumption
<1> DEFINE f == [proc[q] EXCEPT !.stat = "SIDL", !.pptr = p, !.act = proc[p].act,
                   !.reset = proc[p].reset, !.wted = FALSE, !.stimo = FALSE, !.wchan = NoChan]
<1>1. proc' = [proc EXCEPT ![q] = f]
  BY <1>t DEF Fork, Table
<1>2. f \in Entry /\ f.stat = "SIDL" /\ f.wchan = NoChan /\ f.stimo = FALSE /\ f.tsl = proc[q].tsl
  BY <1>t DEF Entry, Stat
<1> HIDE DEF f
<1>3. proc' \in Table /\ proc'[q] = f /\ Others(proc, q)
  BY <1>1, <1>2, <1>t DEF Table, Others
<1>4. pc'[p] = "fork" /\ pc' \in [Proc -> Pcs] /\ \A r \in Proc : r # p => pc'[r] = pc[r]
  BY <1>0, <1>t DEF Pcs
<1>5. ASSUME NEW r \in Proc
      PROVE  Place(proc'[r], pc'[r], call'[r], due'[r]) /\ (cpu' = r <=> pc'[r] = "wsleep")
  <2>1. Place(proc[r], pc[r], call[r], due[r]) /\ (cpu = r <=> pc[r] = "wsleep")
    BY DEF IInv, Orderly
  <2>2. CASE r = p
    <3>1. proc'[r] = proc[r] /\ pc'[r] = "fork"
      BY <1>0, <1>3, <1>4, <2>2 DEF Others
    <3> QED  BY <1>0, <2>1, <2>2, <3>1 DEF Place, InCall
  <2>3. CASE r = q
    <3>1. pc'[r] = pc[r] /\ proc'[r] = f
      BY <1>0, <1>3, <1>4, <2>3
    <3> QED  BY <1>0, <1>2, <2>1, <2>3, <3>1 DEF Place, InCall
  <2>4. CASE r # p /\ r # q
    <3>1. proc'[r] = proc[r] /\ pc'[r] = pc[r]
      BY <1>3, <1>4, <2>4 DEF Others
    <3> QED  BY <1>0, <2>1, <3>1
  <2> QED  BY <2>2, <2>3, <2>4
<1> QED  BY <1>0, <1>n, <1>3, <1>4, <1>5, <1>t, PlaceAll

\* The new process runs.
LEMMA ForkDonePlace ==
  ASSUME IInv, NEW p \in Proc, ForkDone(p)
  PROVE  IInv'
<1>t. /\ pc \in [Proc -> Pcs] /\ call \in [Proc -> Ks] /\ res \in [Proc -> Results]
      /\ due \in [Proc -> 0..Never] /\ TypeOK /\ proc \in Table /\ cpu \in Proc \cup {NoProc}
      /\ posts \in 0..MaxPosts /\ forks \in 0..MaxForks /\ \A q \in Proc : proc[q] \in Entry
  BY TypeFacts DEF IInv
<1> DEFINE new == {q \in Proc : Child(p, q) /\ proc[q].stat = "SIDL"}
<1>0. /\ cpu' = cpu /\ posts' = posts /\ forks' = forks /\ due' = due /\ call' = call /\ res' = res
      /\ proc[p].stat = "SRUN" /\ pc[p] = "fork"
      /\ proc' = [q \in Proc |-> IF q \in new THEN Setrun(proc[q]) ELSE proc[q]]
      /\ pc' = [q \in Proc |-> IF q \in new THEN "user" ELSE IF q = p THEN "trap" ELSE pc[q]]
  BY DEF ForkDone, Runs, bounds
<1>1. \A q \in new : q \in Proc /\ proc[q].stat = "SIDL"
  OBVIOUS
<1> HIDE DEF new
<1>2. \A q \in Proc : /\ Setrun(proc[q]) \in Entry /\ Same(proc[q], Setrun(proc[q]))
                      /\ Setrun(proc[q]).stat = "SRUN" /\ Setrun(proc[q]).wchan = NoChan
  BY <1>t, SetrunFacts
<1>3. proc' \in Table /\ pc' \in [Proc -> Pcs]
  BY <1>0, <1>2, <1>t DEF Table, Pcs
<1>4. ASSUME NEW r \in Proc
      PROVE  Place(proc'[r], pc'[r], call'[r], due'[r]) /\ (cpu' = r <=> pc'[r] = "wsleep")
  <2>1. Place(proc[r], pc[r], call[r], due[r]) /\ (cpu = r <=> pc[r] = "wsleep")
    BY DEF IInv, Orderly
  <2>2. CASE r \in new
    <3>1. proc'[r] = Setrun(proc[r]) /\ pc'[r] = "user" /\ proc[r].stat = "SIDL"
      BY <1>0, <1>1, <2>2
    <3>2. /\ Same(proc[r], Setrun(proc[r])) /\ Setrun(proc[r]).stat = "SRUN"
          /\ Setrun(proc[r]).wchan = NoChan
      BY <1>2
    <3> QED  BY <1>0, <2>1, <3>1, <3>2 DEF Place, InCall, Same
  <2>3. CASE r \notin new /\ r = p
    <3>1. proc'[r] = proc[r] /\ pc'[r] = "trap"
      BY <1>0, <2>3
    <3> QED  BY <1>0, <2>1, <2>3, <3>1 DEF Place, InCall
  <2>4. CASE r \notin new /\ r # p
    <3>1. proc'[r] = proc[r] /\ pc'[r] = pc[r]
      BY <1>0, <2>4
    <3> QED  BY <1>0, <2>1, <3>1
  <2> QED  BY <2>2, <2>3, <2>4
<1> QED  BY <1>0, <1>3, <1>4, <1>t, PlaceAll

\* kill, and the signals of terminals.
LEMMA KillPlace ==
  ASSUME IInv, NEW p \in Targets, NEW s \in Sent, Kill(p, s)
  PROVE  IInv'
<1>p. p \in Proc /\ s \in Signals /\ s \in Posted
  BY ProcAssumption, PostedFacts
<1>t. /\ pc \in [Proc -> Pcs] /\ call \in [Proc -> Ks] /\ res \in [Proc -> Results]
      /\ due \in [Proc -> 0..Never] /\ TypeOK /\ proc \in Table
      /\ posts \in 0..MaxPosts /\ forks \in 0..MaxForks /\ proc[p] \in Entry
  BY <1>p, TypeFacts DEF IInv
<1>0. /\ cpu' = cpu /\ forks' = forks /\ due' = due /\ call' = call /\ res' = res
      /\ pc' = pc /\ posts < MaxPosts /\ posts' = posts + 1 /\ proc' = Psignal(proc, p, s)
  BY DEF Kill
<1>n. posts' \in 0..MaxPosts
  BY <1>0, <1>t, ProcAssumption
<1>1. /\ proc' \in Table
      /\ \A q \in Proc : q # p => Stirred(proc[q], proc'[q])
      /\ ~StopsSleeper(proc[p], s) => proc'[p] = Post(proc[p], s)
      /\ StopsSleeper(proc[p], s) => Halted(proc[p], Noted(proc[p], s).sig \ {s}, proc'[p])
  <2>1. PICK t \in Table : t = proc
    BY <1>t
  <2>2. CASE StopsSleeper(t[p], s)
    BY <1>0, <1>p, <2>1, <2>2, PsignalStops
  <2>3. CASE ~StopsSleeper(t[p], s)
    BY <1>0, <1>p, <2>1, <2>3, PsignalPosts
  <2> QED  BY <2>2, <2>3
<1>2. Place(proc[p], pc[p], call[p], due[p])
  BY <1>p DEF IInv, Orderly
<1>3. Place(proc'[p], pc[p], call[p], due[p])
  <2>1. CASE StopsSleeper(proc[p], s)
    <3>1. Halted(proc[p], Noted(proc[p], s).sig \ {s}, proc'[p]) /\ proc[p].stat = "SSLEEP"
      BY <1>1, <2>1 DEF StopsSleeper
    <3> QED  BY <1>2, <3>1 DEF Place, Halted, InCall
  <2>2. CASE ~StopsSleeper(proc[p], s)
    <3>1. Stirred(proc[p], proc'[p])
      BY <1>1, <1>p, <1>t, <2>2, PostMoves
    <3> QED  BY <1>2, <3>1, MovedPlace DEF Stirred, Shifted, Same
  <2> QED  BY <2>1, <2>2
<1>4. Place(proc'[p], pc'[p], call'[p], due'[p])
  BY <1>0, <1>3
<1>5. \A q \in Proc : q # p => /\ Moved(proc[q], proc'[q])
                               /\ proc'[q].tsl = proc[q].tsl /\ proc'[q].stimo = proc[q].stimo
  BY <1>1 DEF Stirred, Shifted, Same
<1> QED  BY <1>0, <1>n, <1>p, <1>1, <1>4, <1>5, <1>t, PlaceStep

\* A device wakes up who sleeps for it.
LEMMA WakeChanPlace ==
  ASSUME IInv, NEW c \in Chan, WakeChan(c)
  PROVE  IInv'
<1>t. /\ pc \in [Proc -> Pcs] /\ call \in [Proc -> Ks] /\ res \in [Proc -> Results]
      /\ due \in [Proc -> 0..Never] /\ TypeOK /\ proc \in Table /\ cpu \in Proc \cup {NoProc}
      /\ posts \in 0..MaxPosts /\ forks \in 0..MaxForks
  BY TypeFacts DEF IInv
<1>0. /\ cpu' = cpu /\ posts' = posts /\ forks' = forks /\ due' = due /\ call' = call /\ res' = res
      /\ pc' = pc /\ proc' = Wakeup(proc, c)
  BY DEF WakeChan, bounds
<1>1. proc' \in Table /\ \A q \in Proc : Stirred(proc[q], proc'[q])
  BY <1>0, <1>t, WakeupMoves
<1>2. ASSUME NEW q \in Proc
      PROVE  Place(proc'[q], pc'[q], call'[q], due'[q]) /\ (cpu' = q <=> pc'[q] = "wsleep")
  <2>1. Place(proc[q], pc[q], call[q], due[q]) /\ (cpu = q <=> pc[q] = "wsleep")
    BY DEF IInv, Orderly
  <2>2. Place(proc'[q], pc[q], call[q], due[q])
    BY <1>1, <2>1, MovedPlace DEF Stirred, Shifted, Same
  <2> QED  BY <1>0, <2>1, <2>2
<1> QED  BY <1>0, <1>1, <1>2, <1>t, PlaceAll

\* A second passes for every tsleep.
LEMMA TickPlace ==
  ASSUME IInv, Tick
  PROVE  IInv'
<1>t. /\ pc \in [Proc -> Pcs] /\ call \in [Proc -> Ks] /\ res \in [Proc -> Results]
      /\ due \in [Proc -> 0..Never] /\ TypeOK /\ proc \in Table /\ cpu \in Proc \cup {NoProc}
      /\ posts \in 0..MaxPosts /\ forks \in 0..MaxForks /\ \A q \in Proc : proc[q] \in Entry
  BY TypeFacts DEF IInv
<1>0. /\ cpu' = cpu /\ posts' = posts /\ forks' = forks /\ call' = call /\ res' = res
      /\ pc' = pc
      /\ proc' = [p \in Proc |-> IF proc[p].stat \in {"NULL", "SZOMB"} THEN proc[p]
                                 ELSE Timein(proc[p])]
      /\ due' = [p \in Proc |-> IF due[p] \in 1..MaxSecs THEN due[p] - 1 ELSE due[p]]
  BY DEF Tick, bounds
<1>1. proc' \in Table
  BY <1>0, <1>t, TimeinFacts DEF Table
<1>2. due' \in [Proc -> 0..Never]
  <2>1. \A p \in Proc : due[p] \in 0..Never
    BY <1>t
  <2>2. \A p \in Proc : due[p] \in 1..MaxSecs => due[p] - 1 \in 0..Never
    BY <2>1, NeverFacts
  <2> QED  BY <1>0, <2>1, <2>2
<1>3. ASSUME NEW p \in Proc
      PROVE  Place(proc'[p], pc[p], call[p], due'[p])
  <2>1. Place(proc[p], pc[p], call[p], due[p]) /\ proc[p] \in Entry
    BY <1>t DEF IInv, Orderly
  <2>2. proc'[p] = IF proc[p].stat \in {"NULL", "SZOMB"} THEN proc[p] ELSE Timein(proc[p])
    BY <1>0
  <2>3. due'[p] = IF due[p] \in 1..MaxSecs THEN due[p] - 1 ELSE due[p]
    BY <1>0
  <2>n. due[p] \in Nat /\ proc[p].tsl \in 0..MaxSecs
    BY <1>t, <2>1, NeverFacts DEF Entry
  <2>4. CASE call[p] # "tsleep"
    <3>1. proc'[p] = proc[p]
      BY <2>1, <2>2, <2>4, TimeinFacts DEF Place
    <3>2. due'[p] = due[p]
      BY <2>1, <2>3, <2>4, NeverFacts DEF Place
    <3> QED  BY <2>1, <3>1, <3>2
  <2>5. CASE call[p] = "tsleep"
    <3>1. proc[p].stat \notin {"NULL", "SZOMB"}
      BY <2>1, <2>5 DEF Place, InCall
    <3>2. proc'[p] = Timein(proc[p])
      BY <2>2, <3>1
    <3>3. Moved(proc[p], proc'[p])
      BY <2>1, <3>2, TimeinFacts
    <3>4. CASE proc[p].tsl = 0
      <4>1. proc'[p] = proc[p]
        BY <2>1, <3>2, <3>4, TimeinFacts
      <4>2. proc[p].stimo = TRUE => due'[p] = 0
        BY <2>1, <2>3, <2>5 DEF Place
      <4> QED  BY <2>1, <2>5, <3>4, <4>1, <4>2 DEF Place
    <3>5. CASE proc[p].tsl > 1
      <4>1. proc'[p].tsl = proc[p].tsl - 1 /\ proc'[p].stimo = proc[p].stimo
        BY <2>1, <3>2, <3>5, TimeinFacts, ZenonT(120)
      <4>2. due[p] = proc[p].tsl /\ proc[p].stimo = FALSE
        BY <2>1, <2>5, <2>n, <3>5, NeverFacts DEF Place
      <4>3. due'[p] = proc[p].tsl - 1
        BY <2>3, <2>n, <3>5, <4>2, NeverFacts
      <4> QED  BY <2>1, <2>5, <3>3, <4>1, <4>2, <4>3 DEF Place, Moved
    <3>6. CASE proc[p].tsl = 1
      <4>1. proc'[p].tsl = 0 /\ proc'[p].stimo = TRUE
        BY <2>1, <3>2, <3>6, TimeinFacts, ZenonT(60)
      <4>2. due[p] = 1
        BY <2>1, <2>5, <2>n, <3>6, NeverFacts DEF Place
      <4>3. due'[p] = 0
        BY <2>3, <2>n, <3>6, <4>2, NeverFacts
      <4> QED  BY <2>1, <2>5, <3>3, <4>1, <4>3 DEF Place, Moved
    <3>7. proc[p].tsl = 0 \/ proc[p].tsl = 1 \/ proc[p].tsl > 1
      BY <2>n, NeverFacts
    <3> QED  BY <3>4, <3>5, <3>6, <3>7
  <2> QED  BY <2>4, <2>5
<1>4. \A p \in Proc : cpu = p <=> pc[p] = "wsleep"
  BY DEF IInv, Orderly
<1> QED  BY <1>0, <1>1, <1>2, <1>3, <1>4, <1>t, PlaceAll

\* Every step keeps the processes where their states say.
LEMMA NextPlaces ==
  ASSUME IInv, [Next]_vars
  PROVE  IInv'
<1>1. CASE UNCHANGED vars
  BY <1>1 DEF vars, IInv, TypeOK, Orderly
<1>2. ASSUME NEW p \in Proc, Continue(p)
      PROVE  IInv'
  <2>1. CASE Resume(p)
    BY <2>1, ResumePlace
  <2>2. CASE Trap(p)
    BY <2>2, TrapPlace
  <2>3. CASE ExitDone(p)
    BY <2>3, ExitDonePlace
  <2>4. CASE WaitSleep(p)
    BY <2>4, WaitSleepPlace
  <2>5. CASE ForkDone(p)
    BY <2>5, ForkDonePlace
  <2>6. CASE WaitNoChild(p)
    BY <2>6, WaitNoChildPlace
  <2>7. CASE WaitNothing(p)
    BY <2>7, WaitNothingPlace
  <2>8. CASE \E q \in Proc : WaitZombie(p, q) \/ WaitStopped(p, q)
    BY <2>8, WaitZombiePlace, WaitStoppedPlace
  <2> QED  BY <1>2, <2>1, <2>2, <2>3, <2>4, <2>5, <2>6, <2>7, <2>8 DEF Continue
<1>3. ASSUME NEW p \in Proc, Enter(p)
      PROVE  IInv'
  <2>1. CASE \E c \in Chan, s \in 0..MaxSecs : Tsleep(p, c, s)
    BY <2>1, TsleepPlace
  <2>2. CASE Exit(p)
    BY <2>2, ExitPlace
  <2>3. CASE \E c \in Devices : ExitSleep(p, c)
    BY <2>3, ExitSleepPlace
  <2>4. CASE WaitNoChild(p) \/ WaitNothing(p)
    BY <2>4, WaitNoChildPlace, WaitNothingPlace
  <2>5. CASE \E q \in Proc : WaitZombie(p, q) \/ WaitStopped(p, q) \/ Fork(p, q)
    BY <2>5, WaitZombiePlace, WaitStoppedPlace, ForkPlace
  <2>6. CASE \E r \in Resets : r[1] = p /\ Ssig(p, r[2], r[3])
    <3>1. PICK r \in Resets : r[1] = p /\ Ssig(p, r[2], r[3])
      BY <2>6
    <3>2. r[2] \in Signals /\ r[3] \in Actions
      BY ProcAssumption
    <3> QED  BY <3>1, <3>2, SsigPlace
  <2> QED  BY <1>3, <2>1, <2>2, <2>3, <2>4, <2>5, <2>6 DEF Enter
<1>4. CASE \E p \in Targets, s \in Sent : Kill(p, s)
  BY <1>4, KillPlace
<1>5. CASE \E c \in Chan : WakeChan(c)
  BY <1>5, WakeChanPlace
<1>6. CASE Tick
  BY <1>6, TickPlace
<1> QED  BY <1>1, <1>2, <1>3, <1>4, <1>5, <1>6 DEF Next

\* The invariant: every process is in its place.
THEOREM PlacesKept == Spec => []IInv
<1>1. Init => IInv
  BY InitPlaces
<1>2. IInv /\ [Next]_vars => IInv'
  BY NextPlaces
<1> QED  BY <1>1, <1>2, PTL DEF Spec

\* A process is on a sleep queue only while it sleeps or is stopped, and a
\* sleeping process is on one, so that wakeup and swtch never panic; no clock
\* runs for a slot that is not in use.
THEOREM QueuesSound == Spec => []QueueOK
<1>1. IInv => QueueOK
  <2> SUFFICES ASSUME IInv, NEW p \in Proc
               PROVE  /\ proc[p].wchan # NoChan => proc[p].stat \in {"SSLEEP", "SSTOP"}
                      /\ proc[p].stat = "SSLEEP" => proc[p].wchan # NoChan
                      /\ proc[p].stat \in {"NULL", "SIDL", "SZOMB"} => proc[p].tsl = 0 /\ ~proc[p].stimo
    BY DEF QueueOK, IInv
  <2>1. Place(proc[p], pc[p], call[p], due[p])
    BY DEF IInv, Orderly
  <2> QED  BY <2>1 DEF Place, InCall
<1> QED  BY <1>1, PlacesKept, PTL

-----------------------------------------------------------------------------
(* What tsleep returns                                                     *)

\* Only a sleep that returns or begins has a result.
Truly(p) == res'[p] # res[p] => /\ res'[p] = "TS_TIME" => due[p] = 0
                                /\ res'[p] = "TS_SIG" => proc'[p].cursig # NoSig

\* The result of a tsleep that a signal ends on its way in.
LEMMA SleepTruly ==
  ASSUME TypeOK, NEW t \in Table, NEW p \in Proc, NEW c \in Chan \cup Proc,
         NEW hi \in BOOLEAN, NEW k, Sleep(t, p, c, hi, k)
  PROVE  \A q \in Proc : Truly(q)
<1>t. res \in [Proc -> Results]
  BY TypeFacts
<1>1. PICK b \in Entry : \/ Slept(t, b, p, k)
                         \/ hi /\ Stopped(t, b, p, "stop1", k)
                         \/ hi /\ Broken(t, b, p, k)
  BY SleepFacts
<1>2. CASE Slept(t, b, p, k) \/ Stopped(t, b, p, "stop1", k)
  BY <1>2 DEF Slept, Stopped, Truly
<1>3. CASE Broken(t, b, p, k)
  <2>1. proc'[p].cursig # NoSig
    BY <1>3, SignalFacts DEF Broken
  <2>2. Result(p, k, "TS_SIG")
    BY <1>3 DEF Broken
  <2>3. res' = [res EXCEPT ![p] = "TS_SIG"] \/ res' = res
    BY <2>2 DEF Result
  <2> QED  BY <1>t, <2>1, <2>3 DEF Truly
<1> QED  BY <1>1, <1>2, <1>3

\* The result of a sleep that returns.
LEMMA ReturnsTruly ==
  ASSUME IInv, NEW p \in Proc, NEW t, Returns(t, p, call[p]), t[p].stimo = proc[p].stimo
  PROVE  \A q \in Proc : Truly(q)
<1>t. res \in [Proc -> Results] /\ proc[p] \in Entry
  BY TypeFacts DEF IInv
<1> DEFINE r == IF t[p].stimo THEN "TS_TIME" ELSE "TS_OK"
<1>1. Result(p, call[p], r)
  BY DEF Returns
<1>2. CASE call[p] # "tsleep"
  BY <1>1, <1>2 DEF Result, Truly
<1>3. CASE call[p] = "tsleep"
  <2>1. res' = [res EXCEPT ![p] = r]
    BY <1>1, <1>3 DEF Result
  <2>2. r = "TS_TIME" => due[p] = 0
    <3>1. Place(proc[p], pc[p], call[p], due[p])
      BY DEF IInv, Orderly
    <3>2. proc[p].stimo \in BOOLEAN
      BY <1>t DEF Entry
    <3> QED  BY <1>3, <3>1, <3>2 DEF Place
  <2>3. r # "TS_SIG"
    OBVIOUS
  <2> HIDE DEF r
  <2> QED  BY <1>t, <2>1, <2>2, <2>3 DEF Truly
<1> QED  BY <1>2, <1>3

\* Every step tells the truth of a tsleep that it ends.
LEMMA NextTruly ==
  ASSUME IInv, [Next]_vars
  PROVE  \A q \in Proc : Truly(q)
<1>t. TypeOK /\ proc \in Table
  BY TypeFacts DEF IInv
<1>0. CASE res' = res
  BY <1>0 DEF Truly
<1>1. ASSUME NEW p \in Proc, Resume(p)
      PROVE  \A q \in Proc : Truly(q)
  <2>1. CASE Returns(proc, p, call[p])
    BY <2>1, ReturnsTruly
  <2>2. ASSUME NEW t \in Table, Looks(t, p), Issig(t[p]) = "none",
               Returns(Looked(t, p), p, call[p])
        PROVE  \A q \in Proc : Truly(q)
    <3>1. PICK u : u = Looked(t, p)
      OBVIOUS
    <3>2. Picked(t[p], u[p])
      BY <2>2, <3>1, LookedNone
    <3>3. u[p].stimo = proc[p].stimo
      BY <2>2, <3>2 DEF Looks, Picked
    <3>4. Returns(u, p, call[p])
      BY <2>2, <3>1
    <3> QED  BY <3>3, <3>4, ReturnsTruly
  <2>3. ASSUME NEW t \in Table,
               Stopped(t, t[p], p, IF pc[p] = "sleep" THEN "stop2" ELSE pc[p], call[p])
        PROVE  \A q \in Proc : Truly(q)
    BY <1>0, <2>3 DEF Stopped
  <2>4. ASSUME NEW t \in Table, Broken(t, t[p], p, call[p])
        PROVE  \A q \in Proc : Truly(q)
    <3>1. proc'[p].cursig # NoSig
      BY <2>4, SignalFacts DEF Broken
    <3>2. Result(p, call[p], "TS_SIG")
      BY <2>4 DEF Broken
    <3>3. res' = [res EXCEPT ![p] = "TS_SIG"] \/ res' = res
      BY <3>2 DEF Result
    <3>4. res \in [Proc -> Results]
      BY <1>t, TypeFacts
    <3> QED  BY <3>1, <3>3, <3>4 DEF Truly
  <2> QED  BY <1>1, <1>t, <2>1, <2>2, <2>3, <2>4, ResumeFacts
<1>2. ASSUME NEW p \in Proc, Continue(p)
      PROVE  \A q \in Proc : Truly(q)
  <2>1. CASE Resume(p)
    BY <1>1, <2>1
  <2>2. CASE Trap(p)
    <3>1. res' = res
      BY <2>2, <1>t, TrapFacts, PsigFacts, SMTT(60) DEF Trap, Psig, Stays
    <3> QED  BY <1>0, <3>1, SMTT(60)
  <2>3. CASE ExitDone(p) \/ ForkDone(p) \/ WaitNoChild(p) \/ WaitNothing(p)
             \/ \E q \in Proc : WaitZombie(p, q) \/ WaitStopped(p, q)
    BY <1>0, <2>3 DEF ExitDone, ForkDone, WaitNoChild, WaitNothing, WaitZombie, WaitStopped
  <2>4. CASE WaitSleep(p)
    <3>1. Sleep(proc, p, p, TRUE, "wait")
      BY <2>4 DEF WaitSleep
    <3>2. PICK t \in Table, c \in Chan \cup Proc, hi \in BOOLEAN, k \in Ks :
            t = proc /\ c = p /\ hi = TRUE /\ k = "wait"
      BY <1>t DEF Ks
    <3>3. Sleep(t, p, c, hi, k)
      BY <3>1, <3>2
    <3> QED  BY <1>t, <3>3, SleepTruly, ZenonT(30)
  <2> QED  BY <1>2, <2>1, <2>2, <2>3, <2>4 DEF Continue
<1>3. ASSUME NEW p \in Proc, Enter(p)
      PROVE  \A q \in Proc : Truly(q)
  <2>1. ASSUME NEW c0 \in Chan, NEW s \in 0..MaxSecs, Tsleep(p, c0, s)
        PROVE  \A q \in Proc : Truly(q)
    <3>1. Sleep([proc EXCEPT ![p].tsl = s], p, c0, c0 \in Terminals, "tsleep")
      BY <2>1 DEF Tsleep
    <3>2. [proc EXCEPT ![p].tsl = s] \in Table
      <4>1. [proc[p] EXCEPT !.tsl = s] \in Entry
        BY <1>t DEF Table, Entry
      <4>2. [proc EXCEPT ![p].tsl = s] = [proc EXCEPT ![p] = [proc[p] EXCEPT !.tsl = s]]
        BY <1>t DEF Table
      <4> QED  BY <1>t, <4>1, <4>2 DEF Table
    <3>3. PICK t \in Table : t = [proc EXCEPT ![p].tsl = s]
      BY <3>2
    <3>4. PICK hi \in BOOLEAN : hi = (c0 \in Terminals)
      <4>1. (c0 \in Terminals) = TRUE \/ (c0 \in Terminals) = FALSE
        OBVIOUS
      <4> QED  BY <4>1, Zenon
    <3>5. PICK c \in Chan \cup Proc, k \in Ks : c = c0 /\ k = "tsleep"
      BY DEF Ks
    <3>6. Sleep(t, p, c, hi, k)
      BY <3>1, <3>3, <3>4, <3>5
    <3> QED  BY <1>t, <3>6, SleepTruly, ZenonT(30)
  <2>2. CASE Exit(p)
    BY <1>0, <2>2 DEF Exit
  <2>3. ASSUME NEW d \in Devices, ExitSleep(p, d)
        PROVE  \A q \in Proc : Truly(q)
    <3>1. Sleep(proc, p, d, FALSE, "exit")
      BY <2>3 DEF ExitSleep
    <3>2. d \in Chan \cup Proc
      BY DEF Chan
    <3>3. PICK t \in Table, c \in Chan \cup Proc, hi \in BOOLEAN, k \in Ks :
            t = proc /\ c = d /\ hi = FALSE /\ k = "exit"
      BY <1>t, <3>2 DEF Ks
    <3>4. Sleep(t, p, c, hi, k)
      BY <3>1, <3>3
    <3> QED  BY <1>t, <3>4, SleepTruly, ZenonT(30)
  <2>4. CASE WaitNoChild(p) \/ WaitNothing(p)
    BY <1>0, <2>4 DEF WaitNoChild, WaitNothing
  <2>5. CASE \E q \in Proc : WaitZombie(p, q) \/ WaitStopped(p, q) \/ Fork(p, q)
    BY <1>0, <2>5 DEF WaitZombie, WaitStopped, Fork
  <2>6. CASE \E r \in Resets : r[1] = p /\ Ssig(p, r[2], r[3])
    BY <1>0, <2>6 DEF Ssig
  <2> QED  BY <1>3, <2>1, <2>2, <2>3, <2>4, <2>5, <2>6 DEF Enter
<1>4. CASE \/ \E p \in Targets, s \in Sent : Kill(p, s)
           \/ \E c \in Chan : WakeChan(c)
           \/ Tick \/ UNCHANGED vars
  BY <1>0, <1>4 DEF Kill, WakeChan, Tick, vars
<1> QED  BY <1>2, <1>3, <1>4 DEF Next

\* tsleep returns TS_TIME only when the seconds it was called with have
\* passed, and TS_SIG only with a signal for psig, although wakeups, stops and
\* other sleeps come in between.
THEOREM ResultsTrue == Spec => ResultTrue
<1>1. IInv /\ [Next]_vars => [\A p \in Proc :
         res'[p] # res[p] =>
           /\ res'[p] = "TS_TIME" => due[p] = 0
           /\ res'[p] = "TS_SIG" => proc'[p].cursig # NoSig]_vars
  BY NextTruly DEF Truly
<1> QED  BY <1>1, PlacesKept, PTL DEF Spec, ResultTrue

-----------------------------------------------------------------------------
(* wait finds the children that exit and stop                              *)

\* A process that sleeps in wait, or is stopped in it and still on the queue,
\* or is about to sleep, has nothing to wait for.
WaitsAt(k, w, l) == (k = "wait" /\ w # NoChan) \/ l = "wsleep"
Waits(p) == WaitsAt(call[p], proc[p].wchan, pc[p])
Notices ==
  \A p \in Proc :
    /\ call[p] = "wait" /\ proc[p].wchan # NoChan => proc[p].wchan = p
    /\ Waits(p) => \A q \in Proc : ~Zombie(p, q) /\ ~NewlyStopped(p, q)

\* A step after which q is no new zombie and not newly stopped.
Calm(q) ==
  /\ proc'[q].stat = "SZOMB" => proc[q].stat = "SZOMB" /\ proc'[q].pptr = proc[q].pptr
  /\ proc'[q].stat = "SSTOP" /\ ~proc'[q].wted =>
       proc[q].stat = "SSTOP" /\ ~proc[q].wted /\ proc'[q].pptr = proc[q].pptr
\* And one that makes no process wait that did not.
Remains(r) ==
  WaitsAt(call'[r], proc'[r].wchan, pc'[r]) =>
    /\ Waits(r)
    /\ call'[r] = "wait" /\ proc'[r].wchan # NoChan => proc'[r].wchan = r
\* q may be a new zombie or newly stopped: its parent does not sleep.
Told(q) ==
  \A r \in Proc : r = proc'[q].pptr => ~WaitsAt(call'[r], proc'[r].wchan, pc'[r])

\* A step in which every process remains or does not wait, and every child is
\* calm or its parent was told, keeps the notices.
LEMMA NoticesStep ==
  ASSUME Notices, \A r \in Proc : Remains(r), \A q \in Proc : Calm(q) \/ Told(q)
  PROVE  Notices'
<1>1. ASSUME NEW p \in Proc, call'[p] = "wait", proc'[p].wchan # NoChan
      PROVE  proc'[p].wchan = p
  BY <1>1 DEF Remains, WaitsAt
<1>2. ASSUME NEW p \in Proc, NEW q \in Proc, WaitsAt(call'[p], proc'[p].wchan, pc'[p])
      PROVE  /\ ~(proc'[q].pptr = p /\ proc'[q].stat = "SZOMB")
             /\ ~(proc'[q].pptr = p /\ proc'[q].stat = "SSTOP" /\ ~proc'[q].wted)
  <2>1. Waits(p)
    BY <1>2 DEF Remains
  <2>2. /\ ~(proc[q].pptr = p /\ proc[q].stat = "SZOMB")
        /\ ~(proc[q].pptr = p /\ proc[q].stat = "SSTOP" /\ ~proc[q].wted)
    BY <2>1 DEF Notices, Zombie, NewlyStopped, Child
  <2>3. CASE Calm(q)
    BY <2>2, <2>3 DEF Calm
  <2>4. CASE Told(q)
    BY <1>2, <2>4 DEF Told
  <2> QED  BY <2>3, <2>4
<1> QED  BY <1>1, <1>2 DEF Notices, Waits, Zombie, NewlyStopped, Child

\* A process that is awakened or sent a signal.
LEMMA MovedNotices ==
  ASSUME Notices, NEW q \in Proc, Moved(proc[q], proc'[q]), proc'[q].wted = proc[q].wted,
         pc'[q] = pc[q], call'[q] = call[q]
  PROVE  Remains(q) /\ (proc'[q].pptr = proc[q].pptr => Calm(q))
BY DEF Notices, Moved, Remains, Waits, WaitsAt, Calm

\* A process that does not wait and does not stop or die.
LEMMA ActiveNotices ==
  ASSUME NEW q \in Proc, proc'[q].stat \notin {"SZOMB", "SSTOP"}, call'[q] # "wait",
         pc'[q] # "wsleep"
  PROVE  Remains(q) /\ Calm(q)
BY DEF Remains, WaitsAt, Calm

\* A process whose parent was awakened while nobody was between the scan and
\* the sleep.
LEMMA ParentTold ==
  ASSUME NEW q \in Proc,
         \A r \in Proc : pc'[r] # "wsleep",
         \A r \in Proc : Remains(r),
         \A r \in Proc : r = proc'[q].pptr => proc'[r].wchan # r
  PROVE  Told(q)
BY DEF Told, Remains, WaitsAt

\* Who is between the scan and the sleep holds the processor.
LEMMA NobodyScans ==
  ASSUME IInv, cpu = NoProc
  PROVE  \A r \in Proc : pc[r] # "wsleep"
BY ProcAssumption DEF IInv, Orderly

\* A step of p by which it stops: the others are at most awakened or signalled.
LEMMA StoppedNotices ==
  ASSUME Notices, NEW p \in Proc,
         \A q \in Proc : q # p => /\ Moved(proc[q], proc'[q]) /\ proc'[q].wted = proc[q].wted
                                  /\ proc'[q].pptr = proc[q].pptr
                                  /\ pc'[q] = pc[q] /\ call'[q] = call[q]
                                  /\ pc[q] # "wsleep",
         \A q \in Proc : q = proc'[p].pptr => proc'[q].wchan # q,
         pc'[p] # "wsleep", Remains(p)
  PROVE  Notices'
<1>1. \A q \in Proc : q # p => Remains(q) /\ Calm(q)
  BY MovedNotices
<1>2. \A q \in Proc : Remains(q)
  BY <1>1
<1>3. Told(p)
  <2>1. \A q \in Proc : pc'[q] # "wsleep"
    OBVIOUS
  <2> QED  BY <1>2, <2>1, ParentTold
<1> QED  BY <1>1, <1>2, <1>3, NoticesStep

\* A step of p by which it neither waits, stops nor dies.
LEMMA ActiveStep ==
  ASSUME Notices, NEW p \in Proc,
         \A q \in Proc : q # p => /\ Moved(proc[q], proc'[q]) /\ proc'[q].wted = proc[q].wted
                                  /\ proc'[q].pptr = proc[q].pptr
                                  /\ pc'[q] = pc[q] /\ call'[q] = call[q],
         proc'[p].stat \notin {"SZOMB", "SSTOP"}, call'[p] # "wait", pc'[p] # "wsleep"
  PROVE  Notices'
<1>1. \A q \in Proc : q # p => Remains(q) /\ Calm(q)
  BY MovedNotices
<1>2. Remains(p) /\ Calm(p)
  BY ActiveNotices
<1> QED  BY <1>1, <1>2, NoticesStep

\* The entries that Others leaves alone.
LEMMA OthersAlone ==
  ASSUME NEW t \in Table, NEW p, Others(t, p), \A q \in Proc : q # p => t[q] = proc[q]
  PROVE  \A q \in Proc : q # p => /\ Moved(proc[q], proc'[q]) /\ proc'[q].wted = proc[q].wted
                                  /\ proc'[q].pptr = proc[q].pptr
BY DEF Others, Moved

\* Nor does psignal or wakeup make a zombie or stop anybody.
LEMMA StirredAlone ==
  ASSUME NEW t \in Table, NEW p, \A q \in Proc : q # p => Stirred(t[q], proc'[q]),
         \A q \in Proc : q # p => t[q] = proc[q]
  PROVE  \A q \in Proc : q # p => /\ Moved(proc[q], proc'[q]) /\ proc'[q].wted = proc[q].wted
                                  /\ proc'[q].pptr = proc[q].pptr
BY DEF Stirred, Shifted, Same

\* sleep, in tsleep, exit and wait.
LEMMA SleepNotices ==
  ASSUME TypeOK, Notices, NEW t \in Table, NEW p \in Proc, NEW c \in Chan \cup Proc,
         NEW hi \in BOOLEAN, NEW k, Sleep(t, p, c, hi, k), t[p].stat = "SRUN",
         \A q \in Proc : q # p => t[q] = proc[q] /\ pc[q] # "wsleep",
         k = "wait" => c = p /\ Waits(p)
  PROVE  Notices'
<1>t. pc \in [Proc -> Pcs] /\ call \in [Proc -> Ks]
  BY TypeFacts
<1>1. PICK b \in Entry :
        /\ b.wchan = c /\ b.hi = hi /\ b.stat = t[p].stat
        /\ Alike(t[p], b)
        /\ \/ Slept(t, b, p, k)
           \/ hi /\ Stopped(t, b, p, "stop1", k)
           \/ hi /\ Broken(t, b, p, k)
  BY SleepFacts
<1>2. CASE Slept(t, b, p, k)
  <2>1. /\ pc'[p] = "sleep" /\ call'[p] = k /\ Others(t, p)
        /\ \A q \in Proc : q # p => pc'[q] = pc[q] /\ call'[q] = call[q]
        /\ proc'[p].stat = "SSLEEP" /\ proc'[p].wchan = c
    BY <1>t, <1>1, <1>2 DEF Slept, Onto
  <2>2. \A q \in Proc : q # p => Remains(q) /\ Calm(q)
    BY <2>1, OthersAlone, MovedNotices
  <2>3. Remains(p) /\ Calm(p)
    BY <2>1 DEF Remains, WaitsAt, Calm
  <2> QED  BY <2>2, <2>3, NoticesStep
<1>3. CASE Stopped(t, b, p, "stop1", k)
  <2>1. /\ pc'[p] = "stop1" /\ call'[p] = k
        /\ \A q \in Proc : q # p => pc'[q] = pc[q] /\ call'[q] = call[q]
        /\ \A q \in Proc : q # p => Stirred(t[q], proc'[q])
        /\ \A q \in Proc : q = b.pptr => proc'[q].wchan # q
        /\ proc'[p].pptr = b.pptr /\ proc'[p].wchan \in {c, NoChan}
    BY <1>t, <1>1, <1>3 DEF Stopped, Onto, Halted
  <2>2. Remains(p)
    BY <2>1 DEF Remains, WaitsAt
  <2>3. pc'[p] # "wsleep" /\ \A q \in Proc : q = proc'[p].pptr => proc'[q].wchan # q
    BY <2>1
  <2> QED  BY <2>1, <2>2, <2>3, StirredAlone, StoppedNotices
<1>4. CASE Broken(t, b, p, k)
  <2>1. /\ pc'[p] = "trap" /\ call'[p] = "none" /\ Others(t, p)
        /\ \A q \in Proc : q # p => pc'[q] = pc[q] /\ call'[q] = call[q]
        /\ proc'[p].stat = "SRUN"
    BY <1>t, <1>1, <1>4 DEF Broken, Onto
  <2> QED  BY <2>1, OthersAlone, ActiveStep
<1> QED  BY <1>1, <1>2, <1>3, <1>4

\* tsleep, which is not wait.
LEMMA TsleepNotices ==
  ASSUME IInv, Notices, NEW p \in Proc, NEW c0 \in Chan, NEW s \in 0..MaxSecs, Tsleep(p, c0, s)
  PROVE  Notices'
<1>t. TypeOK /\ proc \in Table
  BY TypeFacts DEF IInv
<1>1. Sleep([proc EXCEPT ![p].tsl = s], p, c0, c0 \in Terminals, "tsleep")
      /\ cpu = NoProc /\ proc[p].stat = "SRUN"
  BY DEF Tsleep, Runs
<1>2. /\ [proc EXCEPT ![p].tsl = s] \in Table
      /\ [proc EXCEPT ![p].tsl = s][p].stat = proc[p].stat
      /\ \A q \in Proc : q # p => [proc EXCEPT ![p].tsl = s][q] = proc[q]
  <2>1. /\ [proc[p] EXCEPT !.tsl = s] \in Entry
        /\ [proc[p] EXCEPT !.tsl = s].stat = proc[p].stat
    BY <1>t DEF Table, Entry
  <2>2. [proc EXCEPT ![p].tsl = s] = [proc EXCEPT ![p] = [proc[p] EXCEPT !.tsl = s]]
    BY <1>t DEF Table
  <2> QED  BY <1>t, <2>1, <2>2 DEF Table
<1>3. PICK t \in Table : t = [proc EXCEPT ![p].tsl = s]
  BY <1>2
<1>4. PICK hi \in BOOLEAN : hi = (c0 \in Terminals)
  <2>1. (c0 \in Terminals) = TRUE \/ (c0 \in Terminals) = FALSE
    OBVIOUS
  <2> QED  BY <2>1, Zenon
<1>5. PICK c \in Chan \cup Proc, k \in Ks : c = c0 /\ k = "tsleep"
  BY DEF Ks
<1>6. Sleep(t, p, c, hi, k)
  BY <1>1, <1>3, <1>4, <1>5
<1>7. t[p].stat = "SRUN" /\ \A q \in Proc : q # p => t[q] = proc[q] /\ pc[q] # "wsleep"
  BY <1>1, <1>2, <1>3, NobodyScans
<1>8. k = "wait" => c = p /\ Waits(p)
  BY <1>5
<1> QED  BY <1>t, <1>6, <1>7, <1>8, SleepNotices, ZenonT(60)

\* A sleep in exit.
LEMMA ExitSleepNotices ==
  ASSUME IInv, Notices, NEW p \in Proc, NEW d \in Devices, ExitSleep(p, d)
  PROVE  Notices'
<1>t. TypeOK /\ proc \in Table
  BY TypeFacts DEF IInv
<1>1. Sleep(proc, p, d, FALSE, "exit") /\ cpu = NoProc /\ proc[p].stat = "SRUN"
  BY DEF ExitSleep, Runs
<1>2. d \in Chan \cup Proc
  BY DEF Chan
<1>3. PICK t \in Table, c \in Chan \cup Proc, hi \in BOOLEAN, k \in Ks :
        t = proc /\ c = d /\ hi = FALSE /\ k = "exit"
  BY <1>t, <1>2 DEF Ks
<1>4. Sleep(t, p, c, hi, k)
  BY <1>1, <1>3
<1>5. t[p].stat = "SRUN" /\ \A q \in Proc : q # p => t[q] = proc[q] /\ pc[q] # "wsleep"
  BY <1>1, <1>3, NobodyScans
<1>6. k = "wait" => c = p /\ Waits(p)
  BY <1>3
<1> QED  BY <1>t, <1>4, <1>5, <1>6, SleepNotices, ZenonT(60)

\* The sleep of wait: no child has died or stopped since the scan.
LEMMA WaitSleepNotices ==
  ASSUME IInv, Notices, NEW p \in Proc, WaitSleep(p)
  PROVE  Notices'
<1>t. TypeOK /\ proc \in Table /\ proc[p] \in Entry
  BY TypeFacts DEF IInv
<1>1. Sleep(proc, p, p, TRUE, "wait") /\ cpu = p /\ pc[p] = "wsleep"
  BY DEF WaitSleep
<1>2. proc[p].stat = "SRUN"
  <2>1. Place(proc[p], pc[p], call[p], due[p])
    BY DEF IInv, Orderly
  <2> QED  BY <1>1, <1>t, <2>1 DEF Place, Entry, Stat
<1>3. PICK t \in Table, c \in Chan \cup Proc, hi \in BOOLEAN, k \in Ks :
        t = proc /\ c = p /\ hi = TRUE /\ k = "wait"
  BY <1>t DEF Ks
<1>4. Sleep(t, p, c, hi, k)
  BY <1>1, <1>3
<1>5. t[p].stat = "SRUN" /\ \A q \in Proc : q # p => t[q] = proc[q] /\ pc[q] # "wsleep"
  <2>1. \A q \in Proc : cpu = q <=> pc[q] = "wsleep"
    BY DEF IInv, Orderly
  <2> QED  BY <1>1, <1>2, <1>3, <2>1
<1>6. k = "wait" => c = p /\ Waits(p)
  BY <1>1, <1>3 DEF Waits, WaitsAt
<1> QED  BY <1>t, <1>4, <1>5, <1>6, SleepNotices, ZenonT(60)

\* A sleep that returns waits no more.
LEMMA ReturnsNotices ==
  ASSUME IInv, Notices, NEW p \in Proc, NEW t \in Table, Returns(t, p, call[p]),
         \A q \in Proc : q # p => t[q] = proc[q], t[p].stat = "SRUN"
  PROVE  Notices'
<1>t. pc \in [Proc -> Pcs] /\ call \in [Proc -> Ks]
  BY TypeFacts DEF IInv
<1>1. Others(t, p) /\ Ended(t[p], proc'[p], call[p])
  BY EndTsleepFacts DEF Returns, Others
<1>2. /\ call'[p] = "none" /\ pc'[p] \in {"scan", "exiting", "trap"}
      /\ \A q \in Proc : q # p => pc'[q] = pc[q] /\ call'[q] = call[q]
  BY <1>t DEF Returns
<1>3. proc'[p].stat = "SRUN"
  BY <1>1 DEF Ended
<1>4. \A q \in Proc : q # p => /\ Moved(proc[q], proc'[q]) /\ proc'[q].wted = proc[q].wted
                               /\ proc'[q].pptr = proc[q].pptr
  BY <1>1, OthersAlone
<1> QED  BY <1>2, <1>3, <1>4, ActiveStep

\* A sleep goes on after swtch: the process may stop again.
LEMMA ResumeNotices ==
  ASSUME IInv, Notices, NEW p \in Proc, Resume(p)
  PROVE  Notices'
<1>t. /\ pc \in [Proc -> Pcs] /\ call \in [Proc -> Ks] /\ TypeOK /\ proc \in Table
  BY TypeFacts DEF IInv
<1>0. cpu = NoProc /\ proc[p].stat = "SRUN" /\ pc[p] \in InCall /\ proc[p].wchan = NoChan
  BY RunsFacts DEF Resume, Runs, InCall
<1>1. CASE Returns(proc, p, call[p])
  BY <1>0, <1>1, <1>t, ReturnsNotices
<1>2. ASSUME NEW t \in Table, Looks(t, p), Issig(t[p]) = "none",
             Returns(Looked(t, p), p, call[p])
      PROVE  Notices'
  <2>1. PICK u : u = Looked(t, p)
    OBVIOUS
  <2>2. /\ u \in Table /\ \A q \in Proc : q # p => u[q] = proc[q]
        /\ Picked(t[p], u[p])
    BY <1>2, <2>1, LookedNone DEF Looks
  <2>3. u[p].stat = "SRUN"
    BY <1>0, <1>2, <2>2 DEF Looks, Picked
  <2>4. Returns(u, p, call[p])
    BY <1>2, <2>1
  <2> QED  BY <2>2, <2>3, <2>4, ReturnsNotices
<1>3. ASSUME NEW t \in Table, Looks(t, p),
             Stopped(t, t[p], p, IF pc[p] = "sleep" THEN "stop2" ELSE pc[p], call[p])
      PROVE  Notices'
  <2>1. /\ pc'[p] \in {"stop1", "stop2"} /\ call'[p] = call[p]
        /\ \A q \in Proc : q # p => pc'[q] = pc[q] /\ call'[q] = call[q]
        /\ \A q \in Proc : q # p => Stirred(t[q], proc'[q])
        /\ \A q \in Proc : q = t[p].pptr => proc'[q].wchan # q
        /\ proc'[p].pptr = t[p].pptr /\ proc'[p].wchan \in {t[p].wchan, NoChan}
    BY <1>0, <1>t, <1>3 DEF Stopped, Onto, Halted, InCall
  <2>2. proc'[p].wchan = NoChan
    BY <1>0, <1>3, <2>1 DEF Looks, Picked
  <2>3. Remains(p)
    BY <2>1, <2>2 DEF Remains, WaitsAt
  <2>4. \A q \in Proc : q # p => /\ Moved(proc[q], proc'[q]) /\ proc'[q].wted = proc[q].wted
                                 /\ proc'[q].pptr = proc[q].pptr
    BY <1>3, <2>1, StirredAlone DEF Looks
  <2>5. pc'[p] # "wsleep" /\ \A q \in Proc : q = proc'[p].pptr => proc'[q].wchan # q
    BY <2>1
  <2> QED  BY <1>0, <2>1, <2>3, <2>4, <2>5, NobodyScans, StoppedNotices
<1>4. ASSUME NEW t \in Table, Looks(t, p), Broken(t, t[p], p, call[p])
      PROVE  Notices'
  <2>1. /\ pc'[p] = "trap" /\ call'[p] = "none" /\ Others(t, p)
        /\ \A q \in Proc : q # p => pc'[q] = pc[q] /\ call'[q] = call[q]
        /\ proc'[p].stat = "SRUN"
    BY <1>0, <1>t, <1>4 DEF Broken, Onto, Looks, Picked
  <2>2. \A q \in Proc : q # p => /\ Moved(proc[q], proc'[q]) /\ proc'[q].wted = proc[q].wted
                                 /\ proc'[q].pptr = proc[q].pptr
    BY <1>4, <2>1, OthersAlone DEF Looks
  <2> QED  BY <2>1, <2>2, ActiveStep
<1> QED  BY <1>t, <1>1, <1>2, <1>3, <1>4, ResumeFacts

\* The end of a system call or trap: the process may stop.
LEMMA TrapNotices ==
  ASSUME IInv, Notices, NEW p \in Proc, Trap(p)
  PROVE  Notices'
<1>t. /\ pc \in [Proc -> Pcs] /\ call \in [Proc -> Ks] /\ TypeOK /\ proc \in Table
  BY TypeFacts DEF IInv
<1>0. /\ cpu = NoProc /\ proc[p].stat = "SRUN" /\ call[p] = "none" /\ proc[p].wchan = NoChan
  BY RunsFacts DEF Trap, Runs, InCall
<1>1. PICK t \in Table :
        /\ Looks(t, p)
        /\ \/ t[p].cursig # NoSig /\ Psig(t, p)
           \/ /\ t[p].cursig = NoSig /\ Issig(t[p]) = "none"
              /\ proc' = Looked(t, p) /\ Onto(p, "user", "none") /\ res' = res
           \/ /\ t[p].cursig = NoSig /\ Stopped(t, t[p], p, "stopt", "none")
              /\ proc' \in Table
           \/ /\ t[p].cursig = NoSig /\ Issig(t[p]) = "send" /\ Psig(Looked(t, p), p)
  BY <1>t, TrapFacts
<1>a. ASSUME NEW u \in Table, Psig(u, p), u[p].cursig # NoSig, u[p].stat = "SRUN",
             \A q \in Proc : q # p => u[q] = proc[q]
      PROVE  Notices'
  <2>1. Others(u, p) /\ call' = call /\ proc'[p].stat = "SRUN"
        /\ (pc' = [pc EXCEPT ![p] = "user"] \/ pc' = [pc EXCEPT ![p] = "exit"])
    BY <1>a, PsigFacts
  <2>2. pc'[p] # "wsleep" /\ \A q \in Proc : q # p => pc'[q] = pc[q]
    BY <1>t, <2>1
  <2>3. \A q \in Proc : q # p => /\ Moved(proc[q], proc'[q]) /\ proc'[q].wted = proc[q].wted
                                 /\ proc'[q].pptr = proc[q].pptr
    BY <1>a, <2>1, OthersAlone
  <2> QED  BY <1>0, <2>1, <2>2, <2>3, ActiveStep
<1>2. CASE t[p].cursig # NoSig /\ Psig(t, p)
  BY <1>0, <1>1, <1>2, <1>a DEF Looks, Picked
<1>3. CASE /\ Issig(t[p]) = "none"
           /\ proc' = Looked(t, p) /\ Onto(p, "user", "none")
  <2>1. /\ Others(t, p) /\ Picked(t[p], proc'[p])
    BY <1>3, LookedNone DEF Others
  <2>2. pc'[p] = "user" /\ call'[p] = "none" /\ proc'[p].stat = "SRUN"
        /\ \A q \in Proc : q # p => pc'[q] = pc[q] /\ call'[q] = call[q]
    BY <1>0, <1>1, <1>3, <1>t, <2>1 DEF Onto, Looks, Picked
  <2>3. \A q \in Proc : q # p => /\ Moved(proc[q], proc'[q]) /\ proc'[q].wted = proc[q].wted
                                 /\ proc'[q].pptr = proc[q].pptr
    BY <1>1, <2>1, OthersAlone DEF Looks
  <2> QED  BY <2>2, <2>3, ActiveStep
<1>4. CASE Stopped(t, t[p], p, "stopt", "none")
  <2>1. /\ pc'[p] = "stopt" /\ call'[p] = "none"
        /\ \A q \in Proc : q # p => pc'[q] = pc[q] /\ call'[q] = call[q]
        /\ \A q \in Proc : q # p => Stirred(t[q], proc'[q])
        /\ \A q \in Proc : q = t[p].pptr => proc'[q].wchan # q
        /\ proc'[p].pptr = t[p].pptr
    BY <1>t, <1>4 DEF Stopped, Onto, Halted
  <2>2. Remains(p)
    BY <2>1 DEF Remains, WaitsAt
  <2>3. \A q \in Proc : q # p => /\ Moved(proc[q], proc'[q]) /\ proc'[q].wted = proc[q].wted
                                 /\ proc'[q].pptr = proc[q].pptr
    BY <1>1, <2>1, StirredAlone DEF Looks
  <2>4. pc'[p] # "wsleep" /\ \A q \in Proc : q = proc'[p].pptr => proc'[q].wchan # q
    BY <2>1
  <2> QED  BY <1>0, <2>1, <2>2, <2>3, <2>4, NobodyScans, StoppedNotices
<1>5. CASE Issig(t[p]) = "send" /\ Psig(Looked(t, p), p)
  <2>1. PICK u : u = Looked(t, p)
    OBVIOUS
  <2>2. /\ u \in Table /\ \A q \in Proc : q # p => u[q] = t[q]
        /\ Picked(t[p], u[p]) /\ u[p].cursig # NoSig
    BY <1>5, <2>1, LookedSend, SignalFacts
  <2>3. u[p].stat = "SRUN" /\ \A q \in Proc : q # p => u[q] = proc[q]
    BY <1>0, <1>1, <2>2 DEF Looks, Picked
  <2>4. Psig(u, p)
    BY <1>5, <2>1
  <2> QED  BY <1>a, <2>2, <2>3, <2>4
<1> QED  BY <1>1, <1>2, <1>3, <1>4, <1>5

\* exit makes a zombie, and wakes up its parent, and init for its children.
LEMMA ExitDoneNotices ==
  ASSUME IInv, Notices, NEW p \in Proc, ExitDone(p)
  PROVE  Notices'
<1>t. /\ pc \in [Proc -> Pcs] /\ TypeOK
  BY TypeFacts DEF IInv
<1>0. /\ cpu = NoProc /\ proc[p].stat = "SRUN" /\ call[p] = "none" /\ call' = call
      /\ pc' = [pc EXCEPT ![p] = "gone"]
  BY RunsFacts DEF ExitDone, Runs, InCall
<1>1. pc'[p] = "gone" /\ (\A q \in Proc : q # p => pc'[q] = pc[q])
      /\ \A q \in Proc : pc'[q] # "wsleep"
  BY <1>0, <1>t, NobodyScans
<1>2. /\ \A q \in Proc : q # p =>
           /\ Moved(proc[q], proc'[q]) /\ proc'[q].wted = proc[q].wted
           /\ proc'[q].pptr = IF proc[q].pptr = p THEN InitProc ELSE proc[q].pptr
      /\ proc'[p].pptr = proc[p].pptr
      /\ \A q \in Proc : q = proc[p].pptr => proc'[q].wchan # q
      /\ \A q \in Proc : q # p /\ proc[q].pptr = p => proc'[InitProc].wchan # InitProc
  BY <1>t, ExitDoneFacts
<1>3. \A q \in Proc : Remains(q)
  <2>1. Remains(p)
    BY <1>0, <1>1 DEF Remains, WaitsAt
  <2>2. \A q \in Proc : q # p => Remains(q)
    BY <1>0, <1>1, <1>2, MovedNotices
  <2> QED  BY <2>1, <2>2
<1>4. ASSUME NEW q \in Proc
      PROVE  Calm(q) \/ Told(q)
  <2>1. CASE q = p
    BY <1>1, <1>2, <1>3, <2>1, ParentTold
  <2>2. CASE q # p /\ proc[q].pptr = p
    BY <1>1, <1>2, <1>3, <2>2, ParentTold
  <2>3. CASE q # p /\ proc[q].pptr # p
    BY <1>0, <1>1, <1>2, <2>3, MovedNotices
  <2> QED  BY <2>1, <2>2, <2>3
<1> QED  BY <1>3, <1>4, NoticesStep

\* A process that is not on the queue and not about to sleep, and that does
\* not stop or die.
LEMMA AwakeNotices ==
  ASSUME NEW q \in Proc, proc'[q].stat \notin {"SZOMB", "SSTOP"}, proc'[q].wchan = NoChan,
         pc'[q] # "wsleep"
  PROVE  Remains(q) /\ Calm(q)
BY DEF Remains, WaitsAt, Calm

\* A process that the step leaves alone.
LEMMA AloneNotices ==
  ASSUME Notices, NEW q \in Proc, proc'[q] = proc[q], pc'[q] = pc[q], call'[q] = call[q]
  PROVE  Remains(q) /\ Calm(q)
BY DEF Notices, Remains, Waits, WaitsAt, Calm

\* signal() and the start of exit.
LEMMA UserNotices ==
  ASSUME IInv, Notices, NEW p \in Proc,
         Exit(p) \/ \E s \in Signals, a \in Actions : Ssig(p, s, a)
  PROVE  Notices'
<1>t. /\ pc \in [Proc -> Pcs] /\ proc \in Table /\ proc[p] \in Entry
  BY TypeFacts, SMTT(60) DEF IInv
<1>0. /\ proc[p].stat = "SRUN" /\ proc[p].wchan = NoChan /\ call' = call
      /\ pc' = [pc EXCEPT ![p] = "trap"] \/ pc' = [pc EXCEPT ![p] = "exit"]
  BY RunsFacts, ZenonT(60) DEF Exit, Ssig, Runs
<1>1. pc'[p] \in {"trap", "exit"} /\ \A q \in Proc : q # p => pc'[q] = pc[q]
  BY <1>0, <1>t
<1>2. /\ \A q \in Proc : q # p => proc'[q] = proc[q]
      /\ proc'[p].stat = "SRUN" /\ proc'[p].wchan = NoChan
  <2>1. CASE Exit(p)
    <3>1. proc' = [proc EXCEPT ![p] = Deaf(proc[p])]
      BY <2>1 DEF Exit
    <3>2. Deaf(proc[p]).stat = proc[p].stat /\ Deaf(proc[p]).wchan = proc[p].wchan
      BY <1>t DEF Deaf, Entry
    <3> QED  BY <1>0, <1>t, <3>1, <3>2 DEF Table
  <2>2. ASSUME NEW s \in Signals, NEW a \in Actions, Ssig(p, s, a)
        PROVE  /\ \A q \in Proc : q # p => proc'[q] = proc[q]
               /\ proc'[p].stat = "SRUN" /\ proc'[p].wchan = NoChan
    <3> DEFINE g == IF Usignal(proc[p], s) = "IGN" THEN proc[p].sig \ {s} ELSE proc[p].sig
               f == [proc[p] EXCEPT !.sig = g, !.act = [proc[p].act EXCEPT ![s] = a],
                                    !.reset = proc[p].reset \ {s}]
    <3>1. proc' = [proc EXCEPT ![p] = f]
      BY <2>2 DEF Ssig
    <3> HIDE DEF g
    <3>2. f.stat = proc[p].stat /\ f.wchan = proc[p].wchan
      BY <1>t DEF Entry
    <3> HIDE DEF f
    <3> QED  BY <1>0, <1>t, <3>1, <3>2 DEF Table
  <2> QED  BY <2>1, <2>2
<1>3. \A q \in Proc : Remains(q) /\ Calm(q)
  <2>1. Remains(p) /\ Calm(p)
    BY <1>1, <1>2, AwakeNotices
  <2>2. \A q \in Proc : q # p => Remains(q) /\ Calm(q)
    BY <1>0, <1>1, <1>2, AloneNotices
  <2> QED  BY <2>1, <2>2
<1> QED  BY <1>3, NoticesStep

\* The scan of wait finds a zombie or a stopped child, or there is no child.
LEMMA ScanNotices ==
  ASSUME IInv, Notices, NEW p \in Proc, NEW q \in Proc,
         WaitZombie(p, q) \/ WaitStopped(p, q) \/ WaitNoChild(p)
  PROVE  Notices'
<1>t. /\ pc \in [Proc -> Pcs] /\ proc \in Table /\ proc[q] \in Entry
  BY TypeFacts DEF IInv
<1>0. /\ proc[p].stat = "SRUN" /\ proc[p].wchan = NoChan /\ call' = call
      /\ pc' = [pc EXCEPT ![p] = "trap"] /\ cpu = NoProc
  BY RunsFacts DEF WaitZombie, WaitStopped, WaitNoChild, Wait, Runs
<1>1. /\ pc'[p] = "trap" /\ \A r \in Proc : r # p => pc'[r] = pc[r]
      /\ \A r \in Proc : pc'[r] # "wsleep"
  BY <1>0, <1>t, NobodyScans
<1>2. CASE WaitNoChild(p)
  <2>1. proc' = proc
    BY <1>2 DEF WaitNoChild
  <2>2. Remains(p) /\ Calm(p)
    BY <1>0, <1>1, <2>1, AwakeNotices
  <2>3. \A r \in Proc : r # p => Remains(r) /\ Calm(r)
    BY <1>0, <1>1, <2>1, AloneNotices
  <2>4. \A r \in Proc : Remains(r) /\ Calm(r)
    BY <2>2, <2>3
  <2> QED  BY <2>4, NoticesStep
<1>3. CASE WaitStopped(p, q)
  <2> DEFINE f == [proc[q] EXCEPT !.wted = TRUE]
  <2>1. proc' = [proc EXCEPT ![q] = f] /\ proc[q].stat = "SSTOP"
    BY <1>3, <1>t DEF WaitStopped, NewlyStopped, Table
  <2>2. f.stat = proc[q].stat /\ f.wted = TRUE /\ f.wchan = proc[q].wchan
    BY <1>t DEF Entry
  <2> HIDE DEF f
  <2>3. proc'[q] = f /\ \A r \in Proc : r # q => proc'[r] = proc[r]
    BY <1>t, <2>1 DEF Table
  <2>4. Remains(p) /\ Calm(p)
    BY <1>0, <1>1, <2>1, <2>3, AwakeNotices
  <2>5. Remains(q) /\ Calm(q)
    BY <1>0, <1>1, <2>1, <2>2, <2>3 DEF Notices, Remains, Waits, WaitsAt, Calm
  <2>6. \A r \in Proc : r # p /\ r # q => Remains(r) /\ Calm(r)
    BY <1>0, <1>1, <2>3, AloneNotices
  <2>7. \A r \in Proc : Remains(r) /\ Calm(r)
    BY <2>4, <2>5, <2>6
  <2> QED  BY <2>7, NoticesStep
<1>4. CASE WaitZombie(p, q)
  <2> DEFINE f == [proc[q] EXCEPT !.stat = "NULL", !.pptr = NoProc, !.sig = {}, !.cursig = NoSig,
                     !.act = [s \in Signals |-> "DFL"], !.reset = {}, !.wted = FALSE,
                     !.stimo = FALSE, !.wchan = NoChan]
  <2>1. proc' = [proc EXCEPT ![q] = f] /\ proc[q].stat = "SZOMB"
    BY <1>4, <1>t DEF WaitZombie, Zombie, Table
  <2>2. f.stat = "NULL" /\ f.wchan = NoChan
    BY <1>t DEF Entry
  <2> HIDE DEF f
  <2>3. proc'[q] = f /\ \A r \in Proc : r # q => proc'[r] = proc[r]
    BY <1>t, <2>1 DEF Table
  <2>4. Remains(p) /\ Calm(p)
    BY <1>0, <1>1, <2>1, <2>3, AwakeNotices
  <2>5. Remains(q) /\ Calm(q)
    BY <1>1, <2>2, <2>3, AwakeNotices
  <2>6. \A r \in Proc : r # p /\ r # q => Remains(r) /\ Calm(r)
    BY <1>0, <1>1, <2>3, AloneNotices
  <2>7. \A r \in Proc : Remains(r) /\ Calm(r)
    BY <2>4, <2>5, <2>6
  <2> QED  BY <2>7, NoticesStep
<1> QED  BY <1>2, <1>3, <1>4

\* The scan finds nothing, and no interrupt has come in yet.
LEMMA WaitNothingNotices ==
  ASSUME IInv, Notices, NEW p \in Proc, WaitNothing(p)
  PROVE  Notices'
<1>t. pc \in [Proc -> Pcs]
  BY TypeFacts DEF IInv
<1>0. /\ proc' = proc /\ call' = call /\ pc' = [pc EXCEPT ![p] = "wsleep"]
      /\ \A q \in Proc : ~Zombie(p, q) /\ ~NewlyStopped(p, q)
  BY DEF WaitNothing
<1>1. \A q \in Proc : q # p => pc'[q] = pc[q]
  BY <1>0, <1>t
<1>2. ASSUME NEW r \in Proc, WaitsAt(call'[r], proc'[r].wchan, pc'[r]), NEW q \in Proc
      PROVE  ~Zombie(r, q) /\ ~NewlyStopped(r, q)
  BY <1>0, <1>1, <1>2 DEF Notices, Waits, WaitsAt
<1>3. ASSUME NEW r \in Proc, call'[r] = "wait", proc'[r].wchan # NoChan
      PROVE  proc'[r].wchan = r
  BY <1>0, <1>3 DEF Notices
<1> QED  BY <1>0, <1>2, <1>3 DEF Notices, Waits, Zombie, NewlyStopped, Child

\* fork: the new process runs when it is complete.
LEMMA ForkNotices ==
  ASSUME IInv, Notices, NEW p \in Proc, NEW q \in Proc, Fork(p, q)
  PROVE  Notices'
<1>t. /\ pc \in [Proc -> Pcs] /\ proc \in Table /\ proc[q] \in Entry
  BY TypeFacts DEF IInv
<1>0. /\ proc[p].stat = "SRUN" /\ proc[p].wchan = NoChan /\ call' = call
      /\ pc' = [pc EXCEPT ![p] = "fork"] /\ cpu = NoProc
  BY RunsFacts DEF Fork, Runs
<1>1. /\ pc'[p] = "fork" /\ \A r \in Proc : r # p => pc'[r] = pc[r]
      /\ \A r \in Proc : pc'[r] # "wsleep"
  BY <1>0, <1>t, NobodyScans
<1> DEFINE f == [proc[q] EXCEPT !.stat = "SIDL", !.pptr = p, !.act = proc[p].act,
                   !.reset = proc[p].reset, !.wted = FALSE, !.stimo = FALSE, !.wchan = NoChan]
<1>2. proc' = [proc EXCEPT ![q] = f] /\ proc[q].stat = "NULL"
  BY <1>t DEF Fork, Table
<1>3. f.stat = "SIDL" /\ f.wchan = NoChan
  BY <1>t DEF Entry
<1> HIDE DEF f
<1>4. proc'[q] = f /\ \A r \in Proc : r # q => proc'[r] = proc[r]
  BY <1>t, <1>2 DEF Table
<1>5. Remains(p) /\ Calm(p)
  BY <1>0, <1>1, <1>2, <1>4, AwakeNotices
<1>6. Remains(q) /\ Calm(q)
  BY <1>1, <1>3, <1>4, AwakeNotices
<1>7. \A r \in Proc : r # p /\ r # q => Remains(r) /\ Calm(r)
  BY <1>0, <1>1, <1>4, AloneNotices
<1>8. \A r \in Proc : Remains(r) /\ Calm(r)
  BY <1>5, <1>6, <1>7
<1> QED  BY <1>8, NoticesStep

\* The new process runs.
LEMMA ForkDoneNotices ==
  ASSUME IInv, Notices, NEW p \in Proc, ForkDone(p)
  PROVE  Notices'
<1>t. \A q \in Proc : proc[q] \in Entry
  BY TypeFacts DEF IInv
<1> DEFINE new == {q \in Proc : Child(p, q) /\ proc[q].stat = "SIDL"}
<1>0. /\ proc[p].stat = "SRUN" /\ proc[p].wchan = NoChan /\ call' = call
      /\ proc' = [q \in Proc |-> IF q \in new THEN Setrun(proc[q]) ELSE proc[q]]
      /\ pc' = [q \in Proc |-> IF q \in new THEN "user" ELSE IF q = p THEN "trap" ELSE pc[q]]
  BY RunsFacts DEF ForkDone, Runs
<1> HIDE DEF new
<1>1. \A q \in Proc : Setrun(proc[q]).stat = "SRUN" /\ Setrun(proc[q]).wchan = NoChan
  BY <1>t, SetrunFacts
<1>2. ASSUME NEW r \in Proc
      PROVE  Remains(r) /\ Calm(r)
  <2>1. CASE r \in new
    <3>1. proc'[r] = Setrun(proc[r]) /\ pc'[r] = "user"
      BY <1>0, <2>1
    <3> QED  BY <1>1, <3>1, AwakeNotices
  <2>2. CASE r \notin new /\ r = p
    <3>1. proc'[r] = proc[r] /\ pc'[r] = "trap"
      BY <1>0, <2>2
    <3> QED  BY <1>0, <2>2, <3>1, AwakeNotices
  <2>3. CASE r \notin new /\ r # p
    BY <1>0, <2>3, AloneNotices
  <2> QED  BY <2>1, <2>2, <2>3
<1> QED  BY <1>2, NoticesStep

\* kill and the signals of terminals.  An interrupt sends no stop signal here:
\* it could stop a child after its parent has scanned and before it sleeps.
LEMMA KillNotices ==
  ASSUME TtySignals \cap Stops = {}, IInv, Notices, NEW p \in Targets, NEW s \in Sent, Kill(p, s)
  PROVE  Notices'
<1>p. p \in Proc /\ s \in Posted
  BY ProcAssumption, PostedFacts
<1>t. proc \in Table /\ proc[p] \in Entry
  BY <1>p, TypeFacts DEF IInv
<1>0. /\ pc' = pc /\ call' = call /\ proc' = Psignal(proc, p, s)
      /\ s \in TtySignals \/ cpu = NoProc
  BY DEF Kill
<1>1. PICK t \in Table : t = proc
  BY <1>t
<1>2. CASE ~StopsSleeper(t[p], s)
  <2>1. \A q \in Proc : Stirred(proc[q], proc'[q])
    BY <1>0, <1>1, <1>2, <1>p, PsignalPosts
  <2>2. \A q \in Proc : /\ Moved(proc[q], proc'[q]) /\ proc'[q].wted = proc[q].wted
                        /\ proc'[q].pptr = proc[q].pptr
    BY <2>1 DEF Stirred, Shifted, Same
  <2>3. \A q \in Proc : Remains(q) /\ Calm(q)
    BY <1>0, <2>2, MovedNotices
  <2> QED  BY <2>3, NoticesStep
<1>3. CASE StopsSleeper(t[p], s)
  <2>1. /\ \A q \in Proc : q # p => Stirred(t[q], proc'[q])
        /\ Halted(t[p], Noted(t[p], s).sig \ {s}, proc'[p])
        /\ \A q \in Proc : q = t[p].pptr => proc'[q].wchan # q
    <3>1. /\ \A q \in Proc : q # p => Stirred(t[q], Psignal(t, p, s)[q])
          /\ Halted(t[p], Noted(t[p], s).sig \ {s}, Psignal(t, p, s)[p])
          /\ Unqueued(Psignal(t, p, s), t[p].pptr)
      BY <1>3, <1>p, PsignalStops
    <3>2. proc' = Psignal(t, p, s)
      BY <1>0, <1>1
    <3> QED  BY <3>1, <3>2 DEF Unqueued
  <2>2. /\ proc'[p].wchan \in {proc[p].wchan, NoChan} /\ proc'[p].pptr = proc[p].pptr
        /\ \A q \in Proc : q = proc'[p].pptr => proc'[q].wchan # q
    BY <1>1, <2>1 DEF Halted
  <2>3. \A q \in Proc : pc[q] # "wsleep"
    BY <1>0, <1>3, NobodyScans DEF StopsSleeper
  <2>4. Remains(p)
    BY <1>0, <1>p, <2>2 DEF Notices, Remains, Waits, WaitsAt
  <2>5. \A q \in Proc : q # p => /\ Moved(proc[q], proc'[q]) /\ proc'[q].wted = proc[q].wted
                                 /\ proc'[q].pptr = proc[q].pptr
    BY <1>1, <2>1, StirredAlone
  <2>6. \A q \in Proc : q # p => /\ Moved(proc[q], proc'[q]) /\ proc'[q].wted = proc[q].wted
                                 /\ proc'[q].pptr = proc[q].pptr
                                 /\ pc'[q] = pc[q] /\ call'[q] = call[q]
                                 /\ pc[q] # "wsleep"
    BY <1>0, <2>3, <2>5
  <2>7. pc'[p] # "wsleep"
    BY <1>0, <1>p, <2>3
  <2> QED  BY <1>p, <2>2, <2>4, <2>6, <2>7, StoppedNotices
<1> QED  BY <1>2, <1>3

\* A wakeup and the clock: the processes are at most awakened.
LEMMA WakeNotices ==
  ASSUME IInv, Notices, Tick \/ \E c \in Chan : WakeChan(c)
  PROVE  Notices'
<1>t. proc \in Table /\ \A q \in Proc : proc[q] \in Entry
  BY TypeFacts DEF IInv
<1>0. pc' = pc /\ call' = call
  BY DEF Tick, WakeChan
<1>1. \A q \in Proc : /\ Moved(proc[q], proc'[q]) /\ proc'[q].wted = proc[q].wted
                      /\ proc'[q].pptr = proc[q].pptr
  <2>1. ASSUME NEW c \in Chan, WakeChan(c), NEW q \in Proc
        PROVE  Stirred(proc[q], proc'[q])
    BY <1>t, <2>1, WakeupMoves DEF WakeChan
  <2>2. ASSUME Tick, NEW q \in Proc
        PROVE  /\ Moved(proc[q], proc'[q]) /\ proc'[q].wted = proc[q].wted
               /\ proc'[q].pptr = proc[q].pptr
    <3>1. proc'[q] = proc[q] \/ proc'[q] = Timein(proc[q])
      BY <2>2 DEF Tick
    <3>2. CASE proc'[q] = proc[q]
      BY <3>2 DEF Moved
    <3>3. CASE proc'[q] = Timein(proc[q])
      BY <1>t, <3>3, TimeinFacts, ZenonT(60)
    <3> QED  BY <3>1, <3>2, <3>3
  <2> QED  BY <2>1, <2>2 DEF Stirred, Shifted, Same
<1>2. \A q \in Proc : Remains(q) /\ Calm(q)
  BY <1>0, <1>1, MovedNotices
<1> QED  BY <1>2, NoticesStep

\* Every step keeps the notices.
LEMMA NextNotices ==
  ASSUME TtySignals \cap Stops = {}, IInv, Notices, [Next]_vars
  PROVE  Notices'
<1>1. CASE UNCHANGED vars
  BY <1>1 DEF vars, Notices, Waits, Zombie, NewlyStopped, Child
<1>2. ASSUME NEW p \in Proc, Continue(p)
      PROVE  Notices'
  BY <1>2, ResumeNotices, TrapNotices, ExitDoneNotices, WaitSleepNotices, ForkDoneNotices,
     ScanNotices, WaitNothingNotices DEF Continue
<1>3. ASSUME NEW p \in Proc, Enter(p)
      PROVE  Notices'
  <2>1. CASE \E c \in Chan, s \in 0..MaxSecs : Tsleep(p, c, s)
    BY <2>1, TsleepNotices
  <2>2. CASE \E c \in Devices : ExitSleep(p, c)
    BY <2>2, ExitSleepNotices
  <2>3. CASE Exit(p)
    BY <2>3, UserNotices
  <2>4. ASSUME NEW r \in Resets, r[1] = p, Ssig(p, r[2], r[3])
        PROVE  Notices'
    <3>1. r[2] \in Signals /\ r[3] \in Actions
      BY ProcAssumption
    <3> QED  BY <2>4, <3>1, UserNotices
  <2>5. CASE \/ WaitNoChild(p) \/ WaitNothing(p)
             \/ \E q \in Proc : WaitZombie(p, q) \/ WaitStopped(p, q) \/ Fork(p, q)
    BY <2>5, ScanNotices, WaitNothingNotices, ForkNotices
  <2> QED  BY <1>3, <2>1, <2>2, <2>3, <2>4, <2>5 DEF Enter
<1>4. CASE \E p \in Targets, s \in Sent : Kill(p, s)
  BY <1>4, KillNotices
<1>5. CASE Tick \/ \E c \in Chan : WakeChan(c)
  BY <1>5, WakeNotices
<1> QED  BY <1>1, <1>2, <1>3, <1>4, <1>5 DEF Next

\* init waits for children that all run.
LEMMA InitNotices ==
  ASSUME Init
  PROVE  Notices
<1>1. ASSUME NEW p \in Proc
      PROVE  /\ proc[p].stat \in {"SSLEEP", "SRUN", "NULL"}
             /\ proc[p].wchan # NoChan => proc[p].wchan = p
             /\ pc[p] # "wsleep"
  BY DEF Init
<1> QED  BY <1>1 DEF Notices, Zombie, NewlyStopped

\* No process sleeps in wait while it has a zombie, or a stopped child it was
\* not told of, whatever the processes, their signals and calls: the scan of
\* wait and its sleep are two steps, and exit, stop and the wakeups come in
\* between.  No interrupt sends a stop signal, for then it is not true.
THEOREM WaitsTold ==
  ASSUME TtySignals \cap Stops = {}
  PROVE  Spec => []WaitNotices
<1>1. IInv /\ Notices => WaitNotices
  <2> SUFFICES ASSUME IInv, Notices, NEW p \in Proc, NEW q \in Proc,
                      proc[p].stat = "SSLEEP", call[p] = "wait"
               PROVE  ~Zombie(p, q) /\ ~NewlyStopped(p, q)
    BY DEF WaitNotices
  <2>1. proc[p].wchan # NoChan
    BY DEF IInv, Orderly, Place
  <2> QED  BY <2>1 DEF Notices, Waits, WaitsAt
<1>2. IInv /\ Notices /\ [Next]_vars => Notices'
  BY NextNotices
<1>3. Init => Notices
  BY InitNotices
<1> QED  BY <1>1, <1>2, <1>3, PlacesKept, PTL DEF Spec

-----------------------------------------------------------------------------
(* Signals end interruptible sleeps, and only a fatal one kills            *)

\* signal() changes neither SIGKILL nor SIGSTOP.
Faithful(e) ==
  e.act[SIGKILL] = "DFL" /\ (SIGSTOP \in Signals => e.act[SIGSTOP] = "DFL")
\* Who is in exit ignores all signals.
Dying(l, k) == l \in {"exit", "exiting", "gone"} \/ k = "exit"
\* Where p_cursig is zero.
Cleared(l) == l \in {"user", "scan", "wsleep", "fork"}

\* What a process at l in call k knows of its signals: of those that are sent
\* only; none that should have ended its sleep, unless it stopped on its way
\* in; and while no stop signal but SIGSTOP is sent, p_cursig holds a SIGSTOP
\* only in a sleep that looks at its signals once more before it returns.
SigOK(e, l, k) ==
  /\ e.sig \subseteq Posted
  /\ l = "sleep" => Heeds(e)
  /\ Sent \cap Stops = {} => l # "stop1"
  /\ OnlyStop =>
       /\ e.stat = "SIDL" \/ ~Dying(l, k) => Faithful(e)
       /\ Cleared(l) \/ e.stat \in {"NULL", "SIDL"} => e.cursig = NoSig
       /\ k \in {"tsleep", "wait"} =>
            e.cursig \in {NoSig, SIGSTOP} /\ (~e.hi => e.cursig = NoSig)
       /\ k = "exit" => ~e.hi
       /\ l = "sleep" /\ k # "exit" => Going(e)
       /\ l = "trap" =>
            /\ e.cursig \notin Stops
            /\ e.cursig \in Ignorable => Usignal(e, e.cursig) = "CATCH"
SigInv == \A p \in Proc : SigOK(proc[p], pc[p], call[p])

\* What may happen to a process in a step of another, or of the clock.
Kin(e, f) ==
  /\ f.hi = e.hi /\ f.cursig = e.cursig /\ f.act = e.act /\ f.reset = e.reset
  /\ Moved(e, f) /\ Heeding(e, f)

\* A process that is sent a signal, or awakened, keeps what it knows.
LEMMA KinSig ==
  ASSUME NEW e, NEW f, NEW l, NEW k, SigOK(e, l, k), Kin(e, f)
  PROVE  SigOK(f, l, k)
<1>1. /\ f.sig \subseteq Posted
      /\ l = "sleep" => Heeds(f)
      /\ Going(e) => Going(f)
  BY DEF SigOK, Kin, Heeding
<1>2. f.stat \in {"NULL", "SIDL"} => f.stat = e.stat
  BY DEF Kin, Moved
<1>3. f.hi = e.hi /\ f.cursig = e.cursig /\ f.act = e.act /\ f.reset = e.reset
  BY DEF Kin
<1>4. Faithful(e) => Faithful(f)
  BY <1>3 DEF Faithful
<1>5. Usignal(f, f.cursig) = Usignal(e, e.cursig)
  BY <1>3 DEF Usignal
<1> QED  BY <1>1, <1>2, <1>3, <1>4, <1>5 DEF SigOK

\* What psignal and wakeup do is of this kind, and so is nothing.
LEMMA KinStirred ==
  ASSUME NEW e, NEW f, Stirred(e, f) \/ f = e
  PROVE  Kin(e, f)
<1>1. CASE Stirred(e, f)
  BY <1>1 DEF Stirred, Shifted, Same, Kin
<1>2. CASE f = e
  BY <1>2 DEF Kin, Moved, Heeding
<1> QED  BY <1>1, <1>2

\* A step of p, in which the others are at most awakened or sent signals.
LEMMA SigStep ==
  ASSUME SigInv, NEW p \in Proc,
         \A q \in Proc : q # p => Kin(proc[q], proc'[q]) /\ pc'[q] = pc[q] /\ call'[q] = call[q],
         SigOK(proc'[p], pc'[p], call'[p])
  PROVE  SigInv'
<1>1. ASSUME NEW q \in Proc, q # p
      PROVE  SigOK(proc'[q], pc'[q], call'[q])
  <2>1. SigOK(proc[q], pc[q], call[q])
    BY DEF SigInv
  <2>2. SigOK(proc'[q], pc[q], call[q])
    BY <1>1, <2>1, KinSig
  <2> QED  BY <1>1, <2>2
<1> QED  BY <1>1 DEF SigInv

\* The signal that stops a process is a stop signal that somebody sent.
LEMMA TakenStops ==
  ASSUME NEW b \in Entry, b.sig \subseteq Posted, Issig(b) = "stop"
  PROVE  /\ Taken(b) \in Stops /\ Sent \cap Stops # {}
         /\ OnlyStop => Taken(b) = SIGSTOP
<1>1. Taken(b) \in Stops /\ Taken(b) \in Posted
  BY IssigFacts, TakenFacts DEF StopSignal
<1>2. Taken(b) \in Sent
  BY <1>1 DEF Posted, Stops, SIGHUP, SIGKILL, SIGCONT, SIGCHLD, SIGSTOP, SIGTSTP, SIGTTIN, SIGTTOU
<1> QED  BY <1>1, <1>2, PostedFacts

\* The signal that issig leaves in p_cursig for psig is fatal or caught.
LEMMA SendingFatal ==
  ASSUME NEW b \in Entry, b.sig \subseteq Posted, OnlyStop, Faithful(b), Issig(b) = "send"
  PROVE  /\ Sending(b) \notin Stops
         /\ Sending(b) \in Ignorable => Usignal(b, Sending(b)) = "CATCH"
<1>k. SIGKILL \notin Stops /\ SIGKILL \notin Ignorable
  BY DEF Stops, Ignorable, Quiet, SIGKILL, SIGCONT, SIGSTOP, SIGTSTP, SIGTTIN, SIGTTOU,
         SIGTINT, SIGCHLD
<1>1. CASE StopSignal(b)
  BY <1>k, <1>1 DEF Sending
<1>2. CASE ~StopSignal(b)
  <2>0. Sending(b) = Taken(b)
    BY <1>2 DEF Sending
  <2>1. Effective(b) # {}
    BY IssigFacts
  <2>2. /\ Taken(b) \in b.sig /\ Taken(b) \in Signals
        /\ Taken(b) # SIGKILL => Taken(b) \in Effective(b)
    BY <2>1, TakenFacts
  <2>3. Taken(b) \notin Stops
    <3>1. SUFFICES ASSUME Taken(b) \in Stops PROVE FALSE
      OBVIOUS
    <3>2. Taken(b) = SIGSTOP
      BY <2>2, <3>1, PostedFacts
    <3>3. Usignal(b, Taken(b)) = "DFL"
      BY <2>2, <3>2 DEF Faithful, Usignal
    <3> QED  BY <1>2, <3>1, <3>3 DEF StopSignal
  <2>4. ASSUME Taken(b) \in Ignorable PROVE Usignal(b, Taken(b)) = "CATCH"
    <3>1. Taken(b) \in Effective(b)
      BY <1>k, <2>2, <2>4
    <3>2. Usignal(b, Taken(b)) # "DFL" /\ b.act[Taken(b)] \notin {"IGN", "HOLD"}
      BY <2>4, <3>1 DEF Effective, Pending
    <3> QED  BY <2>2, <3>2 DEF Usignal, Entry, Actions
  <2> QED  BY <2>0, <2>3, <2>4
<1> QED  BY <1>1, <1>2

\* The signals that issig leaves are among those that were there.
LEMMA LeftFacts ==
  ASSUME NEW b
  PROVE  Left(b) \subseteq b.sig
BY DEF Left

\* Nothing that ends a sleep is pending after issig has found nothing.
LEMMA NothingHeard ==
  ASSUME NEW b, NEW f, f.act = b.act, f.reset = b.reset, f.sig = b.sig \ Pending(b)
  PROVE  Heard(f)
<1>1. Pending(f) = {}
  BY DEF Pending
<1> QED  BY <1>1 DEF Heard, Effective

\* sleep, in tsleep, exit and wait.
LEMMA SleepSig ==
  ASSUME TypeOK, SigInv, NEW t \in Table, NEW p \in Proc, NEW c \in Chan \cup Proc,
         NEW hi \in BOOLEAN, NEW k \in Ks, Sleep(t, p, c, hi, k),
         Alike(proc[p], t[p]), t[p].cursig = proc[p].cursig,
         \A q \in Proc : q # p => t[q] = proc[q],
         call[p] = "none", t[p].stat = "SRUN",
         k # "exit" => Cleared(pc[p]), k = "exit" => hi = FALSE
  PROVE  SigInv'
<1>t. pc \in [Proc -> Pcs] /\ call \in [Proc -> Ks]
  BY TypeFacts
<1>1. PICK b \in Entry :
        /\ proc' \in Table /\ b.wchan = c /\ b.hi = hi /\ b.stat = t[p].stat
        /\ b.cursig = t[p].cursig /\ Alike(t[p], b)
        /\ \/ Slept(t, b, p, k)
           \/ hi /\ Stopped(t, b, p, "stop1", k)
           \/ hi /\ Broken(t, b, p, k)
  BY SleepFacts
<1>0. /\ SigOK(proc[p], pc[p], call[p])
      /\ b.sig = proc[p].sig /\ b.act = proc[p].act /\ b.reset = proc[p].reset
      /\ b.cursig = proc[p].cursig
  BY <1>1 DEF SigInv, Alike
<1>s. b.sig \subseteq Posted
  BY <1>0 DEF SigOK
<1>f. OnlyStop /\ k # "exit" => Faithful(b) /\ b.cursig = NoSig
  BY <1>0 DEF SigOK, Dying, Cleared, Faithful
<1>n. NoSig # SIGSTOP /\ NoSig \notin Stops /\ NoSig \notin Ignorable
  BY DEF NoSig, SIGSTOP, Stops, Ignorable, Quiet, SIGCONT, SIGTSTP, SIGTTIN, SIGTTOU, SIGTINT, SIGCHLD
<1>2. CASE Slept(t, b, p, k)
  <2>1. /\ pc'[p] = "sleep" /\ call'[p] = k
        /\ \A q \in Proc : q # p => pc'[q] = pc[q] /\ call'[q] = call[q]
        /\ \A q \in Proc : q # p => proc'[q] = proc[q]
    BY <1>t, <1>1, <1>2 DEF Slept, Onto, Others
  <2>2. /\ proc'[p].stat = "SSLEEP" /\ proc'[p].hi = b.hi /\ proc'[p].act = b.act
        /\ proc'[p].reset = b.reset /\ proc'[p].sig \subseteq b.sig
        /\ proc'[p].cursig \in {NoSig, b.cursig}
        /\ b.hi => proc'[p].sig = b.sig \ Pending(b)
    BY <1>2 DEF Slept
  <2>3. Heeds(proc'[p])
    BY <2>2, NothingHeard DEF Heeds
  <2>4. OnlyStop /\ k # "exit" => /\ Faithful(proc'[p]) /\ proc'[p].cursig = NoSig
                                  /\ Going(proc'[p])
    BY <1>f, <1>n, <2>2 DEF Faithful, Going
  <2>5. SigOK(proc'[p], "sleep", k)
    BY <1>1, <1>s, <2>2, <2>3, <2>4 DEF SigOK, Dying, Cleared
  <2> QED  BY <2>1, <2>5, KinStirred, SigStep
<1>3. CASE hi /\ Stopped(t, b, p, "stop1", k)
  <2>1. /\ pc'[p] = "stop1" /\ call'[p] = k
        /\ \A q \in Proc : q # p => pc'[q] = pc[q] /\ call'[q] = call[q]
        /\ \A q \in Proc : q # p => Stirred(proc[q], proc'[q])
        /\ Halted(b, Left(b), proc'[p]) /\ proc'[p].cursig = Taken(b) /\ Issig(b) = "stop"
    BY <1>t, <1>1, <1>3 DEF Stopped, Onto
  <2>2. /\ proc'[p].stat = "SSTOP" /\ proc'[p].hi = b.hi /\ proc'[p].act = b.act
        /\ proc'[p].sig \subseteq Posted
    BY <1>s, <2>1, LeftFacts, PostedFacts DEF Halted
  <2>3. SigOK(proc'[p], "stop1", k)
    BY <1>1, <1>3, <1>f, <1>s, <2>1, <2>2, TakenStops DEF SigOK, Dying, Cleared, Faithful
  <2> QED  BY <2>1, <2>3, KinStirred, SigStep
<1>4. CASE hi /\ Broken(t, b, p, k)
  <2>1. /\ pc'[p] = "trap" /\ call'[p] = "none"
        /\ \A q \in Proc : q # p => pc'[q] = pc[q] /\ call'[q] = call[q]
        /\ \A q \in Proc : q # p => proc'[q] = proc[q]
        /\ proc'[p].stat = "SRUN" /\ proc'[p].act = b.act /\ proc'[p].reset = b.reset
        /\ proc'[p].sig \subseteq Posted
        /\ proc'[p].cursig = Sending(b) /\ Issig(b) = "send"
    BY <1>t, <1>1, <1>4, <1>s, LeftFacts DEF Broken, Onto, Others
  <2>2. OnlyStop => Faithful(proc'[p]) /\ Usignal(proc'[p], Sending(b)) = Usignal(b, Sending(b))
    BY <1>4, <1>f, <2>1 DEF Faithful, Usignal
  <2>3. SigOK(proc'[p], "trap", "none")
    BY <1>4, <1>f, <1>s, <2>1, <2>2, SendingFatal DEF SigOK, Dying, Cleared
  <2> QED  BY <2>1, <2>3, KinStirred, SigStep
<1> QED  BY <1>1, <1>2, <1>3, <1>4

\* tsleep, from the trap to swtch.
LEMMA TsleepSig ==
  ASSUME IInv, SigInv, NEW p \in Proc, NEW c0 \in Chan, NEW s \in 0..MaxSecs, Tsleep(p, c0, s)
  PROVE  SigInv'
<1>t. TypeOK /\ proc \in Table
  BY TypeFacts DEF IInv
<1>1. Sleep([proc EXCEPT ![p].tsl = s], p, c0, c0 \in Terminals, "tsleep")
      /\ pc[p] = "user" /\ proc[p].stat = "SRUN"
  BY DEF Tsleep, Runs
<1>2. /\ [proc EXCEPT ![p].tsl = s] \in Table
      /\ [proc EXCEPT ![p].tsl = s][p].stat = proc[p].stat
      /\ [proc EXCEPT ![p].tsl = s][p].cursig = proc[p].cursig
      /\ Alike(proc[p], [proc EXCEPT ![p].tsl = s][p])
      /\ \A q \in Proc : q # p => [proc EXCEPT ![p].tsl = s][q] = proc[q]
  <2> DEFINE f == [proc[p] EXCEPT !.tsl = s]
  <2>1. f \in Entry /\ f.stat = proc[p].stat /\ f.cursig = proc[p].cursig /\ Alike(proc[p], f)
    BY <1>t DEF Table, Entry, Alike
  <2>2. [proc EXCEPT ![p].tsl = s] = [proc EXCEPT ![p] = f]
    BY <1>t DEF Table
  <2> HIDE DEF f
  <2> QED  BY <1>t, <2>1, <2>2 DEF Table
<1>3. PICK t \in Table : t = [proc EXCEPT ![p].tsl = s]
  BY <1>2
<1>4. PICK hi \in BOOLEAN : hi = (c0 \in Terminals)
  <2>1. (c0 \in Terminals) = TRUE \/ (c0 \in Terminals) = FALSE
    OBVIOUS
  <2> QED  BY <2>1, Zenon
<1>5. PICK c \in Chan \cup Proc, k \in Ks : c = c0 /\ k = "tsleep"
  BY DEF Ks
<1>6. Sleep(t, p, c, hi, k)
  BY <1>1, <1>3, <1>4, <1>5
<1>7. /\ t[p].stat = "SRUN" /\ t[p].cursig = proc[p].cursig /\ Alike(proc[p], t[p])
      /\ \A q \in Proc : q # p => t[q] = proc[q]
  BY <1>1, <1>2, <1>3
<1>8. call[p] = "none"
  BY <1>1, RunsFacts DEF InCall
<1>9. (k # "exit" => Cleared(pc[p])) /\ (k = "exit" => hi = FALSE)
  BY <1>1, <1>5 DEF Cleared
<1> QED  BY <1>t, <1>6, <1>7, <1>8, <1>9, SleepSig, ZenonT(60)

\* A sleep in exit.
LEMMA ExitSleepSig ==
  ASSUME IInv, SigInv, NEW p \in Proc, NEW d \in Devices, ExitSleep(p, d)
  PROVE  SigInv'
<1>t. TypeOK /\ proc \in Table
  BY TypeFacts DEF IInv
<1>1. Sleep(proc, p, d, FALSE, "exit") /\ pc[p] = "exit" /\ proc[p].stat = "SRUN"
  BY DEF ExitSleep, Runs
<1>2. d \in Chan \cup Proc
  BY DEF Chan
<1>3. PICK t \in Table, c \in Chan \cup Proc, hi \in BOOLEAN, k \in Ks :
        t = proc /\ c = d /\ hi = FALSE /\ k = "exit"
  BY <1>t, <1>2 DEF Ks
<1>4. Sleep(t, p, c, hi, k)
  BY <1>1, <1>3
<1>5. /\ t[p].stat = "SRUN" /\ t[p].cursig = proc[p].cursig /\ Alike(proc[p], t[p])
      /\ \A q \in Proc : q # p => t[q] = proc[q]
  BY <1>1, <1>3 DEF Alike
<1>6. call[p] = "none"
  BY <1>1, RunsFacts DEF InCall
<1>7. (k # "exit" => Cleared(pc[p])) /\ (k = "exit" => hi = FALSE)
  BY <1>3
<1> QED  BY <1>t, <1>4, <1>5, <1>6, <1>7, SleepSig, ZenonT(60)

\* The sleep of wait.
LEMMA WaitSleepSig ==
  ASSUME IInv, SigInv, NEW p \in Proc, WaitSleep(p)
  PROVE  SigInv'
<1>t. TypeOK /\ proc \in Table /\ proc[p] \in Entry
  BY TypeFacts DEF IInv
<1>1. Sleep(proc, p, p, TRUE, "wait") /\ pc[p] = "wsleep"
  BY DEF WaitSleep
<1>2. proc[p].stat = "SRUN" /\ call[p] = "none"
  <2>1. Place(proc[p], pc[p], call[p], due[p])
    BY DEF IInv, Orderly
  <2> QED  BY <1>1, <1>t, <2>1 DEF Place, Entry, Stat, InCall
<1>3. PICK t \in Table, c \in Chan \cup Proc, hi \in BOOLEAN, k \in Ks :
        t = proc /\ c = p /\ hi = TRUE /\ k = "wait"
  BY <1>t DEF Ks
<1>4. Sleep(t, p, c, hi, k)
  BY <1>1, <1>3
<1>5. /\ t[p].stat = "SRUN" /\ t[p].cursig = proc[p].cursig /\ Alike(proc[p], t[p])
      /\ \A q \in Proc : q # p => t[q] = proc[q]
  BY <1>2, <1>3 DEF Alike
<1>7. (k # "exit" => Cleared(pc[p])) /\ (k = "exit" => hi = FALSE)
  BY <1>1, <1>3 DEF Cleared
<1> QED  BY <1>t, <1>2, <1>4, <1>5, <1>7, SleepSig, ZenonT(60)

\* A process stops when it looks at its signals.
LEMMA StoppedSig ==
  ASSUME TypeOK, SigInv, NEW p \in Proc, NEW t \in Table, Looks(t, p),
         NEW l \in {"stop1", "stop2", "stopt"}, NEW k, Stopped(t, t[p], p, l, k),
         OnlyStop => Faithful(proc[p]) /\ k # "exit",
         k \in {"tsleep", "wait"} => proc[p].hi
  PROVE  SigInv'
<1>t. pc \in [Proc -> Pcs] /\ call \in [Proc -> Ks] /\ t[p] \in Entry
  BY TypeFacts DEF Table
<1>1. /\ t[p].sig = proc[p].sig /\ t[p].act = proc[p].act /\ t[p].hi = proc[p].hi
      /\ \A q \in Proc : q # p => t[q] = proc[q]
  BY DEF Looks, Picked, Alike
<1>s. t[p].sig \subseteq Posted
  BY <1>1 DEF SigInv, SigOK
<1>2. /\ pc'[p] = l /\ call'[p] = k
      /\ \A q \in Proc : q # p => pc'[q] = pc[q] /\ call'[q] = call[q]
      /\ \A q \in Proc : q # p => Stirred(proc[q], proc'[q])
      /\ Halted(t[p], Left(t[p]), proc'[p]) /\ proc'[p].cursig = Taken(t[p])
      /\ Issig(t[p]) = "stop"
  BY <1>t, <1>1 DEF Stopped, Onto
<1>3. /\ proc'[p].stat = "SSTOP" /\ proc'[p].hi = proc[p].hi /\ proc'[p].act = proc[p].act
      /\ proc'[p].sig \subseteq Posted
  BY <1>1, <1>s, <1>2, LeftFacts, PostedFacts DEF Halted
<1>4. Sent \cap Stops # {} /\ (OnlyStop => proc'[p].cursig = SIGSTOP)
  BY <1>t, <1>s, <1>2, TakenStops
<1>5. SigOK(proc'[p], l, k)
  BY <1>3, <1>4 DEF SigOK, Dying, Cleared, Faithful
<1> QED  BY <1>2, <1>5, KinStirred, SigStep

\* A signal ends a sleep.
LEMMA BrokenSig ==
  ASSUME TypeOK, SigInv, NEW p \in Proc, NEW t \in Table, Looks(t, p),
         NEW k, Broken(t, t[p], p, k), proc[p].stat = "SRUN",
         OnlyStop => Faithful(proc[p])
  PROVE  SigInv'
<1>t. pc \in [Proc -> Pcs] /\ call \in [Proc -> Ks] /\ t[p] \in Entry
  BY TypeFacts DEF Table
<1>1. /\ t[p].sig = proc[p].sig /\ t[p].act = proc[p].act /\ t[p].reset = proc[p].reset
      /\ t[p].stat = "SRUN"
      /\ \A q \in Proc : q # p => t[q] = proc[q]
  BY DEF Looks, Picked, Alike
<1>s. t[p].sig \subseteq Posted
  BY <1>1 DEF SigInv, SigOK
<1>2. /\ pc'[p] = "trap" /\ call'[p] = "none"
      /\ \A q \in Proc : q # p => pc'[q] = pc[q] /\ call'[q] = call[q]
      /\ \A q \in Proc : q # p => proc'[q] = proc[q]
      /\ proc'[p].stat = "SRUN" /\ proc'[p].act = t[p].act /\ proc'[p].reset = t[p].reset
      /\ proc'[p].sig \subseteq Posted
      /\ proc'[p].cursig = Sending(t[p]) /\ Issig(t[p]) = "send"
  BY <1>t, <1>1, <1>s, LeftFacts DEF Broken, Onto, Others
<1>3. OnlyStop => /\ Faithful(proc'[p]) /\ Faithful(t[p])
                  /\ Usignal(proc'[p], Sending(t[p])) = Usignal(t[p], Sending(t[p]))
  BY <1>1, <1>2 DEF Faithful, Usignal
<1>4. SigOK(proc'[p], "trap", "none")
  BY <1>t, <1>s, <1>2, <1>3, SendingFatal DEF SigOK, Dying, Cleared
<1> QED  BY <1>2, <1>4, KinStirred, SigStep

\* A sleep returns.
LEMMA ReturnsSig ==
  ASSUME TypeOK, SigInv, NEW p \in Proc, NEW u \in Table, Returns(u, p, call[p]),
         \A q \in Proc : q # p => u[q] = proc[q],
         u[p].stat = "SRUN", u[p].sig \subseteq Posted, u[p].act = proc[p].act,
         OnlyStop /\ call[p] # "exit" => u[p].cursig = NoSig /\ Faithful(proc[p])
  PROVE  SigInv'
<1>t. pc \in [Proc -> Pcs] /\ call \in [Proc -> Ks]
  BY TypeFacts
<1>1. Others(u, p) /\ Ended(u[p], proc'[p], call[p])
  BY EndTsleepFacts DEF Returns, Others
<1>2. /\ call'[p] = "none" /\ pc'[p] \in {"scan", "exiting", "trap"}
      /\ call[p] = "exit" => pc'[p] = "exiting"
      /\ \A q \in Proc : q # p => pc'[q] = pc[q] /\ call'[q] = call[q]
  BY <1>t DEF Returns
<1>3. /\ proc'[p].stat = "SRUN" /\ proc'[p].sig = u[p].sig /\ proc'[p].act = proc[p].act
      /\ proc'[p].cursig = u[p].cursig
  BY <1>1 DEF Ended
<1>4. \A q \in Proc : q # p => proc'[q] = proc[q]
  BY <1>1 DEF Others
<1>n. NoSig # SIGSTOP /\ NoSig \notin Stops /\ NoSig \notin Ignorable
  BY DEF NoSig, SIGSTOP, Stops, Ignorable, Quiet, SIGCONT, SIGTSTP, SIGTTIN, SIGTTOU, SIGTINT, SIGCHLD
<1>5. SigOK(proc'[p], pc'[p], "none")
  <2>1. CASE call[p] = "exit"
    BY <1>2, <1>3, <2>1 DEF SigOK, Dying, Cleared
  <2>2. CASE call[p] # "exit"
    BY <1>n, <1>2, <1>3, <2>2 DEF SigOK, Dying, Cleared, Faithful
  <2> QED  BY <2>1, <2>2
<1> QED  BY <1>2, <1>4, <1>5, KinStirred, SigStep

\* A process that goes on with a sleep in which SIGSTOP stopped it looks at
\* another signal then.
LEMMA GoingPends ==
  ASSUME NEW e \in Entry, e.stat = "SRUN", e.cursig = SIGSTOP, OnlyStop, Going(e), Faithful(e)
  PROVE  Pending(e) # {}
<1>1. Continued(e)
  BY DEF Going
<1>2. CASE SIGKILL \in e.sig
  BY <1>2 DEF Pending, Faithful
<1>3. CASE e.act[SIGCONT] \in {"DFL", "CATCH"} /\ SIGCONT \in e.sig
  BY <1>3 DEF Pending
<1>4. CASE SIGSTOP \in e.sig
  BY <1>4 DEF Pending, Faithful, Entry
<1> QED  BY <1>1, <1>2, <1>3, <1>4 DEF Continued

\* sleep, tsleep and wait go on after swtch.
LEMMA ResumeSig ==
  ASSUME IInv, SigInv, NEW p \in Proc, Resume(p)
  PROVE  SigInv'
<1>t. /\ pc \in [Proc -> Pcs] /\ call \in [Proc -> Ks] /\ TypeOK /\ proc \in Table
      /\ proc[p] \in Entry
  BY TypeFacts DEF IInv
<1>0. /\ proc[p].stat = "SRUN" /\ pc[p] \in InCall /\ call[p] \in {"tsleep", "wait", "exit"}
  BY <1>t, RunsFacts DEF Resume, Runs, InCall, Ks
<1>s. SigOK(proc[p], pc[p], call[p])
  BY DEF SigInv
<1>f. /\ OnlyStop /\ call[p] # "exit" => Faithful(proc[p])
      /\ OnlyStop /\ proc[p].hi => call[p] # "exit"
  BY <1>0, <1>s DEF SigOK, Dying, InCall
<1>1. CASE ~proc[p].hi /\ Returns(proc, p, call[p])
  <2>1. OnlyStop /\ call[p] # "exit" => proc[p].cursig = NoSig
    BY <1>0, <1>1, <1>s DEF SigOK
  <2>2. proc[p].sig \subseteq Posted
    BY <1>s DEF SigOK
  <2>3. PICK u \in Table : u = proc
    BY <1>t
  <2> QED  BY <1>t, <1>0, <1>f, <1>1, <2>1, <2>2, <2>3, ReturnsSig
<1>2. ASSUME NEW t \in Table, Looks(t, p), proc[p].hi, Issig(t[p]) = "none",
             t[p].cursig = (IF pc[p] = "sleep" \/ Pending(proc[p]) # {}
                              THEN proc[p].cursig ELSE NoSig),
             Returns(Looked(t, p), p, call[p])
      PROVE  SigInv'
  <2>1. PICK u : u = Looked(t, p)
    OBVIOUS
  <2>2. /\ u \in Table /\ \A q \in Proc : q # p => u[q] = proc[q]
        /\ Picked(t[p], u[p]) /\ u[p].sig \subseteq t[p].sig
        /\ u[p].cursig = IF Pending(t[p]) = {} THEN t[p].cursig ELSE NoSig
    BY <1>2, <2>1, LookedNone DEF Looks
  <2>3. /\ u[p].stat = "SRUN" /\ u[p].act = proc[p].act /\ u[p].sig \subseteq Posted
    BY <1>0, <1>2, <1>s, <2>2 DEF Looks, Picked, Alike, SigOK
  <2>4. Pending(t[p]) = Pending(proc[p])
    BY <1>2, LooksAlike DEF Looks
  <2>5. ASSUME OnlyStop, call[p] # "exit"
        PROVE  u[p].cursig = NoSig
    <3>1. SUFFICES ASSUME Pending(proc[p]) = {}, pc[p] = "sleep"
                   PROVE  proc[p].cursig = NoSig
      BY <1>2, <2>2, <2>4
    <3>2. proc[p].cursig \in {NoSig, SIGSTOP} /\ Going(proc[p])
      BY <1>0, <1>s, <2>5, <3>1 DEF SigOK
    <3> QED  BY <1>t, <1>0, <1>f, <2>5, <3>1, <3>2, GoingPends
  <2>6. Returns(u, p, call[p])
    BY <1>2, <2>1
  <2> QED  BY <1>t, <1>f, <2>2, <2>3, <2>5, <2>6, ReturnsSig
<1>3. ASSUME NEW t \in Table, Looks(t, p), proc[p].hi,
             Stopped(t, t[p], p, IF pc[p] = "sleep" THEN "stop2" ELSE pc[p], call[p])
      PROVE  SigInv'
  <2>1. PICK l \in {"stop1", "stop2", "stopt"} : l = IF pc[p] = "sleep" THEN "stop2" ELSE pc[p]
    BY <1>0 DEF InCall
  <2>2. Stopped(t, t[p], p, l, call[p])
    BY <1>3, <2>1
  <2> QED  BY <1>t, <1>f, <1>3, <2>2, StoppedSig
<1>4. ASSUME NEW t \in Table, Looks(t, p), proc[p].hi, Broken(t, t[p], p, call[p])
      PROVE  SigInv'
  BY <1>t, <1>0, <1>f, <1>4, BrokenSig
<1> QED  BY <1>t, <1>1, <1>2, <1>3, <1>4, ResumeFacts

\* psig takes the signal in p_cursig: it is caught, or the process dies.
LEMMA PsigSig ==
  ASSUME IInv, SigInv, NEW p \in Proc, NEW u \in Table, Psig(u, p), u[p].cursig # NoSig,
         \A q \in Proc : q # p => u[q] = proc[q],
         u[p].stat = "SRUN", u[p].sig \subseteq Posted, call[p] = "none",
         OnlyStop => Faithful(u[p])
  PROVE  SigInv'
<1>t. pc \in [Proc -> Pcs]
  BY TypeFacts DEF IInv
<1>1. /\ Others(u, p) /\ call' = call /\ proc'[p].stat = "SRUN" /\ proc'[p].sig = u[p].sig
      /\ \/ /\ proc'[p].cursig = NoSig /\ proc'[p].act = u[p].act
            /\ pc' = [pc EXCEPT ![p] = "user"]
         \/ pc' = [pc EXCEPT ![p] = "exit"]
  BY PsigFacts
<1>2. /\ \A q \in Proc : q # p => pc'[q] = pc[q] /\ call'[q] = call[q] /\ proc'[q] = proc[q]
      /\ \/ proc'[p].cursig = NoSig /\ proc'[p].act = u[p].act /\ pc'[p] = "user"
         \/ pc'[p] = "exit"
  BY <1>1, <1>t DEF Others
<1>3. SigOK(proc'[p], pc'[p], call'[p])
  BY <1>1, <1>2 DEF SigOK, Dying, Cleared, Faithful
<1> QED  BY <1>2, <1>3, KinStirred, SigStep

\* The end of a system call and of a trap.
LEMMA TrapSig ==
  ASSUME IInv, SigInv, NEW p \in Proc, Trap(p)
  PROVE  SigInv'
<1>t. /\ pc \in [Proc -> Pcs] /\ call \in [Proc -> Ks] /\ TypeOK /\ proc \in Table
  BY TypeFacts DEF IInv
<1>0. /\ proc[p].stat = "SRUN" /\ call[p] = "none" /\ pc[p] \in {"user", "trap", "stopt"}
  BY RunsFacts DEF Trap, Runs, InCall
<1>s. SigOK(proc[p], pc[p], call[p])
  BY DEF SigInv
<1>f. OnlyStop => Faithful(proc[p])
  BY <1>0, <1>s DEF SigOK, Dying
<1>1. PICK t \in Table :
        /\ Looks(t, p)
        /\ \/ t[p].cursig # NoSig /\ Psig(t, p)
           \/ /\ t[p].cursig = NoSig /\ Issig(t[p]) = "none"
              /\ proc' = Looked(t, p) /\ Onto(p, "user", "none") /\ res' = res
           \/ /\ t[p].cursig = NoSig /\ Stopped(t, t[p], p, "stopt", "none")
              /\ proc' \in Table
           \/ /\ t[p].cursig = NoSig /\ Issig(t[p]) = "send" /\ Psig(Looked(t, p), p)
  BY <1>t, TrapFacts
<1>2. /\ t[p].stat = "SRUN" /\ t[p].sig \subseteq Posted /\ t[p].act = proc[p].act
      /\ \A q \in Proc : q # p => t[q] = proc[q]
      /\ OnlyStop => Faithful(t[p])
  BY <1>0, <1>1, <1>f, <1>s DEF Looks, Picked, Alike, SigOK, Faithful
<1>3. CASE t[p].cursig # NoSig /\ Psig(t, p)
  BY <1>0, <1>2, <1>3, PsigSig
<1>4. CASE /\ t[p].cursig = NoSig /\ Issig(t[p]) = "none"
           /\ proc' = Looked(t, p) /\ Onto(p, "user", "none")
  <2>1. /\ Others(t, p) /\ Picked(t[p], proc'[p]) /\ proc'[p].sig \subseteq t[p].sig
        /\ proc'[p].cursig = NoSig
    BY <1>4, LookedNone DEF Others
  <2>2. pc'[p] = "user" /\ call'[p] = "none"
        /\ \A q \in Proc : q # p => pc'[q] = pc[q] /\ call'[q] = call[q] /\ proc'[q] = proc[q]
    BY <1>2, <1>4, <1>t, <2>1 DEF Onto, Others
  <2>3. SigOK(proc'[p], "user", "none")
    BY <1>2, <2>1 DEF Picked, SigOK, Dying, Cleared, Faithful
  <2> QED  BY <2>2, <2>3, KinStirred, SigStep
<1>5. CASE Stopped(t, t[p], p, "stopt", "none")
  <2>1. PICK l \in {"stop1", "stop2", "stopt"}, k \in Ks : l = "stopt" /\ k = "none"
    BY DEF Ks
  <2>2. Stopped(t, t[p], p, l, k)
    BY <1>5, <2>1
  <2> QED  BY <1>t, <1>1, <1>f, <2>1, <2>2, StoppedSig
<1>6. CASE t[p].cursig = NoSig /\ Issig(t[p]) = "send" /\ Psig(Looked(t, p), p)
  <2>1. PICK u : u = Looked(t, p)
    OBVIOUS
  <2>2. /\ u \in Table /\ \A q \in Proc : q # p => u[q] = proc[q]
        /\ Picked(t[p], u[p]) /\ u[p].cursig # NoSig /\ u[p].sig \subseteq t[p].sig
    BY <1>2, <1>6, <2>1, LookedSend, LeftFacts, SignalFacts
  <2>3. u[p].stat = "SRUN" /\ u[p].sig \subseteq Posted /\ (OnlyStop => Faithful(u[p]))
    BY <1>2, <2>2 DEF Picked, Faithful
  <2>4. Psig(u, p)
    BY <1>6, <2>1
  <2> QED  BY <1>0, <2>2, <2>3, <2>4, PsigSig
<1> QED  BY <1>1, <1>3, <1>4, <1>5, <1>6

\* signal(), which leaves SIGKILL and SIGSTOP alone, and the start of exit.
LEMMA UserSig ==
  ASSUME IInv, SigInv, NEW p \in Proc,
         Exit(p) \/ \E s \in Signals \ {SIGKILL, SIGSTOP}, a \in Actions : Ssig(p, s, a)
  PROVE  SigInv'
<1>t. /\ pc \in [Proc -> Pcs] /\ proc \in Table /\ proc[p] \in Entry
  BY TypeFacts, SMTT(60) DEF IInv
<1>0. proc[p].stat = "SRUN" /\ pc[p] = "user" /\ call[p] = "none" /\ call' = call
  BY RunsFacts, ZenonT(60) DEF Exit, Ssig, Runs, InCall
<1>s. SigOK(proc[p], "user", "none")
  BY <1>0 DEF SigInv
<1>n. NoSig \notin Stops /\ NoSig \notin Ignorable
  BY DEF NoSig, Stops, Ignorable, Quiet, SIGSTOP, SIGCONT, SIGTSTP, SIGTTIN, SIGTTOU, SIGTINT, SIGCHLD
<1>1. CASE Exit(p)
  <2>1. proc' = [proc EXCEPT ![p] = Deaf(proc[p])] /\ pc' = [pc EXCEPT ![p] = "exit"]
    BY <1>1 DEF Exit
  <2>2. Deaf(proc[p]).stat = proc[p].stat /\ Deaf(proc[p]).sig = proc[p].sig
    BY <1>t DEF Deaf, Entry
  <2>3. /\ proc'[p] = Deaf(proc[p]) /\ pc'[p] = "exit"
        /\ \A q \in Proc : q # p => proc'[q] = proc[q] /\ pc'[q] = pc[q]
    BY <1>t, <2>1 DEF Table
  <2>4. SigOK(proc'[p], pc'[p], call'[p])
    BY <1>0, <1>s, <2>2, <2>3 DEF SigOK, Dying, Cleared
  <2> QED  BY <1>0, <2>3, <2>4, KinStirred, SigStep
<1>2. ASSUME NEW s \in Signals \ {SIGKILL, SIGSTOP}, NEW a \in Actions, Ssig(p, s, a)
      PROVE  SigInv'
  <2> DEFINE g == IF Usignal(proc[p], s) = "IGN" THEN proc[p].sig \ {s} ELSE proc[p].sig
             f == [proc[p] EXCEPT !.sig = g, !.act = [proc[p].act EXCEPT ![s] = a],
                                  !.reset = proc[p].reset \ {s}]
  <2>1. proc' = [proc EXCEPT ![p] = f] /\ pc' = [pc EXCEPT ![p] = "trap"]
    BY <1>2 DEF Ssig
  <2>2. g \subseteq proc[p].sig
    OBVIOUS
  <2> HIDE DEF g
  <2>3. /\ f.stat = proc[p].stat /\ f.sig = g /\ f.cursig = proc[p].cursig
        /\ f.act = [proc[p].act EXCEPT ![s] = a]
    BY <1>t DEF Entry
  <2>4. Faithful(proc[p]) => Faithful(f)
    BY <1>t, <2>3, SignalFacts DEF Faithful, Entry
  <2> HIDE DEF f
  <2>5. /\ proc'[p] = f /\ pc'[p] = "trap"
        /\ \A q \in Proc : q # p => proc'[q] = proc[q] /\ pc'[q] = pc[q]
    BY <1>t, <2>1 DEF Table
  <2>6. SigOK(f, "trap", "none")
    BY <1>n, <1>0, <1>s, <2>2, <2>3, <2>4 DEF SigOK, Dying, Cleared
  <2> QED  BY <1>0, <2>5, <2>6, KinStirred, SigStep
<1> QED  BY <1>1, <1>2

\* exit: SIGCHLD for the parent, SIGHUP and SIGCONT for stopped children.
LEMMA ExitDoneSig ==
  ASSUME IInv, SigInv, NEW p \in Proc, ExitDone(p)
  PROVE  SigInv'
<1>t. pc \in [Proc -> Pcs] /\ TypeOK
  BY TypeFacts DEF IInv
<1>0. /\ call' = call /\ pc' = [pc EXCEPT ![p] = "gone"] /\ call[p] = "none"
  BY RunsFacts DEF ExitDone, Runs, InCall
<1>1. pc'[p] = "gone" /\ \A q \in Proc : q # p => pc'[q] = pc[q]
  BY <1>0, <1>t
<1>2. \A q \in Proc : q # p => Kin(proc[q], proc'[q])
  BY <1>t, ExitDoneFacts DEF Kin
<1>3. proc'[p].stat = "SZOMB" /\ (proc[p].sig \subseteq Posted => proc'[p].sig \subseteq Posted)
  BY <1>t, ExitDoneFacts
<1>4. proc[p].sig \subseteq Posted
  BY DEF SigInv, SigOK
<1>5. SigOK(proc'[p], "gone", "none")
  BY <1>3, <1>4 DEF SigOK, Dying, Cleared
<1> QED  BY <1>0, <1>1, <1>2, <1>5, SigStep

\* wait and fork, of which the caller itself keeps its entry.
LEMMA CallerSig ==
  ASSUME SigInv, NEW p \in Proc, proc'[p] = proc[p], call'[p] = call[p], call[p] = "none",
         proc[p].stat = "SRUN", pc[p] \in {"user", "scan", "fork"},
         pc'[p] \in {"trap", "wsleep", "fork"}
  PROVE  SigOK(proc'[p], pc'[p], call'[p])
<1>1. SigOK(proc[p], pc[p], call[p])
  BY DEF SigInv
<1>n. NoSig \notin Stops /\ NoSig \notin Ignorable
  BY DEF NoSig, Stops, Ignorable, Quiet, SIGSTOP, SIGCONT, SIGTSTP, SIGTTIN, SIGTTOU, SIGTINT, SIGCHLD
<1> QED  BY <1>1, <1>n DEF SigOK, Dying, Cleared

\* The scan of wait.
LEMMA ScanSig ==
  ASSUME IInv, SigInv, NEW p \in Proc, NEW q \in Proc,
         WaitZombie(p, q) \/ WaitStopped(p, q) \/ WaitNoChild(p) \/ WaitNothing(p)
  PROVE  SigInv'
<1>t. /\ pc \in [Proc -> Pcs] /\ proc \in Table /\ proc[q] \in Entry
  BY TypeFacts DEF IInv
<1>0. /\ proc[p].stat = "SRUN" /\ call' = call /\ call[p] = "none" /\ pc[p] \in {"user", "scan"}
      /\ pc' = [pc EXCEPT ![p] = "trap"] \/ pc' = [pc EXCEPT ![p] = "wsleep"]
  BY RunsFacts DEF WaitZombie, WaitStopped, WaitNoChild, WaitNothing, Wait, Runs, InCall
<1>1. /\ pc'[p] \in {"trap", "wsleep"} /\ \A r \in Proc : r # p => pc'[r] = pc[r]
  BY <1>0, <1>t
<1>2. CASE WaitNoChild(p) \/ WaitNothing(p)
  <2>1. proc' = proc
    BY <1>2 DEF WaitNoChild, WaitNothing
  <2> QED  BY <1>0, <1>1, <2>1, CallerSig, KinStirred, SigStep
<1>3. CASE WaitStopped(p, q)
  <2> DEFINE f == [proc[q] EXCEPT !.wted = TRUE]
  <2>1. proc' = [proc EXCEPT ![q] = f] /\ proc[q].stat = "SSTOP"
    BY <1>3, <1>t DEF WaitStopped, NewlyStopped, Table
  <2>2. /\ f.stat = proc[q].stat /\ f.wchan = proc[q].wchan /\ f.hi = proc[q].hi
        /\ f.sig = proc[q].sig /\ f.cursig = proc[q].cursig /\ f.act = proc[q].act
        /\ f.reset = proc[q].reset
    BY <1>t DEF Entry
  <2> HIDE DEF f
  <2>3. Heard(proc[q]) => Heard(f)
    BY <2>2, HeardLess
  <2>4. Kin(proc[q], f)
    BY <2>2, <2>3 DEF Kin, Moved, Heeding, Heeds, Going, Continued
  <2>5. q # p /\ proc'[q] = f /\ \A r \in Proc : r # q => proc'[r] = proc[r]
    BY <1>0, <1>t, <2>1 DEF Table
  <2>6. \A r \in Proc : r # p => Kin(proc[r], proc'[r])
    BY <2>4, <2>5, KinStirred
  <2>7. SigOK(proc'[p], pc'[p], call'[p])
    BY <1>0, <1>1, <2>5, CallerSig
  <2> QED  BY <1>0, <1>1, <2>6, <2>7, SigStep
<1>4. CASE WaitZombie(p, q)
  <2> DEFINE f == [proc[q] EXCEPT !.stat = "NULL", !.pptr = NoProc, !.sig = {}, !.cursig = NoSig,
                     !.act = [s \in Signals |-> "DFL"], !.reset = {}, !.wted = FALSE,
                     !.stimo = FALSE, !.wchan = NoChan]
  <2>1. proc' = [proc EXCEPT ![q] = f] /\ proc[q].stat = "SZOMB"
    BY <1>4, <1>t DEF WaitZombie, Zombie, Table
  <2>2. f.stat = "NULL" /\ f.sig = {} /\ f.cursig = NoSig
    BY <1>t DEF Entry
  <2> HIDE DEF f
  <2>3. q # p /\ proc'[q] = f /\ \A r \in Proc : r # q => proc'[r] = proc[r]
    BY <1>0, <1>t, <2>1 DEF Table
  <2>4. pc[q] = "gone" /\ call[q] = "none"
    BY <2>1 DEF IInv, Orderly, Place, InCall
  <2>5. SigOK(proc'[q], pc'[q], call'[q])
    BY <1>0, <1>1, <2>2, <2>3, <2>4 DEF SigOK, Dying, Cleared
  <2>6. SigOK(proc'[p], pc'[p], call'[p])
    BY <1>0, <1>1, <2>3, CallerSig
  <2>7. \A r \in Proc : r # p /\ r # q => SigOK(proc'[r], pc'[r], call'[r])
    BY <1>0, <1>1, <2>3 DEF SigInv
  <2> QED  BY <2>5, <2>6, <2>7 DEF SigInv
<1> QED  BY <1>2, <1>3, <1>4

\* fork: the child has the actions of its parent and no signals.
LEMMA ForkSig ==
  ASSUME IInv, SigInv, NEW p \in Proc, NEW q \in Proc, Fork(p, q)
  PROVE  SigInv'
<1>t. /\ pc \in [Proc -> Pcs] /\ proc \in Table /\ proc[q] \in Entry
  BY TypeFacts DEF IInv
<1>0. /\ proc[p].stat = "SRUN" /\ call' = call /\ call[p] = "none" /\ pc[p] = "user"
      /\ pc' = [pc EXCEPT ![p] = "fork"]
  BY RunsFacts DEF Fork, Runs, InCall
<1>1. /\ pc'[p] = "fork" /\ \A r \in Proc : r # p => pc'[r] = pc[r]
  BY <1>0, <1>t
<1> DEFINE f == [proc[q] EXCEPT !.stat = "SIDL", !.pptr = p, !.act = proc[p].act,
                   !.reset = proc[p].reset, !.wted = FALSE, !.stimo = FALSE, !.wchan = NoChan]
<1>2. proc' = [proc EXCEPT ![q] = f] /\ proc[q].stat = "NULL"
  BY <1>t DEF Fork, Table
<1>3. /\ f.stat = "SIDL" /\ f.sig = proc[q].sig /\ f.cursig = proc[q].cursig
      /\ f.act = proc[p].act
  BY <1>t DEF Entry
<1> HIDE DEF f
<1>4. q # p /\ proc'[q] = f /\ \A r \in Proc : r # q => proc'[r] = proc[r]
  BY <1>0, <1>t, <1>2 DEF Table
<1>5. pc[q] = "gone" /\ call[q] = "none"
  BY <1>2 DEF IInv, Orderly, Place, InCall
<1>6. SigOK(proc[q], pc[q], call[q]) /\ SigOK(proc[p], pc[p], call[p])
  BY DEF SigInv
<1>7. SigOK(proc'[q], pc'[q], call'[q])
  BY <1>0, <1>1, <1>2, <1>3, <1>4, <1>5, <1>6 DEF SigOK, Dying, Cleared, Faithful
<1>8. SigOK(proc'[p], pc'[p], call'[p])
  BY <1>0, <1>1, <1>4, CallerSig
<1>9. \A r \in Proc : r # p /\ r # q => SigOK(proc'[r], pc'[r], call'[r])
  BY <1>0, <1>1, <1>4 DEF SigInv
<1> QED  BY <1>7, <1>8, <1>9 DEF SigInv

\* The child is complete and runs.
LEMMA ForkDoneSig ==
  ASSUME IInv, SigInv, NEW p \in Proc, ForkDone(p)
  PROVE  SigInv'
<1>t. \A q \in Proc : proc[q] \in Entry
  BY TypeFacts DEF IInv
<1> DEFINE new == {q \in Proc : Child(p, q) /\ proc[q].stat = "SIDL"}
<1>0. /\ proc[p].stat = "SRUN" /\ call' = call /\ call[p] = "none" /\ pc[p] = "fork"
      /\ proc' = [q \in Proc |-> IF q \in new THEN Setrun(proc[q]) ELSE proc[q]]
      /\ pc' = [q \in Proc |-> IF q \in new THEN "user" ELSE IF q = p THEN "trap" ELSE pc[q]]
  BY RunsFacts DEF ForkDone, Runs, InCall
<1>1. \A q \in new : proc[q].stat = "SIDL"
  OBVIOUS
<1> HIDE DEF new
<1>2. ASSUME NEW r \in Proc
      PROVE  SigOK(proc'[r], pc'[r], call'[r])
  <2>1. SigOK(proc[r], pc[r], call[r])
    BY DEF SigInv
  <2>2. CASE r \in new
    <3>1. proc'[r] = Setrun(proc[r]) /\ pc'[r] = "user" /\ proc[r].stat = "SIDL"
      BY <1>0, <1>1, <2>2
    <3>2. call[r] = "none"
      BY <3>1 DEF IInv, Orderly, Place, InCall
    <3>3. /\ Setrun(proc[r]).stat = "SRUN" /\ Same(proc[r], Setrun(proc[r]))
          /\ Setrun(proc[r]).sig = proc[r].sig
      BY <1>t, SetrunFacts
    <3>4. /\ proc'[r].sig = proc[r].sig /\ proc'[r].act = proc[r].act
          /\ proc'[r].cursig = proc[r].cursig /\ proc'[r].stat = "SRUN"
      BY <3>1, <3>3 DEF Same
    <3> QED  BY <1>0, <2>1, <3>1, <3>2, <3>4 DEF SigOK, Dying, Cleared, Faithful
  <2>3. CASE r \notin new /\ r = p
    <3>1. proc'[r] = proc[r] /\ pc'[r] = "trap"
      BY <1>0, <2>3
    <3> QED  BY <1>0, <2>3, <3>1, CallerSig
  <2>4. CASE r \notin new /\ r # p
    <3>1. proc'[r] = proc[r] /\ pc'[r] = pc[r]
      BY <1>0, <2>4
    <3> QED  BY <1>0, <2>1, <3>1
  <2> QED  BY <2>2, <2>3, <2>4
<1> QED  BY <1>2 DEF SigInv

\* kill and the signals of terminals.
LEMMA KillSig ==
  ASSUME IInv, SigInv, NEW p \in Targets, NEW s \in Sent, Kill(p, s)
  PROVE  SigInv'
<1>p. p \in Proc /\ s \in Posted /\ s \in Signals
  BY ProcAssumption, PostedFacts
<1>t. proc \in Table /\ proc[p] \in Entry
  BY <1>p, TypeFacts DEF IInv
<1>0. pc' = pc /\ call' = call /\ proc' = Psignal(proc, p, s)
  BY DEF Kill
<1>1. PICK t \in Table : t = proc
  BY <1>t
<1>2. CASE ~StopsSleeper(t[p], s)
  <2>1. \A q \in Proc : Stirred(proc[q], proc'[q])
    BY <1>0, <1>1, <1>2, <1>p, PsignalPosts
  <2>2. SigOK(proc'[p], pc'[p], call'[p])
    <3>1. SigOK(proc[p], pc[p], call[p]) /\ Kin(proc[p], proc'[p])
      BY <1>p, <2>1, KinStirred DEF SigInv
    <3> QED  BY <1>0, <3>1, KinSig
  <2> QED  BY <1>0, <1>p, <2>1, <2>2, KinStirred, SigStep
<1>3. CASE StopsSleeper(t[p], s)
  <2>1. /\ \A q \in Proc : q # p => Stirred(proc[q], proc'[q])
        /\ Halted(proc[p], Noted(proc[p], s).sig \ {s}, proc'[p])
        /\ proc'[p].cursig = s
        /\ Heeds(proc[p]) => Heeds(proc'[p])
    BY <1>0, <1>1, <1>3, <1>p, PsignalStops
  <2>2. /\ s \in Stops /\ proc[p].stat = "SSLEEP" /\ proc[p].hi
    BY <1>1, <1>3 DEF StopsSleeper
  <2>3. Noted(proc[p], s).sig \subseteq proc[p].sig \cup {s}
    BY <1>p, <1>t, NotedFacts
  <2>4. /\ proc'[p].stat = "SSTOP" /\ proc'[p].hi = proc[p].hi /\ proc'[p].act = proc[p].act
        /\ proc'[p].sig \subseteq proc[p].sig \cup {s, SIGCHLD}
    BY <2>1, <2>3 DEF Halted
  <2>5. SigOK(proc[p], pc[p], call[p]) /\ pc[p] \in {"sleep", "stop1"}
    BY <1>p, <2>2 DEF SigInv, IInv, Orderly, Place
  <2>6. Sent \cap Stops # {} /\ (OnlyStop => s = SIGSTOP)
    BY <1>p, <2>2, PostedFacts
  <2>7. Going(proc'[p])
    BY <2>4 DEF Going, Continued
  <2>8. proc'[p].sig \subseteq Posted
    BY <1>p, <2>4, <2>5, PostedFacts DEF SigOK
  <2>9. SigOK(proc'[p], pc[p], call[p])
    BY <2>1, <2>2, <2>4, <2>5, <2>6, <2>7, <2>8 DEF SigOK, Dying, Cleared, Faithful
  <2> QED  BY <1>0, <1>p, <2>1, <2>9, KinStirred, SigStep
<1> QED  BY <1>2, <1>3

\* A wakeup, and the clock.
LEMMA WakeSig ==
  ASSUME IInv, SigInv, Tick \/ \E c \in Chan : WakeChan(c)
  PROVE  SigInv'
<1>t. proc \in Table /\ \A q \in Proc : proc[q] \in Entry
  BY TypeFacts DEF IInv
<1>0. pc' = pc /\ call' = call
  BY DEF Tick, WakeChan
<1>1. ASSUME NEW q \in Proc
      PROVE  Kin(proc[q], proc'[q])
  <2>1. ASSUME NEW c \in Chan, WakeChan(c)
        PROVE  Stirred(proc[q], proc'[q])
    BY <1>t, <2>1, WakeupMoves DEF WakeChan
  <2>2. ASSUME Tick
        PROVE  Kin(proc[q], proc'[q])
    <3>1. proc'[q] = proc[q] \/ proc'[q] = Timein(proc[q])
      BY <2>2 DEF Tick
    <3>2. Kin(proc[q], Timein(proc[q]))
      BY <1>t, TimeinFacts DEF Kin
    <3> QED  BY <3>1, <3>2, KinStirred
  <2> QED  BY <2>1, <2>2, KinStirred
<1>2. ASSUME NEW q \in Proc
      PROVE  SigOK(proc'[q], pc'[q], call'[q])
  <2>1. SigOK(proc[q], pc[q], call[q])
    BY DEF SigInv
  <2> QED  BY <1>0, <1>1, <2>1, KinSig
<1> QED  BY <1>2 DEF SigInv

\* The first processes have no signals.
LEMMA InitSig ==
  ASSUME Init
  PROVE  SigInv
<1>n. NoSig # SIGSTOP
  BY DEF NoSig, SIGSTOP
<1>1. ASSUME NEW p \in Proc
      PROVE  SigOK(proc[p], pc[p], call[p])
  <2>1. /\ proc[p].sig = {} /\ proc[p].cursig = NoSig /\ proc[p].act = Act0[p]
        /\ proc[p].hi = (p = InitProc)
        /\ p = InitProc => proc[p].stat = "SSLEEP" /\ pc[p] = "sleep" /\ call[p] = "wait"
        /\ p # InitProc => /\ pc[p] \in {"user", "gone"} /\ call[p] = "none"
                           /\ proc[p].stat \in {"SRUN", "NULL"}
                           /\ pc[p] = "user" => proc[p].stat = "SRUN"
    BY DEF Init
  <2>2. Faithful(proc[p])
    <3>1. Act0[p][SIGKILL] = "DFL" /\ (SIGSTOP \in Signals => Act0[p][SIGSTOP] = "DFL")
      BY ProcAssumption
    <3> QED  BY <2>1, <3>1 DEF Faithful
  <2>3. Heard(proc[p])
    BY <2>1 DEF Heard, Effective, Pending
  <2>4. p = InitProc => Heeds(proc[p])
    BY <2>1, <2>3 DEF Heeds
  <2>5. Going(proc[p])
    BY <1>n, <2>1 DEF Going
  <2>6. CASE p = InitProc
    BY <2>1, <2>2, <2>4, <2>5, <2>6 DEF SigOK, Cleared
  <2>7. CASE p # InitProc
    BY <2>1, <2>2, <2>7 DEF SigOK, Cleared
  <2> QED  BY <2>6, <2>7
<1> QED  BY <1>1 DEF SigInv

\* Every step keeps what the processes know of their signals.
LEMMA NextSig ==
  ASSUME IInv, SigInv, [Next]_vars
  PROVE  SigInv'
<1>1. CASE UNCHANGED vars
  BY <1>1 DEF vars, SigInv
<1>2. ASSUME NEW p \in Proc, Continue(p)
      PROVE  SigInv'
  BY <1>2, ResumeSig, TrapSig, ExitDoneSig, WaitSleepSig, ForkDoneSig, ScanSig DEF Continue
<1>3. ASSUME NEW p \in Proc, Enter(p)
      PROVE  SigInv'
  <2>1. CASE \E c \in Chan, s \in 0..MaxSecs : Tsleep(p, c, s)
    BY <2>1, TsleepSig
  <2>2. CASE \E c \in Devices : ExitSleep(p, c)
    BY <2>2, ExitSleepSig
  <2>3. CASE Exit(p)
    BY <2>3, UserSig
  <2>4. ASSUME NEW r \in Resets, r[1] = p, Ssig(p, r[2], r[3])
        PROVE  SigInv'
    <3>1. r[2] \in Signals \ {SIGKILL, SIGSTOP} /\ r[3] \in Actions
      BY ProcAssumption
    <3> QED  BY <2>4, <3>1, UserSig
  <2>5. CASE \/ WaitNoChild(p) \/ WaitNothing(p)
             \/ \E q \in Proc : WaitZombie(p, q) \/ WaitStopped(p, q) \/ Fork(p, q)
    BY <2>5, ScanSig, ForkSig
  <2> QED  BY <1>3, <2>1, <2>2, <2>3, <2>4, <2>5 DEF Enter
<1>4. CASE \E p \in Targets, s \in Sent : Kill(p, s)
  BY <1>4, KillSig
<1>5. CASE Tick \/ \E c \in Chan : WakeChan(c)
  BY <1>5, WakeSig
<1> QED  BY <1>1, <1>2, <1>3, <1>4, <1>5 DEF Next

\* The signals of every process are as SigOK says, in every reachable state.
LEMMA SigKept == Spec => []SigInv
<1>1. Init => SigInv
  BY InitSig
<1>2. IInv /\ SigInv /\ [Next]_vars => SigInv'
  BY NextSig
<1> QED  BY <1>1, <1>2, PlacesKept, PTL DEF Spec

\* A process that sleeps interruptibly, and that was not stopped on its way
\* into the sleep, has no signal pending that is caught or kills: psignal has
\* awakened it, or sleep has found the signal before it gave up the processor.
SleeperHears ==
  \A p \in Proc :
    proc[p].stat = "SSLEEP" /\ proc[p].hi /\ pc[p] # "stop1" => Heard(proc[p])

\* No process sleeps through a signal in that way, whichever signals, actions
\* and interrupts there are (slp.c:28, sig.c:113).
THEOREM SleepersHear == Spec => []SleeperHears
<1>1. IInv /\ SigInv => SleeperHears
  <2> SUFFICES ASSUME IInv, SigInv, NEW p \in Proc,
                      proc[p].stat = "SSLEEP", proc[p].hi, pc[p] # "stop1"
               PROVE  Heard(proc[p])
    BY DEF SleeperHears
  <2>1. proc[p].wchan # NoChan /\ pc[p] = "sleep"
    BY DEF IInv, Orderly, Place
  <2> QED  BY <2>1 DEF SigInv, SigOK, Heeds
<1> QED  BY <1>1, PlacesKept, SigKept, PTL

\* Where nobody sends a stop signal no process at all sleeps interruptibly
\* with a signal that is caught or kills.  Where somebody does, a process that
\* stops on its way into the sleep leaves the signals of higher numbers
\* pending, and goes back to sleep with them when it is continued.
THEOREM SignalsHeard ==
  ASSUME Sent \cap Stops = {}
  PROVE  Spec => []SignalsWake
<1>1. IInv /\ SigInv => SignalsWake
  <2> SUFFICES ASSUME IInv, SigInv, NEW p \in Proc, proc[p].stat = "SSLEEP", proc[p].hi
               PROVE  Heard(proc[p])
    BY DEF SignalsWake, Heard
  <2>1. proc[p].wchan # NoChan /\ pc[p] = "sleep"
    BY DEF IInv, Orderly, Place, SigInv, SigOK
  <2> QED  BY <2>1 DEF SigInv, SigOK, Heeds
<1> QED  BY <1>1, PlacesKept, SigKept, PTL

\* What a step may do to a process that it kills.
Fatal(p) ==
  pc[p] # "exit" /\ pc'[p] = "exit" => proc'[p].cursig \notin Stops \cup Ignorable

\* psig kills with the signal in p_cursig only if that is fatal.
LEMMA PsigFatal ==
  ASSUME NEW p \in Proc, NEW u \in Table, Psig(u, p), u[p].cursig # NoSig,
         pc \in [Proc -> Pcs], u[p].cursig \notin Stops,
         u[p].cursig \in Ignorable => Usignal(u[p], u[p].cursig) = "CATCH"
  PROVE  \A q \in Proc : Fatal(q)
<1>1. \/ pc' = [pc EXCEPT ![p] = "user"]
      \/ /\ Usignal(u[p], u[p].cursig) # "CATCH" /\ proc'[p].cursig = u[p].cursig
         /\ pc' = [pc EXCEPT ![p] = "exit"]
  BY PsigFacts
<1> QED  BY <1>1 DEF Fatal

\* At the end of a system call or trap p_cursig holds a fatal signal, a caught
\* one, or the signal that issig has just taken.
LEMMA TrapFatal ==
  ASSUME OnlyStop, IInv, SigInv, NEW p \in Proc, Trap(p)
  PROVE  \A q \in Proc : Fatal(q)
<1>t. /\ pc \in [Proc -> Pcs] /\ TypeOK /\ proc \in Table
  BY TypeFacts DEF IInv
<1>0. call[p] = "none" /\ pc[p] \in {"user", "trap", "stopt"}
  BY RunsFacts DEF Trap, Runs, InCall
<1>s. SigOK(proc[p], pc[p], call[p])
  BY DEF SigInv
<1>f. Faithful(proc[p])
  BY <1>0, <1>s DEF SigOK, Dying
<1>1. PICK t \in Table :
        /\ Looks(t, p)
        /\ t[p].cursig = IF pc[p] = "stopt" THEN NoSig ELSE proc[p].cursig
        /\ \/ t[p].cursig # NoSig /\ Psig(t, p)
           \/ /\ t[p].cursig = NoSig /\ Issig(t[p]) = "none"
              /\ proc' = Looked(t, p) /\ Onto(p, "user", "none") /\ res' = res
           \/ /\ t[p].cursig = NoSig /\ Stopped(t, t[p], p, "stopt", "none")
              /\ proc' \in Table
           \/ /\ t[p].cursig = NoSig /\ Issig(t[p]) = "send" /\ Psig(Looked(t, p), p)
  BY <1>t, TrapFacts
<1>2. /\ t[p].sig \subseteq Posted /\ t[p].act = proc[p].act /\ t[p].reset = proc[p].reset
      /\ Faithful(t[p])
  BY <1>1, <1>f, <1>s DEF Looks, Picked, Alike, SigOK, Faithful
<1>3. CASE t[p].cursig # NoSig /\ Psig(t, p)
  <2>1. pc[p] = "trap" /\ t[p].cursig = proc[p].cursig
    BY <1>0, <1>1, <1>3, <1>s DEF SigOK, Cleared
  <2>2. /\ proc[p].cursig \notin Stops
        /\ proc[p].cursig \in Ignorable => Usignal(proc[p], proc[p].cursig) = "CATCH"
    BY <1>s, <2>1 DEF SigOK
  <2>3. Usignal(t[p], t[p].cursig) = Usignal(proc[p], proc[p].cursig)
    BY <1>2, <2>1 DEF Usignal
  <2> QED  BY <1>3, <1>t, <2>1, <2>2, <2>3, PsigFatal
<1>4. CASE Onto(p, "user", "none")
  BY <1>4, <1>t DEF Onto, Fatal
<1>5. CASE Stopped(t, t[p], p, "stopt", "none")
  BY <1>5, <1>t DEF Stopped, Onto, Fatal
<1>6. CASE Issig(t[p]) = "send" /\ Psig(Looked(t, p), p)
  <2>1. PICK u : u = Looked(t, p)
    OBVIOUS
  <2>2. /\ u \in Table /\ Picked(t[p], u[p]) /\ u[p].cursig # NoSig
        /\ u[p].cursig = Sending(t[p])
    BY <1>6, <2>1, LookedSend, SignalFacts
  <2>3. t[p] \in Entry
    BY DEF Table
  <2>4. /\ Sending(t[p]) \notin Stops
        /\ Sending(t[p]) \in Ignorable => Usignal(t[p], Sending(t[p])) = "CATCH"
    BY <1>2, <1>6, <2>3, SendingFatal
  <2>5. Usignal(u[p], u[p].cursig) = Usignal(t[p], Sending(t[p]))
    BY <2>2 DEF Picked, Usignal
  <2>6. Psig(u, p)
    BY <1>6, <2>1
  <2> QED  BY <1>t, <2>2, <2>4, <2>5, <2>6, PsigFatal
<1> QED  BY <1>1, <1>3, <1>4, <1>5, <1>6

\* Where sleeps and returns lead.
LEMMA SleepFatal ==
  ASSUME pc \in [Proc -> Pcs], NEW t, NEW p, NEW c, NEW hi, NEW k, Sleep(t, p, c, hi, k)
  PROVE  \A q \in Proc : Fatal(q)
<1>1. \E l \in {"sleep", "stop1", "trap"} : pc' = [pc EXCEPT ![p] = l]
  BY DEF Sleep, Stays, Interrupted
<1> QED  BY <1>1 DEF Fatal

\* Every step kills by a fatal signal only.
LEMMA NextFatal ==
  ASSUME OnlyStop, IInv, SigInv, [Next]_vars
  PROVE  \A q \in Proc : Fatal(q)
<1>t. pc \in [Proc -> Pcs]
  BY TypeFacts DEF IInv
<1>n. NoSig \notin Stops /\ NoSig \notin Ignorable
  BY DEF NoSig, Stops, Ignorable, Quiet, SIGSTOP, SIGCONT, SIGTSTP, SIGTTIN, SIGTTOU, SIGTINT, SIGCHLD
<1>1. CASE UNCHANGED pc
  BY <1>1 DEF Fatal
<1>2. ASSUME NEW p \in Proc, NEW l \in Pcs \ {"exit"}, pc' = [pc EXCEPT ![p] = l]
      PROVE  \A q \in Proc : Fatal(q)
  BY <1>2, <1>t DEF Fatal
<1>3. ASSUME NEW p \in Proc, Resume(p)
      PROVE  \A q \in Proc : Fatal(q)
  <2>1. \E l \in {"scan", "exiting", "trap", "stop1", "stop2"} : pc' = [pc EXCEPT ![p] = l]
    BY <1>3 DEF Resume, Returns, Stays, Interrupted
  <2> QED  BY <2>1, <1>2 DEF Pcs
<1>4. ASSUME NEW p \in Proc, Exit(p)
      PROVE  \A q \in Proc : Fatal(q)
  <2>1. proc[p].cursig = NoSig
    <3>1. SigOK(proc[p], pc[p], call[p]) /\ pc[p] = "user"
      BY <1>4 DEF SigInv, Exit
    <3> QED  BY <3>1 DEF SigOK, Cleared
  <2>2. proc[p] \in Entry /\ proc \in Table
    BY TypeFacts DEF IInv
  <2>3. proc' = [proc EXCEPT ![p] = Deaf(proc[p])] /\ pc' = [pc EXCEPT ![p] = "exit"]
    BY <1>4 DEF Exit
  <2>4. Deaf(proc[p]).cursig = NoSig
    BY <2>1, <2>2 DEF Deaf, Entry
  <2>5. proc'[p].cursig = NoSig
    BY <2>2, <2>3, <2>4 DEF Table
  <2> QED  BY <1>n, <1>t, <2>3, <2>5 DEF Fatal
<1>5. ASSUME NEW p \in Proc, ForkDone(p)
      PROVE  \A q \in Proc : Fatal(q)
  <2>1. \A q \in Proc : pc'[q] \in {"user", "trap", pc[q]}
    BY <1>5 DEF ForkDone
  <2> QED  BY <2>1 DEF Fatal
<1>6. ASSUME NEW p \in Proc, Continue(p)
      PROVE  \A q \in Proc : Fatal(q)
  <2>1. CASE WaitSleep(p)
    BY <2>1, <1>t, SleepFatal DEF WaitSleep
  <2>2. CASE ExitDone(p)
    BY <2>2, <1>2 DEF ExitDone, Pcs
  <2>3. CASE \/ WaitNoChild(p) \/ WaitNothing(p)
             \/ \E q \in Proc : WaitZombie(p, q) \/ WaitStopped(p, q)
    BY <2>3, <1>2 DEF WaitNoChild, WaitNothing, WaitZombie, WaitStopped, Pcs
  <2> QED  BY <1>6, <1>3, <1>5, <2>1, <2>2, <2>3, TrapFatal DEF Continue
<1>7. ASSUME NEW p \in Proc, Enter(p)
      PROVE  \A q \in Proc : Fatal(q)
  <2>1. ASSUME NEW c \in Chan, NEW s \in 0..MaxSecs, Tsleep(p, c, s)
        PROVE  \A q \in Proc : Fatal(q)
    <3>1. Sleep([proc EXCEPT ![p].tsl = s], p, c, c \in Terminals, "tsleep")
      BY <2>1 DEF Tsleep
    <3>2. PICK t, hi : t = [proc EXCEPT ![p].tsl = s] /\ hi = (c \in Terminals)
      OBVIOUS
    <3>3. Sleep(t, p, c, hi, "tsleep")
      BY <3>1, <3>2
    <3> QED  BY <1>t, <3>3, SleepFatal
  <2>2. ASSUME NEW d \in Devices, ExitSleep(p, d)
        PROVE  \A q \in Proc : Fatal(q)
    BY <2>2, <1>t, SleepFatal DEF ExitSleep
  <2>3. CASE \E r \in Resets : r[1] = p /\ Ssig(p, r[2], r[3])
    BY <2>3, <1>2, ZenonT(60) DEF Ssig, Pcs
  <2>4. CASE \/ WaitNoChild(p) \/ WaitNothing(p)
             \/ \E q \in Proc : WaitZombie(p, q) \/ WaitStopped(p, q) \/ Fork(p, q)
    BY <2>4, <1>2, ZenonT(60) DEF WaitNoChild, WaitNothing, WaitZombie, WaitStopped, Fork, Pcs
  <2> QED  BY <1>7, <1>4, <2>1, <2>2, <2>3, <2>4 DEF Enter
<1>8. CASE UNCHANGED vars \/ Tick \/ (\E c \in Chan : WakeChan(c))
             \/ (\E p \in Targets, s \in Sent : Kill(p, s))
  BY <1>1, <1>8 DEF vars, Tick, WakeChan, Kill
<1> QED  BY <1>6, <1>7, <1>8 DEF Next

\* A process dies of a signal only when the signal's action is to kill, as
\* long as SIGSTOP is the only stop signal that anybody sends: the SIGSTOP
\* that stays in p_cursig is overwritten before psig looks at it.
THEOREM KilledOnly ==
  ASSUME Sent \cap Stops \subseteq {SIGSTOP}
  PROVE  Spec => KilledByFatal
<1>1. IInv /\ SigInv /\ [Next]_vars =>
        [\A p \in Proc :
           pc[p] # "exit" /\ pc'[p] = "exit" =>
             proc'[p].cursig \notin Stops \cup Ignorable]_vars
  BY NextFatal DEF Fatal, OnlyStop
<1> QED  BY <1>1, PlacesKept, SigKept, PTL DEF Spec, KilledByFatal
=============================================================================
