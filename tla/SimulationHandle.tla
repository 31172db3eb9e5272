-------------------------- MODULE SimulationHandle -------------------------
(***************************************************************************)
(* What a VarMonteCarloState promises a caller: an object that is created, *)
(* used and closed once, that remembers the factor of the last covariance  *)
(* set successfully (or nothing), and that hands every successful          *)
(* simulation a fresh stretch of its random sequence.  Calls are atomic.   *)
(***************************************************************************)
EXTENDS Naturals

CONSTANTS Goroutine, Handle, NULL, Cov, PD, NoCov, Hist

VARIABLES
    status,  \* "new", "open" or "closed"
    factor,  \* the covariance whose factor is cached, or NoCov
    draws,   \* how much of the random sequence has been consumed
    answer   \* the last answer given to each goroutine

objVars == <<status, factor, draws, answer>>

Reply(h, op, st, cov, draw) ==
    [h |-> h, op |-> op, status |-> st, cov |-> cov, draw |-> draw]

Operations == {"SetCovariance", "VarMonteCarlo", "VarMonteCarloCached",
               "VarMonteCarloFromHistory", "VarMonteCarloBatch"}

Pending == Reply(NULL, "none", "none", NoCov, 0)

Init ==
    /\ status = [h \in Handle |-> "new"]
    /\ factor = [h \in Handle |-> NoCov]
    /\ draws = [h \in Handle |-> 0]
    /\ answer = [g \in Goroutine |-> Pending]

Open(h) ==
    /\ status[h] = "new"
    /\ status' = [status EXCEPT ![h] = "open"]
    /\ UNCHANGED <<factor, draws, answer>>

\* An answer is being prepared.
Ask(g) ==
    /\ answer' = [answer EXCEPT ![g] = Pending]
    /\ UNCHANGED <<status, factor, draws>>

\* An operation that is refused leaves the object as it was.
Refuse(g, h) ==
    /\ \E op \in Operations \cup {"New"}, st \in {"err", "panic"} :
          answer' = [answer EXCEPT ![g] = Reply(h, op, st, NoCov, 0)]
    /\ UNCHANGED <<status, factor, draws>>

\* One that fails may have drawn, and may have dropped the factor.
Fail(g, h) ==
    /\ status[h] = "open"
    /\ \E op \in Operations : answer' = [answer EXCEPT ![g] = Reply(h, op, "err", NoCov, 0)]
    /\ \E f \in {factor[h], NoCov} : factor' = [factor EXCEPT ![h] = f]
    /\ \E n \in {0, 1} : draws' = [draws EXCEPT ![h] = @ + n]
    /\ UNCHANGED status

SetCovariance(g, h, cov) ==
    /\ status[h] = "open"
    /\ answer' = [answer EXCEPT ![g] = Reply(h, "SetCovariance", "ok", cov, draws[h])]
    /\ factor' = [factor EXCEPT ![h] = cov]
    /\ UNCHANGED <<status, draws>>

\* A simulation with covariance cov that leaves f cached: it answers with the
\* place in the random sequence its paths begin at.
Simulate(g, h, op, cov, f) ==
    /\ status[h] = "open"
    /\ answer' = [answer EXCEPT ![g] = Reply(h, op, "ok", cov, draws[h])]
    /\ factor' = [factor EXCEPT ![h] = f]
    /\ draws' = [draws EXCEPT ![h] = @ + 1]
    /\ UNCHANGED status

SimulateWith(g, h, cov) ==
    Simulate(g, h, "VarMonteCarlo", cov, IF factor[h] = cov THEN cov ELSE NoCov)

SimulateCached(g, h) ==
    /\ factor[h] # NoCov
    /\ Simulate(g, h, "VarMonteCarloCached", factor[h], factor[h])

SimulateHistory(g, h) ==
    \E op \in {"VarMonteCarloFromHistory", "VarMonteCarloBatch"}, f \in {factor[h], NoCov} :
        Simulate(g, h, op, Hist, f)

\* Closing releases the object; only then is the Close, or a second one, answered.
Close(h) ==
    /\ status[h] = "open"
    /\ status' = [status EXCEPT ![h] = "closed"]
    /\ factor' = [factor EXCEPT ![h] = NoCov]
    /\ draws' = [draws EXCEPT ![h] = 0]
    /\ UNCHANGED answer

Closed(g, h) ==
    /\ status[h] = "closed"
    /\ answer' = [answer EXCEPT ![g] = Reply(h, "Close", "ok", NoCov, 0)]
    /\ UNCHANGED <<status, factor, draws>>

Next ==
    \/ \E h \in Handle : Open(h) \/ Close(h)
    \/ \E g \in Goroutine : Ask(g)
    \/ \E g \in Goroutine, h \in Handle :
          \/ Refuse(g, h) \/ Fail(g, h)
          \/ \E cov \in PD : SetCovariance(g, h, cov) \/ SimulateWith(g, h, cov)
          \/ SimulateCached(g, h) \/ SimulateHistory(g, h)
          \/ Closed(g, h)

Spec == Init /\ [][Next]_objVars
=============================================================================
