-------------------------- MODULE MonteCarloState --------------------------
(***************************************************************************)
(* The Go type VarMonteCarloState (var_monte_carlo.go): a handle around a  *)
(* C simulation state, used by goroutines.  Every method reads s.state     *)
(* once for its nil check and AGAIN for the C call, and takes no lock, so  *)
(* a method is four steps here: Invoke (check the receiver and the slice   *)
(* lengths, flatten the matrices), EnterC (second read of s.state, the C   *)
(* function starts), LeaveC (the C function writes the state and returns,  *)
(* its code becomes a Go error), and for Close ClearPtr (s.state = nil).   *)
(*                                                                         *)
(* The C library is not in the repository: its functions are modelled by   *)
(* the contracts in var_monte_carlo.h that the Go code relies on.  A C     *)
(* function is not atomic: it reads the cached factor and the generator on *)
(* entry and writes them on return.                                        *)
(***************************************************************************)
EXTENDS Naturals

CONSTANTS
    Goroutine,  \* the callers
    Handle,     \* the VarMonteCarloState objects the program creates
    Ptr,        \* the addresses malloc may give a C state; they are reused
    NULL,       \* nil
    Dim,        \* the dimensions callers ask for; 0 is refused by New
    Cov,        \* covariance matrices
    PD,         \* those that are positive definite
    NoCov,      \* no Cholesky factor is cached
    Hist,       \* the covariance estimated from a history
    Sharing,    \* how callers share a handle, see Permitted
    MaxDraws    \* bound on the simulations a state is asked for

ASSUME DimAssumption == Dim \subseteq Nat
ASSUME CovAssumption == PD \subseteq Cov /\ NoCov \notin Cov /\ Hist \notin Cov /\ Hist # NoCov
ASSUME NULLAssumption == NULL \notin Ptr \cup Handle
ASSUME SharingAssumption == Sharing \in {"serial", "overlap", "free"}

VARIABLES
    sptr,    \* s.state of every handle
    dim,     \* s.dim of every handle; 0 until New has returned it
    heap,    \* the C state at every address, or Free
    pc,      \* where every goroutine is
    call,    \* the method it is executing
    cptr,    \* the pointer it passed to C
    seen,    \* the C state as the C function read it on entry
    resp,    \* the outcome of its last method
    closed   \* (history) the handles for which a Close has returned

vars == <<sptr, dim, heap, pc, call, cptr, seen, resp, closed>>

Free    == [owner |-> NULL, dim |-> 0, chol |-> NoCov, draws |-> 0]
NoCall  == [op |-> "none", h |-> NULL, len |-> 0, cov |-> NoCov, periods |-> 0, late |-> FALSE]
NoResp  == [h |-> NULL, op |-> "none", status |-> "none", cov |-> NoCov, draw |-> 0, late |-> FALSE]

Covs    == Cov \cup {NoCov}
CStates == [owner : Handle, dim : Dim \ {0}, chol : Covs, draws : Nat]
Ops     == {"SetCovariance", "VarMonteCarlo", "VarMonteCarloCached",
            "VarMonteCarloFromHistory", "VarMonteCarloBatch", "Close"}
Simulations == Ops \ {"SetCovariance", "Close"}
Calls   == [op : Ops, h : Handle, len : Dim, cov : Covs, periods : Nat, late : BOOLEAN]
Resps   == [h : Handle, op : Ops \cup {"New"}, status : {"ok", "err", "panic"},
            cov : Covs \cup {Hist}, draw : Nat, late : BOOLEAN]

TypeOK ==
    /\ sptr \in [Handle -> Ptr \cup {NULL}]
    /\ dim \in [Handle -> Dim \cup {0}]
    /\ heap \in [Ptr -> CStates \cup {Free}]
    /\ pc \in [Goroutine -> {"idle", "checked", "inC", "destroyed"}]
    /\ call \in [Goroutine -> Calls \cup {NoCall}]
    /\ cptr \in [Goroutine -> Ptr \cup {NULL}]
    /\ seen \in [Goroutine -> CStates \cup {Free}]
    /\ resp \in [Goroutine -> Resps \cup {NoResp}]
    /\ closed \subseteq Handle

Init ==
    /\ sptr = [h \in Handle |-> NULL]
    /\ dim = [h \in Handle |-> 0]
    /\ heap = [p \in Ptr |-> Free]
    /\ pc = [g \in Goroutine |-> "idle"]
    /\ call = [g \in Goroutine |-> NoCall]
    /\ cptr = [g \in Goroutine |-> NULL]
    /\ seen = [g \in Goroutine |-> Free]
    /\ resp = [g \in Goroutine |-> NoResp]
    /\ closed = {}

----------------------------------------------------------------------------
(* The callers.  The headers call the C functions "not thread-safe", so     *)
(* "serial" callers use a handle from one goroutine at a time; "overlap"    *)
(* callers let methods overlap but Close only an idle handle; "free"        *)
(* callers do as they like.                                                 *)

Using(h) == {g \in Goroutine : pc[g] # "idle" /\ call[g].h = h}

Permitted(h, op) ==
    CASE Sharing = "serial"  -> Using(h) = {}
      [] Sharing = "overlap" -> /\ op = "Close" => Using(h) = {}
                                /\ \A g \in Using(h) : call[g].op # "Close"
      [] Sharing = "free"    -> TRUE

\* The bound on the model: no simulation is asked of a state that has done MaxDraws.
WithinBound(h, op) ==
    op \in Simulations /\ sptr[h] # NULL => heap[sptr[h]].draws < MaxDraws

\* What a caller may pass: every slice of length len, a covariance matrix where
\* the method takes one, rows of the given number of periods.
Inputs(h) ==
    {c \in [op : Ops, h : {h}, len : Dim, cov : Covs, periods : {0, dim[h], dim[h] + 1},
            late : {h \in closed}] :
        /\ c.op \in {"SetCovariance", "VarMonteCarlo"} <=> c.cov \in Cov
        /\ c.op \notin {"VarMonteCarloFromHistory", "VarMonteCarloBatch"} => c.periods = 0
        /\ c.op = "Close" => c.len = dim[h]}

----------------------------------------------------------------------------
(* NewVarMonteCarloState.  The C constructor may fail to allocate.          *)

Answer(c, status, cov, draw) ==
    [h |-> c.h, op |-> c.op, status |-> status, cov |-> cov, draw |-> draw, late |-> c.late]

ValidDim(d) == d > 0

New(g, h) ==
    /\ pc[g] = "idle"
    /\ dim[h] = 0
    /\ \E d \in Dim, p \in Ptr :
          /\ ValidDim(d)
          /\ heap[p] = Free
          /\ heap' = [heap EXCEPT ![p] = [owner |-> h, dim |-> d, chol |-> NoCov, draws |-> 0]]
          /\ sptr' = [sptr EXCEPT ![h] = p]
          /\ dim' = [dim EXCEPT ![h] = d]
    /\ UNCHANGED <<pc, call, cptr, seen, resp, closed>>

\* dim <= 0, or the C constructor returned NULL: an error and no handle.
NewFails(g, h) ==
    /\ pc[g] = "idle"
    /\ dim[h] = 0
    /\ resp' = [resp EXCEPT ![g] = Answer([NoCall EXCEPT !.op = "New", !.h = h], "err", NoCov, 0)]
    /\ UNCHANGED <<sptr, dim, heap, pc, call, cptr, seen, closed>>

----------------------------------------------------------------------------
(* Methods.                                                                 *)

NilCheckDropped(c) == c.len # dim[c.h]   \* mutant: closed handles are accepted

\* The nil check and the length checks that every method but Close begins with.
Rejects(c) ==
    \/ sptr[c.h] = NULL
    \/ c.len # dim[c.h]

\* &returnsFlat[0] of an empty slice.
Panics(c) ==
    c.op \in {"VarMonteCarloFromHistory", "VarMonteCarloBatch"} /\ c.periods = 0

Reject(g, c) ==
    /\ c.op # "Close"
    /\ Rejects(c)
    /\ resp' = [resp EXCEPT ![g] = Answer(c, "err", NoCov, 0)]
    /\ UNCHANGED <<sptr, dim, heap, pc, call, cptr, seen, closed>>

Panic(g, c) ==
    /\ ~Rejects(c)
    /\ Panics(c)
    /\ resp' = [resp EXCEPT ![g] = Answer(c, "panic", NoCov, 0)]
    /\ UNCHANGED <<sptr, dim, heap, pc, call, cptr, seen, closed>>

CloseAgain(g, c) ==
    /\ c.op = "Close"
    /\ sptr[c.h] = NULL
    /\ closed' = closed \cup {c.h}
    /\ resp' = [resp EXCEPT ![g] = Answer(c, "ok", NoCov, 0)]
    /\ UNCHANGED <<sptr, dim, heap, pc, call, cptr, seen>>

\* mutant: Close sets s.state to nil before it calls destroy(s.state)
NilledFirst(g, c) ==
    /\ ~Rejects(c)
    /\ ~Panics(c)
    /\ pc' = [pc EXCEPT ![g] = "checked"]
    /\ call' = [call EXCEPT ![g] = c]
    /\ resp' = [resp EXCEPT ![g] = NoResp]
    /\ sptr' = IF c.op = "Close" THEN [sptr EXCEPT ![c.h] = NULL] ELSE sptr
    /\ UNCHANGED <<dim, heap, cptr, seen, closed>>

Accept(g, c) ==
    /\ ~Rejects(c)
    /\ ~Panics(c)
    /\ pc' = [pc EXCEPT ![g] = "checked"]
    /\ call' = [call EXCEPT ![g] = c]
    /\ resp' = [resp EXCEPT ![g] = NoResp]
    /\ UNCHANGED <<sptr, dim, heap, cptr, seen, closed>>

Invoke(g) ==
    /\ pc[g] = "idle"
    /\ \E h \in Handle :
          /\ dim[h] # 0
          /\ \E c \in Inputs(h) :
                /\ Permitted(h, c.op)
                /\ WithinBound(h, c.op)
                /\ Reject(g, c) \/ Panic(g, c) \/ CloseAgain(g, c) \/ Accept(g, c)

\* The second read of s.state, and the C function's reading of what it points to.
EnterC(g) ==
    /\ pc[g] = "checked"
    /\ LET p == sptr[call[g].h]
       IN  /\ cptr' = [cptr EXCEPT ![g] = p]
           /\ seen' = [seen EXCEPT ![g] = IF p = NULL THEN Free ELSE heap[p]]
    /\ pc' = [pc EXCEPT ![g] = "inC"]
    /\ UNCHANGED <<sptr, dim, heap, call, resp, closed>>

----------------------------------------------------------------------------
(* The C functions: what each may return and leave in the state, given the  *)
(* arguments and the state s it read.  A function that fails may have       *)
(* drawn from the generator and may have dropped the cached factor.         *)

Outcome(ok, s, chol, used, drawn) ==
    [ok |-> ok, cov |-> used, state |-> [s EXCEPT !.chol = chol, !.draws = @ + drawn]]

FailureLeaving(chol, s) == {Outcome(FALSE, s, chol, NoCov, n) : n \in {0, 1}}

Failures(s) == FailureLeaving(s.chol, s) \cup FailureLeaving(NoCov, s)

SetCovarianceOutcomes(c, s) ==
    IF c.cov \in PD THEN {Outcome(TRUE, s, c.cov, c.cov, 0)}
    ELSE {Outcome(FALSE, s, chol, NoCov, 0) : chol \in {s.chol, NoCov}}

\* The factor survives only a simulation with the covariance it was computed from.
VarMonteCarloOutcomes(c, s) ==
    Failures(s) \cup
    IF c.cov \notin PD THEN {}
    ELSE {Outcome(TRUE, s, IF c.cov = s.chol THEN s.chol ELSE NoCov, c.cov, 1)}

CachedOutcomes(s) ==
    IF s.chol = NoCov THEN {Outcome(FALSE, s, NoCov, NoCov, 0)}
    ELSE {Outcome(TRUE, s, s.chol, s.chol, 1)} \cup FailureLeaving(s.chol, s)

HistoryOutcomes(c, s) ==
    Failures(s) \cup
    IF c.periods <= c.len THEN {}
    ELSE {Outcome(TRUE, s, chol, Hist, 1) : chol \in {s.chol, NoCov}}

\* Every portfolio is simulated with the covariance of the one history, and the
\* simulations count as one; -7 tells the caller that the history is too short.
BatchOutcomes(c, s) ==
    Failures(s) \cup
    IF c.periods < c.len + 1 THEN {}
    ELSE {Outcome(TRUE, s, chol, Hist, 1) : chol \in {s.chol, NoCov}}

\* A dimension other than the state's is refused before anything is touched.
COutcomes(c, s) ==
    IF c.len # s.dim THEN {Outcome(FALSE, s, s.chol, NoCov, 0)}
    ELSE CASE c.op = "SetCovariance"       -> SetCovarianceOutcomes(c, s)
           [] c.op = "VarMonteCarlo"       -> VarMonteCarloOutcomes(c, s)
           [] c.op = "VarMonteCarloCached" -> CachedOutcomes(s)
           [] c.op = "VarMonteCarloBatch"  -> BatchOutcomes(c, s)
           [] OTHER                        -> HistoryOutcomes(c, s)

----------------------------------------------------------------------------
(* Back in Go: a return code other than 0 becomes an error and the outputs  *)
(* are dropped.                                                             *)

Finish(g) ==
    /\ pc' = [pc EXCEPT ![g] = "idle"]
    /\ call' = [call EXCEPT ![g] = NoCall]
    /\ cptr' = [cptr EXCEPT ![g] = NULL]
    /\ seen' = [seen EXCEPT ![g] = Free]

\* mutant: the return code is not looked at
CodeIgnored(c, s, o) == Answer(c, "ok", o.cov, s.draws)

Result(c, s, o) ==
    IF o.ok THEN Answer(c, "ok", o.cov, s.draws) ELSE Answer(c, "err", NoCov, 0)

\* The state the C function was given is still the handle's own.
Intact(g) ==
    /\ cptr[g] # NULL
    /\ seen[g] # Free
    /\ heap[cptr[g]].owner = call[g].h

\* "internal error: NULL pointer": s.state was cleared after the nil check.
LeaveCNull(g) ==
    /\ pc[g] = "inC"
    /\ call[g].op # "Close"
    /\ cptr[g] = NULL
    /\ resp' = [resp EXCEPT ![g] = Answer(call[g], "err", NoCov, 0)]
    /\ Finish(g)
    /\ UNCHANGED <<sptr, dim, heap, closed>>

LeaveC(g) ==
    /\ pc[g] = "inC"
    /\ call[g].op # "Close"
    /\ Intact(g)
    /\ \E o \in COutcomes(call[g], seen[g]) :
          /\ heap' = [heap EXCEPT ![cptr[g]] = o.state]
          /\ resp' = [resp EXCEPT ![g] = Result(call[g], seen[g], o)]
    /\ Finish(g)
    /\ UNCHANGED <<sptr, dim, closed>>

\* Undefined behaviour: the state was destroyed before or during the call, and
\* its memory is free or another handle's.  The call may return anything.
LeaveCDangling(g) ==
    /\ pc[g] = "inC"
    /\ call[g].op # "Close"
    /\ cptr[g] # NULL /\ ~Intact(g)
    /\ \E status \in {"ok", "err"}, cov \in Covs \cup {Hist} :
          resp' = [resp EXCEPT ![g] = Answer(call[g], status, cov, 0)]
    /\ Finish(g)
    /\ UNCHANGED <<sptr, dim, heap, closed>>

\* fc_optim_var_monte_carlo_state_destroy frees whatever is at the address.
Destroy(g) ==
    /\ pc[g] = "inC"
    /\ call[g].op = "Close"
    /\ heap' = IF cptr[g] = NULL THEN heap ELSE [heap EXCEPT ![cptr[g]] = Free]
    /\ pc' = [pc EXCEPT ![g] = "destroyed"]
    /\ UNCHANGED <<sptr, dim, call, cptr, seen, resp, closed>>

\* mutant: Close leaves s.state dangling
NotNilled(g) ==
    /\ pc[g] = "destroyed"
    /\ closed' = closed \cup {call[g].h}
    /\ resp' = [resp EXCEPT ![g] = Answer(call[g], "ok", NoCov, 0)]
    /\ Finish(g)
    /\ UNCHANGED <<sptr, dim, heap>>

\* s.state = nil, and Close returns.
ClearPtr(g) ==
    /\ pc[g] = "destroyed"
    /\ sptr' = [sptr EXCEPT ![call[g].h] = NULL]
    /\ closed' = closed \cup {call[g].h}
    /\ resp' = [resp EXCEPT ![g] = Answer(call[g], "ok", NoCov, 0)]
    /\ Finish(g)
    /\ UNCHANGED <<dim, heap>>

----------------------------------------------------------------------------

Step(g) == EnterC(g) \/ LeaveCNull(g) \/ LeaveC(g) \/ LeaveCDangling(g) \/ Destroy(g) \/ ClearPtr(g)

Next ==
    \E g \in Goroutine :
        \/ \E h \in Handle : New(g, h) \/ NewFails(g, h)
        \/ Invoke(g)
        \/ Step(g)

Spec == Init /\ [][Next]_vars

\* The Go scheduler runs every goroutine and the C functions return.
FairSpec == Spec /\ \A g \in Goroutine : WF_vars(Step(g))

----------------------------------------------------------------------------
(* Properties.                                                              *)

\* While a C function runs, the pointer it was given (the second, unchecked
\* read of s.state) is the live state of the handle the method was called on:
\* no use after Close, no double destroy, no state of another handle at a
\* reused address, and the dimension C sees is the one Go checked against.
CPointerValid ==
    \A g \in Goroutine :
        pc[g] = "inC" =>
            /\ cptr[g] # NULL
            /\ heap[cptr[g]].owner = call[g].h
            /\ heap[cptr[g]].dim = call[g].len

\* Every live C state is the one its handle points to: closing or replacing a
\* handle leaks no state, and no two handles own one state.
NoLeak ==
    \A p \in Ptr : heap[p] # Free => sptr[heap[p].owner] = p

\* A method invoked after a Close of its handle has returned never succeeds,
\* whatever the callers do (Close itself is idempotent).
NoSuccessAfterClose ==
    \A g \in Goroutine : resp[g].late /\ resp[g].status = "ok" => resp[g].op = "Close"

----------------------------------------------------------------------------
(* Refinement: to serial callers a handle is the atomic object specified in *)
(* SimulationHandle, its state found behind s.state.                        *)

IsOpen(h) == dim[h] # 0 /\ sptr[h] # NULL /\ heap[sptr[h]].owner = h

StatusOf == [h \in Handle |-> IF dim[h] = 0 THEN "new" ELSE IF IsOpen(h) THEN "open" ELSE "closed"]
FactorOf == [h \in Handle |-> IF IsOpen(h) THEN heap[sptr[h]].chol ELSE NoCov]
DrawsOf  == [h \in Handle |-> IF IsOpen(h) THEN heap[sptr[h]].draws ELSE 0]
AnswerTo == [g \in Goroutine |-> [h |-> resp[g].h, op |-> resp[g].op, status |-> resp[g].status,
                                  cov |-> resp[g].cov, draw |-> resp[g].draw]]

Object == INSTANCE SimulationHandle WITH
    status <- StatusOf, factor <- FactorOf, draws <- DrawsOf, answer <- AnswerTo

\* Used by one goroutine at a time, a handle behaves as the atomic object: a
\* cached simulation uses the covariance last set, every successful simulation
\* draws afresh, and a Close answers once the state is released.
ImplementsHandle == Object!Spec

\* A Close that found the handle open releases the C state.
CloseReleases ==
    \A h \in Handle :
        (\E g \in Goroutine : pc[g] = "checked" /\ call[g].op = "Close" /\ call[g].h = h)
            ~> (\A p \in Ptr : heap[p].owner # h)

\* Every method returns results or an error (its "error: nil on success, error
\* otherwise"); violated by rows of no periods.
NeverPanics == \A g \in Goroutine : resp[g].status # "panic"
=============================================================================
