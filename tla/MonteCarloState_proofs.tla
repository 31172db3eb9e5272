----------------------- MODULE MonteCarloState_proofs -----------------------
(***************************************************************************)
(* Proofs about MonteCarloState, for any number of goroutines, handles and *)
(* addresses: as long as no goroutine uses a handle another one is closing *)
(* ("serial" and "overlap" callers), every pointer a C function runs on is *)
(* the live state of its own handle, and no state is ever leaked; and to   *)
(* "serial" callers a handle is the atomic object of SimulationHandle.     *)
(***************************************************************************)
EXTENDS MonteCarloState, TLAPS

\* A goroutine in a method that is not (or not yet) a finished Close.
Holding(g) == pc[g] \in {"checked", "inC"}

\* Every live C state is its owner's, and has the dimension the owner recorded.
BlocksOwned ==
    \A p \in Ptr : heap[p] # Free =>
        /\ sptr[heap[p].owner] = p
        /\ heap[p].dim = dim[heap[p].owner]

\* A goroutine in a method has checked the receiver and the lengths.
CallsChecked ==
    \A g \in Goroutine : pc[g] # "idle" =>
        /\ call[g] \in Calls
        /\ dim[call[g].h] # 0
        /\ call[g].len = dim[call[g].h]
        /\ pc[g] = "destroyed" => call[g].op = "Close"

\* No other goroutine is in a method of a handle that is being closed.
CloseAlone ==
    \A g, k \in Goroutine :
        /\ g # k
        /\ pc[g] # "idle" /\ pc[k] # "idle"
        /\ call[g].h = call[k].h
        => call[g].op # "Close"

\* What the nil check established still holds until the destroy.
StateHeld ==
    \A g \in Goroutine : Holding(g) =>
        /\ sptr[call[g].h] # NULL
        /\ heap[sptr[call[g].h]] # Free
        /\ heap[sptr[call[g].h]].owner = call[g].h

\* The pointer in C is s.state, and what the function read is its own state.
PtrCurrent ==
    \A g \in Goroutine : pc[g] = "inC" =>
        /\ cptr[g] = sptr[call[g].h]
        /\ seen[g] \in CStates
        /\ seen[g].owner = call[g].h
        /\ seen[g].dim = dim[call[g].h]

\* A non-nil s.state is the handle's live state, unless a Close is between
\* destroy and s.state = nil.
HandlesOpen ==
    \A h \in Handle : sptr[h] # NULL =>
        \/ heap[sptr[h]] # Free /\ heap[sptr[h]].owner = h
        \/ \E g \in Goroutine : pc[g] = "destroyed" /\ call[g].h = h

\* Between destroy and s.state = nil the handle owns no live state.
NothingLeft ==
    \A g \in Goroutine : pc[g] = "destroyed" =>
        \A p \in Ptr : heap[p] # Free => heap[p].owner # call[g].h

\* A handle that was never returned by New has no state.
UnbornHandles ==
    \A h \in Handle : dim[h] = 0 => sptr[h] = NULL

Inv ==
    /\ TypeOK
    /\ BlocksOwned
    /\ CallsChecked
    /\ CloseAlone
    /\ StateHeld
    /\ PtrCurrent
    /\ HandlesOpen
    /\ NothingLeft
    /\ UnbornHandles

----------------------------------------------------------------------------
(* The C functions leave a state that is well formed and still its owner's. *)

Keeps(o, s) ==
    /\ o.ok \in BOOLEAN
    /\ o.cov \in Covs \cup {Hist}
    /\ o.state \in CStates
    /\ o.state.owner = s.owner
    /\ o.state.dim = s.dim

LEMMA OutcomeKeeps ==
    ASSUME NEW s \in CStates, NEW ok \in BOOLEAN, NEW chol \in Covs,
           NEW used \in Covs \cup {Hist}, NEW n \in {0, 1}
    PROVE  Keeps(Outcome(ok, s, chol, used, n), s)
  <1> DEFINE t == [s EXCEPT !.chol = chol, !.draws = @ + n]
  <1>1. s.draws + n \in Nat
    BY DEF CStates
  <1>2. t \in CStates /\ t.owner = s.owner /\ t.dim = s.dim
    BY <1>1 DEF CStates
  <1>3. Outcome(ok, s, chol, used, n) = [ok |-> ok, cov |-> used, state |-> t]
    BY DEF Outcome
  <1> HIDE DEF t
  <1>4. QED
    BY <1>2, <1>3 DEF Keeps

LEMMA OutcomesKeep ==
    ASSUME NEW c \in Calls, c.op # "Close", NEW s \in CStates, NEW o \in COutcomes(c, s)
    PROVE  Keeps(o, s)
  <1>1. s.chol \in Covs /\ NoCov \in Covs /\ c.cov \in Covs
    BY DEF CStates, Covs, Calls
  <1>2. \A chol \in Covs, used \in Covs \cup {Hist}, n \in {0, 1} :
            Keeps(Outcome(FALSE, s, chol, used, n), s)
    BY OutcomeKeeps
  <1>3. \A chol \in Covs, used \in Covs \cup {Hist}, n \in {0, 1} :
            Keeps(Outcome(TRUE, s, chol, used, n), s)
    BY OutcomeKeeps
  <1>4. \A chol \in Covs : \A f \in FailureLeaving(chol, s) : Keeps(f, s)
    BY <1>1, <1>2 DEF FailureLeaving
  <1>5. CASE c.len # s.dim
    <2>1. o = Outcome(FALSE, s, s.chol, NoCov, 0)
      BY <1>5 DEF COutcomes
    <2>2. QED
      BY <1>1, <1>2, <2>1
  <1>6. CASE c.len = s.dim /\ c.op = "SetCovariance"
    <2>1. o \in SetCovarianceOutcomes(c, s)
      BY <1>6 DEF COutcomes
    <2>2. QED
      BY <1>1, <1>2, <1>3, <2>1 DEF SetCovarianceOutcomes
  <1>7. CASE c.len = s.dim /\ c.op = "VarMonteCarlo"
    <2>1. o \in VarMonteCarloOutcomes(c, s)
      BY <1>7 DEF COutcomes
    <2>2. QED
      BY <1>1, <1>3, <1>4, <2>1 DEF VarMonteCarloOutcomes, Failures
  <1>8. CASE c.len = s.dim /\ c.op = "VarMonteCarloCached"
    <2>1. o \in CachedOutcomes(s)
      BY <1>8 DEF COutcomes
    <2>2. QED
      BY <1>1, <1>2, <1>3, <1>4, <2>1 DEF CachedOutcomes
  <1>9. CASE c.len = s.dim /\ c.op = "VarMonteCarloFromHistory"
    <2>1. o \in HistoryOutcomes(c, s)
      BY <1>9 DEF COutcomes
    <2>2. QED
      BY <1>1, <1>3, <1>4, <2>1 DEF HistoryOutcomes, Failures
  <1>10. CASE c.len = s.dim /\ c.op = "VarMonteCarloBatch"
    <2>1. o \in BatchOutcomes(c, s)
      BY <1>10 DEF COutcomes
    <2>2. QED
      BY <1>1, <1>3, <1>4, <2>1 DEF BatchOutcomes, Failures
  <1>11. QED
    BY <1>5, <1>6, <1>7, <1>8, <1>9, <1>10 DEF Calls, Ops

----------------------------------------------------------------------------
(* Types of what is passed around.                                          *)

LEMMA InputTyped ==
    ASSUME TypeOK, NEW h \in Handle, NEW c \in Inputs(h)
    PROVE  c \in Calls /\ c.h = h
  BY DimAssumption DEF TypeOK, Inputs, Calls

LEMMA AnswerTyped ==
    ASSUME NEW c, c.h \in Handle, c.op \in Ops \cup {"New"}, c.late \in BOOLEAN,
           NEW status \in {"ok", "err", "panic"}, NEW cov \in Covs \cup {Hist}, NEW draw \in Nat
    PROVE  Answer(c, status, cov, draw) \in Resps
  BY DEF Answer, Resps

LEMMA FreeNoState == Free \notin CStates
  BY DEF Free, CStates

LEMMA InitInv == Init => Inv
  BY NULLAssumption DEF Init, Inv, TypeOK, BlocksOwned, CallsChecked, CloseAlone,
      StateHeld, Holding, PtrCurrent, HandlesOpen, NothingLeft, UnbornHandles

\* A step that only gives an answer.
LEMMA AnswerInv ==
    ASSUME Inv, resp' \in [Goroutine -> Resps \cup {NoResp}], closed' \subseteq Handle,
           UNCHANGED <<sptr, dim, heap, pc, call, cptr, seen>>
    PROVE  Inv'
  BY DEF Inv, TypeOK, BlocksOwned, CallsChecked, CloseAlone,
      StateHeld, Holding, PtrCurrent, HandlesOpen, NothingLeft, UnbornHandles

----------------------------------------------------------------------------
(* Each step of a goroutine preserves the invariant.                        *)

LEMMA NewInv ==
    ASSUME Inv, NEW g \in Goroutine, NEW h \in Handle, New(g, h)
    PROVE  Inv'
  <1>1. PICK d \in Dim, p \in Ptr :
            /\ d > 0
            /\ heap[p] = Free
            /\ heap' = [heap EXCEPT ![p] = [owner |-> h, dim |-> d, chol |-> NoCov, draws |-> 0]]
            /\ sptr' = [sptr EXCEPT ![h] = p]
            /\ dim' = [dim EXCEPT ![h] = d]
    BY DEF New, ValidDim
  <1>2. [owner |-> h, dim |-> d, chol |-> NoCov, draws |-> 0] \in CStates
    BY <1>1, DimAssumption DEF CStates, Covs
  <1>3. UNCHANGED <<pc, call, cptr, seen, resp, closed>> /\ dim[h] = 0 /\ sptr[h] = NULL
    BY DEF New, Inv, UnbornHandles
  <1>4. d # 0 /\ p # NULL
    BY <1>1, NULLAssumption
  <1>5. \A k \in Goroutine : pc[k] # "idle" => call[k].h \in Handle /\ call[k].h # h
    BY <1>3 DEF Inv, CallsChecked, Calls
  <1>6. TypeOK'
    BY <1>1, <1>2, <1>3 DEF Inv, TypeOK
  <1>7. BlocksOwned'
    <2>1. \A q \in Ptr : heap[q] # Free => heap[q].owner \in Handle /\ heap[q].owner # h
      BY <1>3, <1>4, NULLAssumption DEF Inv, TypeOK, BlocksOwned, CStates
    <2>2. QED
      BY <1>1, <2>1 DEF Inv, TypeOK, BlocksOwned
  <1>8. CallsChecked' /\ CloseAlone'
    BY <1>1, <1>3, <1>5 DEF Inv, TypeOK, CallsChecked, CloseAlone
  <1>9. StateHeld' /\ PtrCurrent'
    BY <1>1, <1>3, <1>4, <1>5 DEF Inv, TypeOK, StateHeld, PtrCurrent, Holding
  <1>10. HandlesOpen'
    BY <1>1, <1>2, <1>3, FreeNoState DEF Inv, TypeOK, HandlesOpen
  <1>11. UnbornHandles' /\ NothingLeft'
    BY <1>1, <1>3, <1>4, <1>5 DEF Inv, TypeOK, UnbornHandles, NothingLeft
  <1> QED
    BY <1>6, <1>7, <1>8, <1>9, <1>10, <1>11 DEF Inv

LEMMA PermittedAlone ==
    ASSUME Sharing # "free", NEW h \in Handle, NEW op \in Ops, Permitted(h, op)
    PROVE  \A k \in Goroutine : pc[k] # "idle" /\ call[k].h = h =>
               op # "Close" /\ call[k].op # "Close"
  <1>1. CASE Sharing = "serial"
    BY <1>1 DEF Permitted, Using
  <1>2. CASE Sharing = "overlap"
    <2>1. /\ op = "Close" => Using(h) = {}
          /\ \A k \in Using(h) : call[k].op # "Close"
      BY <1>2 DEF Permitted
    <2>2. QED
      BY <2>1 DEF Using
  <1>3. QED
    BY <1>1, <1>2, SharingAssumption

LEMMA AcceptInv ==
    ASSUME Inv, Sharing # "free", NEW g \in Goroutine, pc[g] = "idle",
           NEW h \in Handle, dim[h] # 0, NEW c \in Inputs(h), Permitted(h, c.op), Accept(g, c)
    PROVE  Inv'
  <1>1. c \in Calls /\ c.h = h
    BY InputTyped DEF Inv
  <1>2. \A k \in Goroutine : pc[k] # "idle" /\ call[k].h = h => c.op # "Close" /\ call[k].op # "Close"
    BY <1>1, PermittedAlone DEF Calls
  <1>3. /\ pc' = [pc EXCEPT ![g] = "checked"]
        /\ call' = [call EXCEPT ![g] = c]
        /\ resp' = [resp EXCEPT ![g] = NoResp]
        /\ UNCHANGED <<sptr, dim, heap, cptr, seen, closed>>
    BY DEF Accept
  <1>4. sptr[h] # NULL /\ c.len = dim[h]
    BY <1>1 DEF Accept, Rejects
  <1>5. heap[sptr[h]] # Free /\ heap[sptr[h]].owner = h
    BY <1>2, <1>4 DEF Inv, HandlesOpen, CallsChecked
  <1>6. TypeOK'
    BY <1>1, <1>3 DEF Inv, TypeOK
  <1>7. BlocksOwned' /\ UnbornHandles'
    BY <1>3 DEF Inv, BlocksOwned, UnbornHandles
  <1>8. CallsChecked'
    BY <1>1, <1>3, <1>4 DEF Inv, TypeOK, CallsChecked
  <1>9. CloseAlone'
    BY <1>1, <1>2, <1>3 DEF Inv, TypeOK, CloseAlone
  <1>10. StateHeld' /\ PtrCurrent'
    BY <1>1, <1>3, <1>4, <1>5 DEF Inv, TypeOK, StateHeld, PtrCurrent, Holding
  <1>11. HandlesOpen' /\ NothingLeft'
    BY <1>3 DEF Inv, TypeOK, HandlesOpen, NothingLeft
  <1> QED
    BY <1>6, <1>7, <1>8, <1>9, <1>10, <1>11 DEF Inv

LEMMA InvokeInv ==
    ASSUME Inv, Sharing # "free", NEW g \in Goroutine, Invoke(g)
    PROVE  Inv'
  <1>0. PICK h \in Handle :
            /\ dim[h] # 0
            /\ \E c \in Inputs(h) :
                  /\ Permitted(h, c.op)
                  /\ Reject(g, c) \/ Panic(g, c) \/ CloseAgain(g, c) \/ Accept(g, c)
    BY DEF Invoke
  <1>1. PICK c \in Inputs(h) :
            /\ Permitted(h, c.op)
            /\ Reject(g, c) \/ Panic(g, c) \/ CloseAgain(g, c) \/ Accept(g, c)
    BY <1>0
  <1>2. c \in Calls /\ c.h = h /\ pc[g] = "idle"
    BY InputTyped DEF Inv, Invoke
  <1>3. c.h \in Handle /\ c.op \in Ops /\ c.late \in BOOLEAN
    BY <1>2 DEF Calls
  <1>4. \A st \in {"ok", "err", "panic"} : Answer(c, st, NoCov, 0) \in Resps
    BY <1>3, AnswerTyped DEF Covs
  <1>5. CASE Reject(g, c) \/ Panic(g, c) \/ CloseAgain(g, c)
    <2>1. PICK st \in {"ok", "err", "panic"} :
              /\ resp' = [resp EXCEPT ![g] = Answer(c, st, NoCov, 0)]
              /\ UNCHANGED <<sptr, dim, heap, pc, call, cptr, seen>>
              /\ closed' \in {closed, closed \cup {c.h}}
      BY <1>5 DEF Reject, Panic, CloseAgain
    <2>2. resp' \in [Goroutine -> Resps \cup {NoResp}] /\ closed' \subseteq Handle
      BY <1>3, <1>4, <2>1 DEF Inv, TypeOK
    <2>3. QED
      BY <2>1, <2>2, AnswerInv
  <1>6. CASE Accept(g, c)
    BY <1>0, <1>1, <1>2, <1>6, AcceptInv
  <1>7. QED
    BY <1>1, <1>5, <1>6

LEMMA EnterCInv ==
    ASSUME Inv, NEW g \in Goroutine, EnterC(g)
    PROVE  Inv'
  <1>1. /\ pc[g] = "checked"
        /\ cptr' = [cptr EXCEPT ![g] = sptr[call[g].h]]
        /\ pc' = [pc EXCEPT ![g] = "inC"]
        /\ UNCHANGED <<sptr, dim, heap, call, resp, closed>>
    BY DEF EnterC
  <1>2. call[g].h \in Handle /\ sptr[call[g].h] # NULL /\ sptr[call[g].h] \in Ptr
    BY <1>1 DEF Inv, TypeOK, CallsChecked, StateHeld, Holding, Calls
  <1>3. seen' = [seen EXCEPT ![g] = heap[sptr[call[g].h]]]
    BY <1>2 DEF EnterC
  <1>4. heap[sptr[call[g].h]] \in CStates /\ heap[sptr[call[g].h]].owner = call[g].h
    BY <1>1, <1>2 DEF Inv, TypeOK, StateHeld, Holding
  <1>5. heap[sptr[call[g].h]].dim = dim[call[g].h]
    BY <1>2, <1>4, FreeNoState DEF Inv, BlocksOwned
  <1>6. TypeOK'
    BY <1>1, <1>2, <1>3, <1>4 DEF Inv, TypeOK
  <1>7. BlocksOwned' /\ UnbornHandles' /\ HandlesOpen'
    BY <1>1 DEF Inv, TypeOK, BlocksOwned, UnbornHandles, HandlesOpen
  <1>8. CallsChecked' /\ CloseAlone' /\ StateHeld' /\ NothingLeft'
    BY <1>1 DEF Inv, TypeOK, CallsChecked, CloseAlone, StateHeld, Holding, NothingLeft
  <1>9. PtrCurrent'
    BY <1>1, <1>3, <1>4, <1>5 DEF Inv, TypeOK, PtrCurrent
  <1> QED
    BY <1>6, <1>7, <1>8, <1>9 DEF Inv

\* In C, the pointer is not nil and the state is the handle's: the undefined
\* outcomes do not occur.
LEMMA InCIntact ==
    ASSUME Inv, NEW g \in Goroutine, pc[g] = "inC"
    PROVE  /\ cptr[g] \in Ptr
           /\ cptr[g] = sptr[call[g].h]
           /\ call[g].h \in Handle
           /\ heap[cptr[g]] \in CStates
           /\ Intact(g)
  <1>1. call[g].h \in Handle
    BY DEF Inv, CallsChecked, Calls
  <1>2. cptr[g] = sptr[call[g].h] /\ sptr[call[g].h] # NULL /\ seen[g] \in CStates
    BY DEF Inv, PtrCurrent, StateHeld, Holding
  <1>3. cptr[g] \in Ptr
    BY <1>1, <1>2 DEF Inv, TypeOK
  <1>4. heap[cptr[g]] \in CStates /\ heap[cptr[g]].owner = call[g].h
    BY <1>2, <1>3 DEF Inv, TypeOK, StateHeld, Holding
  <1> QED
    BY <1>1, <1>2, <1>3, <1>4, FreeNoState, NULLAssumption DEF Intact

LEMMA LeaveCInv ==
    ASSUME Inv, NEW g \in Goroutine, LeaveC(g)
    PROVE  Inv'
  <1>1. PICK o \in COutcomes(call[g], seen[g]) :
            /\ heap' = [heap EXCEPT ![cptr[g]] = o.state]
            /\ resp' = [resp EXCEPT ![g] = Result(call[g], seen[g], o)]
    BY DEF LeaveC
  <1>2. /\ pc[g] = "inC" /\ call[g].op # "Close"
        /\ pc' = [pc EXCEPT ![g] = "idle"]
        /\ call' = [call EXCEPT ![g] = NoCall]
        /\ cptr' = [cptr EXCEPT ![g] = NULL]
        /\ seen' = [seen EXCEPT ![g] = Free]
        /\ UNCHANGED <<sptr, dim, closed>>
    BY DEF LeaveC, Finish
  <1>3. call[g] \in Calls /\ seen[g] \in CStates
    BY <1>2 DEF Inv, CallsChecked, PtrCurrent
  <1>4. Keeps(o, seen[g])
    BY <1>2, <1>3, OutcomesKeep
  <1>5. /\ cptr[g] \in Ptr /\ cptr[g] = sptr[call[g].h] /\ call[g].h \in Handle
        /\ heap[cptr[g]] \in CStates
    BY <1>2, InCIntact
  <1>6. o.state \in CStates /\ o.state.owner = call[g].h /\ o.state.dim = dim[call[g].h]
    BY <1>2, <1>4 DEF Keeps, Inv, PtrCurrent
  <1>7. Result(call[g], seen[g], o) \in Resps
    <2>1. call[g].op \in Ops /\ call[g].late \in BOOLEAN /\ seen[g].draws \in Nat
      BY <1>3 DEF Calls, CStates
    <2>2. o.cov \in Covs \cup {Hist} /\ NoCov \in Covs \cup {Hist}
      BY <1>4 DEF Keeps, Covs
    <2>3. Answer(call[g], "ok", o.cov, seen[g].draws) \in Resps
      BY <1>5, <2>1, <2>2, AnswerTyped
    <2>4. Answer(call[g], "err", NoCov, 0) \in Resps
      BY <1>5, <2>1, <2>2, AnswerTyped
    <2>5. QED
      BY <2>3, <2>4 DEF Result
  <1>8. TypeOK'
    BY <1>1, <1>2, <1>6, <1>7 DEF Inv, TypeOK
  <1>9. BlocksOwned'
    BY <1>1, <1>2, <1>5, <1>6 DEF Inv, TypeOK, BlocksOwned
  <1>10. CallsChecked' /\ CloseAlone' /\ UnbornHandles'
    BY <1>2 DEF Inv, TypeOK, CallsChecked, CloseAlone, UnbornHandles
  <1>11. heap[cptr[g]].owner = call[g].h
    BY <1>2, InCIntact DEF Intact
  <1>12. \A p \in Ptr : heap'[p] = heap[p] \/ (/\ p = cptr[g]
                                             /\ heap'[p] # Free
                                             /\ heap'[p].owner = heap[p].owner)
    BY <1>1, <1>5, <1>6, <1>11, FreeNoState DEF Inv, TypeOK
  <1>13. StateHeld'
    BY <1>2, <1>12 DEF Inv, TypeOK, StateHeld, Holding, CallsChecked, Calls
  <1>14. PtrCurrent'
    BY <1>2 DEF Inv, TypeOK, PtrCurrent
  <1>15. HandlesOpen'
    <2>1. SUFFICES ASSUME NEW h \in Handle, sptr[h] # NULL,
                          ~ \E k \in Goroutine : pc[k] = "destroyed" /\ call[k].h = h
                   PROVE  heap'[sptr[h]] # Free /\ heap'[sptr[h]].owner = h
      BY <1>2 DEF HandlesOpen, Inv, TypeOK
    <2>2. sptr[h] \in Ptr /\ heap[sptr[h]] # Free /\ heap[sptr[h]].owner = h
      BY <2>1 DEF Inv, HandlesOpen, TypeOK
    <2>3. QED
      BY <1>12, <2>2
  <1>16. NothingLeft'
    BY <1>2, <1>5, <1>11, <1>12, FreeNoState DEF Inv, TypeOK, NothingLeft
  <1> QED
    BY <1>8, <1>9, <1>10, <1>13, <1>14, <1>15, <1>16 DEF Inv

LEMMA DestroyInv ==
    ASSUME Inv, NEW g \in Goroutine, Destroy(g)
    PROVE  Inv'
  <1>1. /\ cptr[g] \in Ptr /\ cptr[g] = sptr[call[g].h] /\ call[g].h \in Handle
        /\ cptr[g] # NULL
    BY InCIntact, NULLAssumption DEF Destroy
  <1>2. /\ pc[g] = "inC" /\ call[g].op = "Close"
        /\ heap' = [heap EXCEPT ![cptr[g]] = Free]
        /\ pc' = [pc EXCEPT ![g] = "destroyed"]
        /\ UNCHANGED <<sptr, dim, call, cptr, seen, resp, closed>>
    BY <1>1 DEF Destroy
  <1>3. TypeOK'
    BY <1>2 DEF Inv, TypeOK
  <1>4. BlocksOwned'
    BY <1>2 DEF Inv, TypeOK, BlocksOwned
  <1>5. CallsChecked' /\ CloseAlone' /\ UnbornHandles' /\ PtrCurrent'
    BY <1>2 DEF Inv, TypeOK, CallsChecked, CloseAlone, UnbornHandles, PtrCurrent
  <1>6. \A k \in Goroutine : k # g /\ pc[k] # "idle" => call[k].h # call[g].h
    BY <1>2 DEF Inv, CloseAlone
  <1>7. heap[cptr[g]].owner = call[g].h
    BY <1>2, InCIntact DEF Intact
  <1>8. StateHeld'
    <2>1. SUFFICES ASSUME NEW k \in Goroutine, Holding(k)'
                   PROVE  /\ sptr[call[k].h] # NULL
                          /\ heap'[sptr[call[k].h]] # Free
                          /\ heap'[sptr[call[k].h]].owner = call[k].h
      BY <1>2 DEF StateHeld
    <2>2. k # g /\ Holding(k)
      BY <1>2, <2>1 DEF Inv, TypeOK, Holding
    <2>3. /\ call[k].h \in Handle
          /\ call[k].h # call[g].h
          /\ sptr[call[k].h] # NULL
          /\ heap[sptr[call[k].h]] # Free
          /\ heap[sptr[call[k].h]].owner = call[k].h
      BY <1>6, <2>2 DEF Inv, StateHeld, Holding, CallsChecked, Calls
    <2>4. sptr[call[k].h] # cptr[g]
      BY <1>7, <2>3
    <2>5. QED
      BY <1>2, <2>3, <2>4 DEF Inv, TypeOK
  <1>9. HandlesOpen'
    <2>1. SUFFICES ASSUME NEW h \in Handle, sptr[h] # NULL
                   PROVE  \/ heap'[sptr[h]] # Free /\ heap'[sptr[h]].owner = h
                          \/ \E k \in Goroutine : pc'[k] = "destroyed" /\ call[k].h = h
      BY <1>2 DEF HandlesOpen
    <2>2. pc'[g] = "destroyed"
      BY <1>2 DEF Inv, TypeOK
    <2>3. CASE h = call[g].h
      BY <2>2, <2>3
    <2>4. CASE \E k \in Goroutine : pc[k] = "destroyed" /\ call[k].h = h
      BY <1>2, <2>4 DEF Inv, TypeOK
    <2>5. CASE h # call[g].h /\ heap[sptr[h]] # Free /\ heap[sptr[h]].owner = h
      <3>1. sptr[h] \in Ptr /\ sptr[h] # cptr[g]
        BY <1>7, <2>1, <2>5 DEF Inv, TypeOK
      <3>2. QED
        BY <1>2, <2>5, <3>1 DEF Inv, TypeOK
    <2>6. QED
      BY <2>1, <2>3, <2>4, <2>5 DEF Inv, HandlesOpen
  <1>10. NothingLeft'
    <2>1. \A p \in Ptr : heap'[p] # Free => heap[p] # Free /\ p # cptr[g] /\ heap'[p] = heap[p]
      BY <1>2 DEF Inv, TypeOK
    <2>2. \A p \in Ptr : heap'[p] # Free => heap[p].owner # call[g].h
      BY <1>1, <2>1 DEF Inv, BlocksOwned
    <2>3. QED
      BY <1>2, <2>1, <2>2 DEF Inv, TypeOK, NothingLeft
  <1> QED
    BY <1>3, <1>4, <1>5, <1>8, <1>9, <1>10 DEF Inv

LEMMA ClearPtrInv ==
    ASSUME Inv, NEW g \in Goroutine, ClearPtr(g)
    PROVE  Inv'
  <1>1. /\ pc[g] = "destroyed"
        /\ sptr' = [sptr EXCEPT ![call[g].h] = NULL]
        /\ closed' = closed \cup {call[g].h}
        /\ resp' = [resp EXCEPT ![g] = Answer(call[g], "ok", NoCov, 0)]
        /\ pc' = [pc EXCEPT ![g] = "idle"]
        /\ call' = [call EXCEPT ![g] = NoCall]
        /\ cptr' = [cptr EXCEPT ![g] = NULL]
        /\ seen' = [seen EXCEPT ![g] = Free]
        /\ UNCHANGED <<dim, heap>>
    BY DEF ClearPtr, Finish
  <1>2. call[g] \in Calls /\ call[g].op = "Close"
    BY <1>1 DEF Inv, CallsChecked
  <1>3. call[g].h \in Handle /\ call[g].op \in Ops /\ call[g].late \in BOOLEAN
    BY <1>2 DEF Calls
  <1>4. Answer(call[g], "ok", NoCov, 0) \in Resps
    BY <1>3, AnswerTyped DEF Covs
  <1>5. TypeOK'
    BY <1>1, <1>3, <1>4 DEF Inv, TypeOK
  <1>6. BlocksOwned'
    <2>1. \A p \in Ptr : heap[p] # Free => heap[p].owner \in Handle /\ heap[p].owner # call[g].h
      BY <1>1 DEF Inv, TypeOK, NothingLeft, CStates
    <2>2. QED
      BY <1>1, <2>1 DEF Inv, TypeOK, BlocksOwned
  <1>7. CallsChecked' /\ CloseAlone' /\ NothingLeft'
    BY <1>1 DEF Inv, TypeOK, CallsChecked, CloseAlone, NothingLeft
  <1>8. \A k \in Goroutine : k # g /\ pc[k] # "idle" =>
            call[k].h \in Handle /\ call[k].h # call[g].h
    BY <1>1, <1>2 DEF Inv, CloseAlone, CallsChecked, Calls
  <1>9. StateHeld' /\ PtrCurrent'
    BY <1>1, <1>8 DEF Inv, TypeOK, StateHeld, PtrCurrent, Holding
  <1>10. HandlesOpen'
    BY <1>1, <1>8 DEF Inv, TypeOK, HandlesOpen
  <1>11. UnbornHandles'
    BY <1>1, <1>3 DEF Inv, TypeOK, UnbornHandles
  <1> QED
    BY <1>5, <1>6, <1>7, <1>9, <1>10, <1>11 DEF Inv

----------------------------------------------------------------------------

LEMMA NextInv ==
    ASSUME Inv, Sharing # "free", [Next]_vars
    PROVE  Inv'
  <1>1. CASE UNCHANGED vars
    BY <1>1 DEF vars, Inv, TypeOK, BlocksOwned, CallsChecked, CloseAlone,
        StateHeld, Holding, PtrCurrent, HandlesOpen, NothingLeft, UnbornHandles
  <1>2. ASSUME NEW g \in Goroutine, NEW h \in Handle, New(g, h)
        PROVE  Inv'
    BY <1>2, NewInv
  <1>3. ASSUME NEW g \in Goroutine, NEW h \in Handle, NewFails(g, h)
        PROVE  Inv'
    <2> DEFINE c == [NoCall EXCEPT !.op = "New", !.h = h]
    <2>1. c.h \in Handle /\ c.op \in Ops \cup {"New"} /\ c.late \in BOOLEAN
      BY DEF NoCall
    <2> HIDE DEF c
    <2>2. Answer(c, "err", NoCov, 0) \in Resps
      BY <2>1, AnswerTyped DEF Covs
    <2>3. /\ resp' = [resp EXCEPT ![g] = Answer(c, "err", NoCov, 0)]
          /\ UNCHANGED <<sptr, dim, heap, pc, call, cptr, seen, closed>>
      BY <1>3 DEF NewFails, c
    <2>4. resp' \in [Goroutine -> Resps \cup {NoResp}] /\ closed' \subseteq Handle
      BY <2>2, <2>3 DEF Inv, TypeOK
    <2>5. QED
      BY <2>3, <2>4, AnswerInv
  <1>4. ASSUME NEW g \in Goroutine, Invoke(g)
        PROVE  Inv'
    BY <1>4, InvokeInv
  <1>5. ASSUME NEW g \in Goroutine, Step(g)
        PROVE  Inv'
    <2>1. ~LeaveCNull(g) /\ ~LeaveCDangling(g)
      BY InCIntact, NULLAssumption DEF LeaveCNull, LeaveCDangling
    <2>2. CASE EnterC(g)
      BY <2>2, EnterCInv
    <2>3. CASE LeaveC(g)
      BY <2>3, LeaveCInv
    <2>4. CASE Destroy(g)
      BY <2>4, DestroyInv
    <2>5. CASE ClearPtr(g)
      BY <2>5, ClearPtrInv
    <2>6. QED
      BY <1>5, <2>1, <2>2, <2>3, <2>4, <2>5 DEF Step
  <1>6. QED
    BY <1>1, <1>2, <1>3, <1>4, <1>5 DEF Next

\* Inv is an invariant: if no goroutine uses a handle that another one is
\* closing, whatever the goroutines, handles and addresses.
THEOREM Invariance ==
    ASSUME Sharing # "free"
    PROVE  Spec => []Inv
  <1>1. Init => Inv
    BY InitInv
  <1>2. Inv /\ [Next]_vars => Inv'
    BY NextInv
  <1>3. QED
    BY <1>1, <1>2, PTL DEF Spec

\* Every variable keeps its type.
THEOREM TypeCorrect ==
    ASSUME Sharing # "free"
    PROVE  Spec => []TypeOK
  <1>1. Inv => TypeOK
    BY DEF Inv
  <1>2. QED
    BY <1>1, Invariance, PTL

\* The methods' unchecked second read of s.state is safe: a C function never
\* runs on a destroyed state, on another handle's, on nil, or with a dimension
\* that is not its state's.
THEOREM PointersValid ==
    ASSUME Sharing # "free"
    PROVE  Spec => []CPointerValid
  <1>1. Inv => CPointerValid
    <2>1. SUFFICES ASSUME Inv, NEW g \in Goroutine, pc[g] = "inC"
                   PROVE  /\ cptr[g] # NULL
                          /\ heap[cptr[g]].owner = call[g].h
                          /\ heap[cptr[g]].dim = call[g].len
      BY DEF CPointerValid
    <2>2. /\ cptr[g] \in Ptr /\ heap[cptr[g]] \in CStates
          /\ heap[cptr[g]].owner = call[g].h
      BY <2>1, InCIntact DEF Intact
    <2>3. heap[cptr[g]].dim = dim[call[g].h] /\ call[g].len = dim[call[g].h]
      BY <2>1, <2>2, FreeNoState DEF Inv, BlocksOwned, CallsChecked
    <2>4. QED
      BY <2>2, <2>3, NULLAssumption
  <1>2. QED
    BY <1>1, Invariance, PTL

\* No C state outlives its handle or is shared by two.
THEOREM NothingLeaks ==
    ASSUME Sharing # "free"
    PROVE  Spec => []NoLeak
  <1>1. Inv => NoLeak
    BY DEF Inv, BlocksOwned, NoLeak
  <1>2. QED
    BY <1>1, Invariance, PTL

----------------------------------------------------------------------------
(* What holds of undisciplined callers too.                                 *)

\* The functions' shapes, which are all LateInv needs of the types.
Shapes ==
    /\ sptr \in [Handle -> Ptr \cup {NULL}]
    /\ dim \in [Handle -> Nat]
    /\ DOMAIN pc = Goroutine
    /\ DOMAIN call = Goroutine
    /\ DOMAIN resp = Goroutine

\* A handle whose Close has returned stays closed, and no method of a closed
\* handle gets past the nil check.
LateCalls ==
    /\ \A h \in closed : h \in Handle /\ dim[h] # 0 /\ sptr[h] = NULL
    /\ \A g \in Goroutine : call[g].late = FALSE
    /\ \A g \in Goroutine : pc[g] # "idle" => call[g].h \in Handle /\ dim[call[g].h] # 0

LateInv == Shapes /\ LateCalls /\ NoSuccessAfterClose

LEMMA LateInit == Init => LateInv
  BY DEF Init, LateInv, Shapes, LateCalls, NoSuccessAfterClose, NoCall, NoResp

\* An answer that is no late success.
LEMMA LateAnswer ==
    ASSUME LateInv, NEW g \in Goroutine, NEW a, resp' = [resp EXCEPT ![g] = a],
           a.late = FALSE \/ a.status # "ok" \/ a.op = "Close"
    PROVE  DOMAIN resp' = Goroutine /\ NoSuccessAfterClose'
  BY DEF LateInv, Shapes, NoSuccessAfterClose

\* The end of a method: its goroutine is idle again.
LEMMA LateFinish ==
    ASSUME LateInv, NEW g \in Goroutine, Finish(g), UNCHANGED dim,
           NEW a, resp' = [resp EXCEPT ![g] = a],
           a.late = FALSE \/ a.status # "ok" \/ a.op = "Close",
           UNCHANGED <<sptr, closed>> \/
               (pc[g] # "idle" /\ sptr' = [sptr EXCEPT ![call[g].h] = NULL]
                               /\ closed' = closed \cup {call[g].h})
    PROVE  LateInv'
  <1>1. DOMAIN resp' = Goroutine /\ NoSuccessAfterClose'
    BY LateAnswer
  <1>2. /\ DOMAIN pc' = Goroutine /\ DOMAIN call' = Goroutine
        /\ \A k \in Goroutine : pc'[k] = IF k = g THEN "idle" ELSE pc[k]
        /\ \A k \in Goroutine : call'[k] = IF k = g THEN NoCall ELSE call[k]
    BY DEF Finish, LateInv, Shapes
  <1>3. \A k \in Goroutine : call'[k].late = FALSE
    BY <1>2 DEF NoCall, LateInv, LateCalls
  <1>4. \A k \in Goroutine : pc'[k] # "idle" => call'[k].h \in Handle /\ dim'[call'[k].h] # 0
    BY <1>2 DEF LateInv, LateCalls
  <1>5. /\ sptr' \in [Handle -> Ptr \cup {NULL}]
        /\ \A h \in closed' : h \in Handle /\ dim'[h] # 0 /\ sptr'[h] = NULL
    BY DEF LateInv, Shapes, LateCalls
  <1>6. QED
    BY <1>1, <1>2, <1>3, <1>4, <1>5 DEF LateInv, Shapes, LateCalls

LEMMA LateInvoke ==
    ASSUME LateInv, NEW g \in Goroutine, Invoke(g)
    PROVE  LateInv'
  <1>1. PICK h \in Handle : dim[h] # 0 /\ \E c \in Inputs(h) :
            Reject(g, c) \/ Panic(g, c) \/ CloseAgain(g, c) \/ Accept(g, c)
    BY DEF Invoke
  <1>2. PICK c \in Inputs(h) :
            Reject(g, c) \/ Panic(g, c) \/ CloseAgain(g, c) \/ Accept(g, c)
    BY <1>1
  <1>3. c.h = h /\ c.late = (h \in closed) /\ pc[g] = "idle"
    BY DEF Inputs, Invoke
  <1>4. CASE Reject(g, c) \/ Panic(g, c)
    <2>1. PICK st \in {"err", "panic"} : resp' = [resp EXCEPT ![g] = Answer(c, st, NoCov, 0)]
      BY <1>4 DEF Reject, Panic
    <2>2. Answer(c, st, NoCov, 0).status # "ok"
      BY DEF Answer
    <2>3. DOMAIN resp' = Goroutine /\ NoSuccessAfterClose'
      BY <2>1, <2>2, LateAnswer
    <2>4. UNCHANGED <<sptr, dim, pc, call, closed>>
      BY <1>4 DEF Reject, Panic
    <2>5. QED
      BY <2>3, <2>4 DEF LateInv, Shapes, LateCalls
  <1>5. CASE CloseAgain(g, c)
    <2>1. /\ resp' = [resp EXCEPT ![g] = Answer(c, "ok", NoCov, 0)]
          /\ UNCHANGED <<sptr, dim, pc, call>>
          /\ closed' = closed \cup {h} /\ sptr[h] = NULL /\ c.op = "Close"
      BY <1>3, <1>5 DEF CloseAgain
    <2>2. Answer(c, "ok", NoCov, 0).op = "Close"
      BY <2>1 DEF Answer
    <2>3. DOMAIN resp' = Goroutine /\ NoSuccessAfterClose'
      BY <2>1, <2>2, LateAnswer
    <2>4. QED
      BY <1>1, <2>1, <2>3 DEF LateInv, Shapes, LateCalls
  <1>6. CASE Accept(g, c)
    <2>1. /\ pc' = [pc EXCEPT ![g] = "checked"]
          /\ call' = [call EXCEPT ![g] = c]
          /\ resp' = [resp EXCEPT ![g] = NoResp]
          /\ UNCHANGED <<sptr, dim, closed>>
          /\ sptr[h] # NULL
      BY <1>3, <1>6 DEF Accept, Rejects
    <2>2. c.late = FALSE
      <3>1. h \notin closed
        BY <2>1 DEF LateInv, LateCalls
      <3>2. (h \in closed) = FALSE
        BY <3>1
      <3>3. c.late = (h \in closed)
        BY <1>3
      <3>4. QED
        BY <3>2, <3>3, Zenon
    <2>3. DOMAIN resp' = Goroutine /\ NoSuccessAfterClose'
      BY <2>1, LateAnswer DEF NoResp
    <2>4. /\ DOMAIN pc' = Goroutine /\ DOMAIN call' = Goroutine
          /\ \A k \in Goroutine : pc'[k] = IF k = g THEN "checked" ELSE pc[k]
          /\ \A k \in Goroutine : call'[k] = IF k = g THEN c ELSE call[k]
      BY <2>1 DEF LateInv, Shapes
    <2>5. \A k \in Goroutine : call'[k].late = FALSE
      BY <2>2, <2>4 DEF LateInv, LateCalls
    <2>6. \A k \in Goroutine : pc'[k] # "idle" => call'[k].h \in Handle /\ dim'[call'[k].h] # 0
      BY <1>1, <1>3, <2>1, <2>4 DEF LateInv, LateCalls
    <2>7. QED
      BY <2>1, <2>3, <2>4, <2>5, <2>6 DEF LateInv, Shapes, LateCalls
  <1>7. QED
    BY <1>2, <1>4, <1>5, <1>6

LEMMA LateMethod ==
    ASSUME LateInv, NEW g \in Goroutine, Step(g)
    PROVE  LateInv'
  <1>1. \A st, cov, n : Answer(call[g], st, cov, n).late = FALSE
    BY DEF Answer, LateInv, LateCalls
  <1>2. CASE EnterC(g)
    <2>1. UNCHANGED <<sptr, dim, call, resp, closed>> /\ pc' = [pc EXCEPT ![g] = "inC"]
          /\ pc[g] = "checked"
      BY <1>2 DEF EnterC
    <2>2. QED
      BY <2>1 DEF LateInv, Shapes, LateCalls, NoSuccessAfterClose
  <1>3. CASE LeaveCNull(g) \/ LeaveC(g) \/ LeaveCDangling(g)
    <2>1. PICK st, cov, n : resp' = [resp EXCEPT ![g] = Answer(call[g], st, cov, n)]
      <3>1. CASE LeaveCNull(g)
        BY <3>1 DEF LeaveCNull
      <3>2. CASE LeaveC(g)
        <4>1. PICK o \in COutcomes(call[g], seen[g]) :
                  resp' = [resp EXCEPT ![g] = Result(call[g], seen[g], o)]
          BY <3>2 DEF LeaveC
        <4>2. QED
          BY <4>1 DEF Result
      <3>3. CASE LeaveCDangling(g)
        BY <3>3 DEF LeaveCDangling
      <3>4. QED
        BY <1>3, <3>1, <3>2, <3>3
    <2>2. Finish(g) /\ UNCHANGED <<sptr, dim, closed>>
      BY <1>3 DEF LeaveCNull, LeaveC, LeaveCDangling
    <2>3. QED
      BY <1>1, <2>1, <2>2, LateFinish
  <1>4. CASE Destroy(g)
    <2>1. UNCHANGED <<sptr, dim, call, resp, closed>> /\ pc' = [pc EXCEPT ![g] = "destroyed"]
          /\ pc[g] = "inC"
      BY <1>4 DEF Destroy
    <2>2. QED
      BY <2>1 DEF LateInv, Shapes, LateCalls, NoSuccessAfterClose
  <1>5. CASE ClearPtr(g)
    <2>1. /\ Finish(g) /\ UNCHANGED dim /\ pc[g] # "idle"
          /\ resp' = [resp EXCEPT ![g] = Answer(call[g], "ok", NoCov, 0)]
          /\ sptr' = [sptr EXCEPT ![call[g].h] = NULL]
          /\ closed' = closed \cup {call[g].h}
      BY <1>5 DEF ClearPtr
    <2>2. QED
      BY <1>1, <2>1, LateFinish
  <1>6. QED
    BY <1>2, <1>3, <1>4, <1>5 DEF Step

LEMMA LateNext ==
    ASSUME LateInv, [Next]_vars
    PROVE  LateInv'
  <1>1. CASE UNCHANGED vars
    BY <1>1 DEF vars, LateInv, Shapes, LateCalls, NoSuccessAfterClose
  <1>2. ASSUME NEW g \in Goroutine, NEW h \in Handle, New(g, h)
        PROVE  LateInv'
    <2>1. PICK d \in Dim, p \in Ptr :
              d > 0 /\ sptr' = [sptr EXCEPT ![h] = p] /\ dim' = [dim EXCEPT ![h] = d]
      BY <1>2 DEF New, ValidDim
    <2>2. dim[h] = 0 /\ UNCHANGED <<pc, call, resp, closed>> /\ d \in Nat /\ d # 0
      BY <1>2, <2>1, DimAssumption DEF New
    <2>3. QED
      BY <2>1, <2>2 DEF LateInv, Shapes, LateCalls, NoSuccessAfterClose
  <1>3. ASSUME NEW g \in Goroutine, NEW h \in Handle, NewFails(g, h)
        PROVE  LateInv'
    <2>1. PICK c : resp' = [resp EXCEPT ![g] = Answer(c, "err", NoCov, 0)]
      BY <1>3 DEF NewFails
    <2>2. Answer(c, "err", NoCov, 0).status # "ok"
      BY DEF Answer
    <2>3. DOMAIN resp' = Goroutine /\ NoSuccessAfterClose'
      BY <2>1, <2>2, LateAnswer
    <2>4. UNCHANGED <<sptr, dim, pc, call, closed>>
      BY <1>3 DEF NewFails
    <2>5. QED
      BY <2>3, <2>4 DEF LateInv, Shapes, LateCalls
  <1>4. QED
    BY <1>1, <1>2, <1>3, LateInvoke, LateMethod DEF Next

\* However goroutines share a handle, a method invoked after Close has returned
\* answers with an error.
THEOREM ClosedForGood == Spec => []NoSuccessAfterClose
  <1>1. Init => LateInv
    BY LateInit
  <1>2. LateInv /\ [Next]_vars => LateInv'
    BY LateNext
  <1>3. LateInv => NoSuccessAfterClose
    BY DEF LateInv
  <1>4. QED
    BY <1>1, <1>2, <1>3, PTL DEF Spec

----------------------------------------------------------------------------
(* To callers that use a handle from one goroutine at a time, it is the     *)
(* atomic object of SimulationHandle: every step is a step of the object or *)
(* changes nothing of it.                                                   *)

\* No two goroutines are in methods of one handle.
Alone ==
    \A g, k \in Goroutine :
        g # k /\ pc[g] # "idle" /\ pc[k] # "idle" => call[g].h # call[k].h

\* The state has not changed since the C function read it.
SeenCurrent ==
    \A g \in Goroutine : pc[g] = "inC" => seen[g] = heap[cptr[g]]

SerialInv == Inv /\ Alone /\ SeenCurrent

----------------------------------------------------------------------------
(* The invariant.                                                           *)

LEMMA SerialInit == Init => SerialInv
  BY InitInv DEF Init, SerialInv, Alone, SeenCurrent

LEMMA SerialInvoke ==
    ASSUME Sharing = "serial", SerialInv, NEW g \in Goroutine, Invoke(g)
    PROVE  Alone' /\ SeenCurrent'
  <1>1. PICK h \in Handle : \E c \in Inputs(h) :
            /\ Permitted(h, c.op)
            /\ Reject(g, c) \/ Panic(g, c) \/ CloseAgain(g, c) \/ Accept(g, c)
    BY DEF Invoke
  <1>2. PICK c \in Inputs(h) :
            /\ Permitted(h, c.op)
            /\ Reject(g, c) \/ Panic(g, c) \/ CloseAgain(g, c) \/ Accept(g, c)
    BY <1>1
  <1>3. UNCHANGED <<heap, cptr, seen>>
    BY <1>2 DEF Reject, Panic, CloseAgain, Accept
  <1>4. CASE UNCHANGED <<pc, call>>
    BY <1>3, <1>4 DEF SerialInv, Alone, SeenCurrent
  <1>5. CASE Accept(g, c)
    <2>1. /\ pc' = [pc EXCEPT ![g] = "checked"]
          /\ call' = [call EXCEPT ![g] = c]
          /\ pc \in [Goroutine -> {"idle", "checked", "inC", "destroyed"}]
          /\ DOMAIN call = Goroutine
      BY <1>5 DEF Accept, SerialInv, Inv, TypeOK
    <2>2. c.h = h
      BY DEF Inputs
    <2>3. Using(h) = {}
      BY <1>2 DEF Permitted
    <2>4. \A k \in Goroutine : pc[k] # "idle" => call[k].h # h
      BY <2>3 DEF Using
    <2>5. Alone'
      BY <2>1, <2>2, <2>4 DEF SerialInv, Alone
    <2>6. SeenCurrent'
      BY <1>3, <2>1 DEF SerialInv, SeenCurrent
    <2> QED
      BY <2>5, <2>6
  <1> QED
    BY <1>2, <1>4, <1>5 DEF Reject, Panic, CloseAgain

LEMMA SerialStep ==
    ASSUME SerialInv, NEW g \in Goroutine, Step(g)
    PROVE  Alone' /\ SeenCurrent'
  <1>1. ~LeaveCNull(g) /\ ~LeaveCDangling(g)
    BY InCIntact, NULLAssumption DEF LeaveCNull, LeaveCDangling, SerialInv
  <1>2. /\ DOMAIN pc = Goroutine /\ DOMAIN call = Goroutine
        /\ DOMAIN cptr = Goroutine /\ DOMAIN seen = Goroutine
        /\ DOMAIN heap = Ptr
    BY DEF SerialInv, Inv, TypeOK
  <1>3. \A k \in Goroutine : pc[k] = "inC" =>
            cptr[k] \in Ptr /\ cptr[k] = sptr[call[k].h] /\ heap[cptr[k]].owner = call[k].h
    BY InCIntact DEF SerialInv, Intact
  <1>4. \A k \in Goroutine : k # g /\ pc[g] = "inC" /\ pc[k] = "inC" => cptr[k] # cptr[g]
    BY <1>3 DEF SerialInv, Alone
  <1>5. CASE EnterC(g)
    <2>1. /\ pc[g] = "checked"
          /\ pc' = [pc EXCEPT ![g] = "inC"] /\ UNCHANGED <<heap, call>>
          /\ cptr' = [cptr EXCEPT ![g] = sptr[call[g].h]]
          /\ seen' = [seen EXCEPT ![g] = IF sptr[call[g].h] = NULL THEN Free ELSE heap[sptr[call[g].h]]]
      BY <1>5 DEF EnterC
    <2>2. sptr[call[g].h] # NULL
      BY <2>1 DEF SerialInv, Inv, StateHeld, Holding
    <2> QED
      BY <1>2, <2>1, <2>2 DEF SerialInv, Alone, SeenCurrent
  <1>6. CASE LeaveC(g)
    <2>1. /\ pc[g] = "inC" /\ \E s : heap' = [heap EXCEPT ![cptr[g]] = s]
          /\ pc' = [pc EXCEPT ![g] = "idle"] /\ call' = [call EXCEPT ![g] = NoCall]
          /\ cptr' = [cptr EXCEPT ![g] = NULL] /\ seen' = [seen EXCEPT ![g] = Free]
      BY <1>6 DEF LeaveC, Finish
    <2> QED
      BY <1>2, <1>3, <1>4, <2>1 DEF SerialInv, Alone, SeenCurrent
  <1>7. CASE Destroy(g)
    <2>1. /\ pc[g] = "inC" /\ \E s : heap' = [heap EXCEPT ![cptr[g]] = s]
          /\ pc' = [pc EXCEPT ![g] = "destroyed"] /\ UNCHANGED <<call, cptr, seen>>
      BY <1>3, <1>7, NULLAssumption DEF Destroy
    <2> QED
      BY <1>2, <1>3, <1>4, <2>1 DEF SerialInv, Alone, SeenCurrent
  <1>8. CASE ClearPtr(g)
    <2>1. /\ pc[g] = "destroyed" /\ UNCHANGED heap
          /\ pc' = [pc EXCEPT ![g] = "idle"] /\ call' = [call EXCEPT ![g] = NoCall]
          /\ cptr' = [cptr EXCEPT ![g] = NULL] /\ seen' = [seen EXCEPT ![g] = Free]
      BY <1>8 DEF ClearPtr, Finish
    <2> QED
      BY <1>2, <2>1 DEF SerialInv, Alone, SeenCurrent
  <1> QED
    BY <1>1, <1>5, <1>6, <1>7, <1>8 DEF Step

LEMMA SerialNext ==
    ASSUME Sharing = "serial", SerialInv, [Next]_vars
    PROVE  SerialInv'
  <1>1. Inv'
    BY NextInv DEF SerialInv
  <1>2. CASE UNCHANGED vars
    BY <1>1, <1>2 DEF vars, SerialInv, Alone, SeenCurrent
  <1>3. ASSUME NEW g \in Goroutine, NEW h \in Handle, New(g, h)
        PROVE  Alone' /\ SeenCurrent'
    <2>1. PICK p \in Ptr : heap[p] = Free /\ \E s : heap' = [heap EXCEPT ![p] = s]
      BY <1>3 DEF New
    <2>2. UNCHANGED <<pc, call, cptr, seen>>
      BY <1>3 DEF New
    <2>3. \A k \in Goroutine : pc[k] = "inC" => cptr[k] \in Ptr /\ cptr[k] # p
      BY <2>1, InCIntact, FreeNoState DEF SerialInv
    <2> QED
      BY <2>1, <2>2, <2>3 DEF SerialInv, Alone, SeenCurrent, Inv, TypeOK
  <1>4. ASSUME NEW g \in Goroutine, NEW h \in Handle, NewFails(g, h)
        PROVE  Alone' /\ SeenCurrent'
    BY <1>4 DEF NewFails, SerialInv, Alone, SeenCurrent
  <1> QED
    BY <1>1, <1>2, <1>3, <1>4, SerialInvoke, SerialStep DEF Next, SerialInv

----------------------------------------------------------------------------
(* The mapping.                                                             *)

\* What an open handle points to.
LEMMA OpenState ==
    ASSUME Inv, NEW h \in Handle, IsOpen(h)
    PROVE  sptr[h] \in Ptr /\ heap[sptr[h]] \in CStates
  BY NULLAssumption DEF Inv, TypeOK, IsOpen, Free

LEMMA ObjectUnchanged ==
    ASSUME UNCHANGED <<sptr, dim, heap>>
    PROVE  UNCHANGED <<StatusOf, FactorOf, DrawsOf>>
  BY DEF StatusOf, FactorOf, DrawsOf, IsOpen

\* One entry of a mapped function changes.
LEMMA EntryChanged ==
    ASSUME NEW f, NEW f2, NEW h \in Handle, NEW x,
           f = [k \in Handle |-> f[k]], f2 = [k \in Handle |-> f2[k]],
           f2[h] = x, \A k \in Handle \ {h} : f2[k] = f[k]
    PROVE  f2 = [f EXCEPT ![h] = x]
  OBVIOUS

LEMMA MappedFunctions ==
    /\ StatusOf = [k \in Handle |-> StatusOf[k]] /\ StatusOf' = [k \in Handle |-> StatusOf'[k]]
    /\ FactorOf = [k \in Handle |-> FactorOf[k]] /\ FactorOf' = [k \in Handle |-> FactorOf'[k]]
    /\ DrawsOf = [k \in Handle |-> DrawsOf[k]] /\ DrawsOf' = [k \in Handle |-> DrawsOf'[k]]
  BY DEF StatusOf, FactorOf, DrawsOf

LEMMA AnswerMapped ==
    ASSUME DOMAIN resp = Goroutine, NEW g \in Goroutine, NEW c, NEW st, NEW cov, NEW n,
           resp' = [resp EXCEPT ![g] = Answer(c, st, cov, n)]
    PROVE  AnswerTo' = [AnswerTo EXCEPT ![g] = Object!Reply(c.h, c.op, st, cov, n)]
  BY DEF AnswerTo, Answer, Object!Reply

\* The state of one open handle changes, and no other handle sees it.
LEMMA StateMapped ==
    ASSUME Inv, NEW h \in Handle, dim[h] # 0, IsOpen(h), NEW s \in CStates, s.owner = h,
           heap' = [heap EXCEPT ![sptr[h]] = s], UNCHANGED <<sptr, dim>>
    PROVE  /\ StatusOf' = StatusOf
           /\ FactorOf' = [FactorOf EXCEPT ![h] = s.chol]
           /\ DrawsOf' = [DrawsOf EXCEPT ![h] = s.draws]
  <1>1. sptr[h] \in Ptr /\ sptr[h] # NULL /\ heap[sptr[h]].owner = h
    BY OpenState DEF IsOpen
  <1>2. heap'[sptr[h]] = s /\ \A k \in Handle \ {h} : sptr[k] = sptr[h] => heap[sptr[k]].owner # k
    BY <1>1 DEF Inv, TypeOK
  <1>3. \A k \in Handle \ {h} : sptr[k] \in Ptr /\ sptr[k] # sptr[h] => heap'[sptr[k]] = heap[sptr[k]]
    BY <1>1 DEF Inv, TypeOK
  <1>4. \A k \in Handle : sptr[k] # NULL => sptr[k] \in Ptr
    BY DEF Inv, TypeOK
  <1>5. IsOpen(h)' /\ \A k \in Handle \ {h} : (IsOpen(k)' <=> IsOpen(k))
    BY <1>1, <1>2, <1>3, <1>4 DEF IsOpen
  <1>6. \A k \in Handle \ {h} : IsOpen(k) => heap'[sptr[k]] = heap[sptr[k]]
    BY <1>2, <1>3, <1>4 DEF IsOpen
  <1>7. StatusOf' = StatusOf
    BY <1>5 DEF StatusOf
  <1>8. FactorOf'[h] = s.chol /\ \A k \in Handle \ {h} : FactorOf'[k] = FactorOf[k]
    BY <1>2, <1>5, <1>6 DEF FactorOf
  <1>9. DrawsOf'[h] = s.draws /\ \A k \in Handle \ {h} : DrawsOf'[k] = DrawsOf[k]
    BY <1>2, <1>5, <1>6 DEF DrawsOf
  <1>10. FactorOf' = [FactorOf EXCEPT ![h] = s.chol]
    BY <1>8, EntryChanged, MappedFunctions
  <1>11. DrawsOf' = [DrawsOf EXCEPT ![h] = s.draws]
    BY <1>9, EntryChanged, MappedFunctions
  <1> QED
    BY <1>7, <1>10, <1>11

----------------------------------------------------------------------------
(* Each step is one of the object, or a stutter.                            *)

LEMMA MapInit == Init => Object!Init
  <1> SUFFICES ASSUME Init PROVE Object!Init
    OBVIOUS
  <1>1. \A h \in Handle : ~IsOpen(h) /\ dim[h] = 0
    BY DEF Init, IsOpen
  <1>2. StatusOf = [h \in Handle |-> "new"] /\ FactorOf = [h \in Handle |-> NoCov]
        /\ DrawsOf = [h \in Handle |-> 0]
    BY <1>1 DEF StatusOf, FactorOf, DrawsOf
  <1>3. AnswerTo = [g \in Goroutine |-> Object!Pending]
    BY DEF Init, AnswerTo, NoResp, Object!Pending, Object!Reply
  <1> QED
    BY <1>2, <1>3 DEF Object!Init

LEMMA MapNew ==
    ASSUME Inv, NEW g \in Goroutine, NEW h \in Handle, New(g, h)
    PROVE  Object!Open(h)
  <1>1. PICK d \in Dim, p \in Ptr :
            /\ d > 0
            /\ heap[p] = Free
            /\ heap' = [heap EXCEPT ![p] = [owner |-> h, dim |-> d, chol |-> NoCov, draws |-> 0]]
            /\ sptr' = [sptr EXCEPT ![h] = p]
            /\ dim' = [dim EXCEPT ![h] = d]
    BY DEF New, ValidDim
  <1>2. dim[h] = 0 /\ sptr[h] = NULL /\ d # 0 /\ p # NULL /\ resp' = resp
    BY <1>1, DimAssumption, NULLAssumption DEF New, Inv, UnbornHandles
  <1>3. \A k \in Handle \ {h} : /\ sptr'[k] = sptr[k] /\ dim'[k] = dim[k]
                                /\ sptr[k] \in Ptr \ {p} => heap'[sptr[k]] = heap[sptr[k]]
                                /\ sptr[k] = p => heap[p].owner # k /\ heap'[p].owner # k
    BY <1>1, NULLAssumption DEF Inv, TypeOK, Free
  <1>4. sptr'[h] = p /\ dim'[h] = d /\ heap'[p] = [owner |-> h, dim |-> d, chol |-> NoCov, draws |-> 0]
    BY <1>1 DEF Inv, TypeOK
  <1>5. \A k \in Handle : sptr[k] # NULL => sptr[k] \in Ptr
    BY DEF Inv, TypeOK
  <1>6. IsOpen(h)' /\ ~IsOpen(h) /\ \A k \in Handle \ {h} : (IsOpen(k)' <=> IsOpen(k))
    BY <1>2, <1>3, <1>4, <1>5 DEF IsOpen
  <1>7. StatusOf[h] = "new" /\ StatusOf' = [StatusOf EXCEPT ![h] = "open"]
    <2>1. StatusOf[h] = "new" /\ StatusOf'[h] = "open"
      BY <1>2, <1>4, <1>6 DEF StatusOf
    <2>2. \A k \in Handle \ {h} : StatusOf'[k] = StatusOf[k]
      BY <1>3, <1>6 DEF StatusOf
    <2> QED
      BY <2>1, <2>2, EntryChanged, MappedFunctions
  <1>8. \A k \in Handle \ {h} : IsOpen(k) => heap'[sptr'[k]] = heap[sptr[k]]
    BY <1>3, <1>5 DEF IsOpen
  <1>9. FactorOf' = FactorOf /\ DrawsOf' = DrawsOf
    BY <1>4, <1>6, <1>8 DEF FactorOf, DrawsOf
  <1>10. AnswerTo' = AnswerTo
    BY <1>2 DEF AnswerTo
  <1> QED
    BY <1>7, <1>9, <1>10 DEF Object!Open

LEMMA MapNewFails ==
    ASSUME Inv, NEW g \in Goroutine, NEW h \in Handle, NewFails(g, h)
    PROVE  Object!Refuse(g, h)
  <1> DEFINE c == [NoCall EXCEPT !.op = "New", !.h = h]
  <1>1. c.h = h /\ c.op = "New"
    BY DEF NoCall
  <1>2. resp' = [resp EXCEPT ![g] = Answer(c, "err", NoCov, 0)] /\ UNCHANGED <<sptr, dim, heap>>
    BY DEF NewFails
  <1> HIDE DEF c
  <1>3. AnswerTo' = [AnswerTo EXCEPT ![g] = Object!Reply(h, "New", "err", NoCov, 0)]
    <2>1. DOMAIN resp = Goroutine
      BY DEF Inv, TypeOK
    <2>2. AnswerTo' = [AnswerTo EXCEPT ![g] = Object!Reply(c.h, c.op, "err", NoCov, 0)]
      BY <1>2, <2>1, AnswerMapped, ZenonT(30)
    <2> QED
      BY <1>1, <2>2
  <1> QED
    BY <1>2, <1>3, ObjectUnchanged DEF Object!Refuse, Object!Operations

LEMMA MapInvoke ==
    ASSUME Inv, NEW g \in Goroutine, Invoke(g)
    PROVE  Object!Ask(g) \/ \E h \in Handle : Object!Refuse(g, h) \/ Object!Closed(g, h)
  <1>1. PICK h \in Handle : dim[h] # 0 /\ \E c \in Inputs(h) :
            Reject(g, c) \/ Panic(g, c) \/ CloseAgain(g, c) \/ Accept(g, c)
    BY DEF Invoke
  <1>2. PICK c \in Inputs(h) :
            Reject(g, c) \/ Panic(g, c) \/ CloseAgain(g, c) \/ Accept(g, c)
    BY <1>1
  <1>3. c.h = h /\ c.op \in Ops /\ DOMAIN resp = Goroutine
    BY DEF Inputs, Inv, TypeOK
  <1>4. UNCHANGED <<StatusOf, FactorOf, DrawsOf>>
    BY <1>2, ObjectUnchanged DEF Reject, Panic, CloseAgain, Accept
  <1>5. CASE Reject(g, c) \/ Panic(g, c)
    <2>1. PICK st \in {"err", "panic"} : resp' = [resp EXCEPT ![g] = Answer(c, st, NoCov, 0)]
      BY <1>5 DEF Reject, Panic
    <2>2. c.op \in Object!Operations
      BY <1>3, <1>5 DEF Reject, Panic, Panics, Ops, Object!Operations
    <2>3. AnswerTo' = [AnswerTo EXCEPT ![g] = Object!Reply(c.h, c.op, st, NoCov, 0)]
      BY <1>3, <2>1, AnswerMapped, ZenonT(30)
    <2> QED
      BY <1>3, <1>4, <2>2, <2>3 DEF Object!Refuse
  <1>6. CASE CloseAgain(g, c)
    <2>1. /\ resp' = [resp EXCEPT ![g] = Answer(c, "ok", NoCov, 0)]
          /\ sptr[h] = NULL /\ c.op = "Close"
      BY <1>3, <1>6 DEF CloseAgain
    <2>2. AnswerTo' = [AnswerTo EXCEPT ![g] = Object!Reply(h, "Close", "ok", NoCov, 0)]
      <3>1. AnswerTo' = [AnswerTo EXCEPT ![g] = Object!Reply(c.h, c.op, "ok", NoCov, 0)]
        BY <1>3, <2>1, AnswerMapped, ZenonT(30)
      <3> QED
        BY <1>3, <2>1, <3>1
    <2>3. StatusOf[h] = "closed"
      BY <1>1, <2>1 DEF StatusOf, IsOpen
    <2> QED
      BY <1>4, <2>2, <2>3 DEF Object!Closed
  <1>7. CASE Accept(g, c)
    <2>1. resp' = [resp EXCEPT ![g] = NoResp]
      BY <1>7 DEF Accept
    <2>2. AnswerTo' = [AnswerTo EXCEPT ![g] = Object!Pending]
      BY <1>3, <2>1 DEF AnswerTo, NoResp, Object!Pending, Object!Reply
    <2> QED
      BY <1>4, <2>2 DEF Object!Ask
  <1> QED
    BY <1>2, <1>5, <1>6, <1>7

LEMMA MapEnterC ==
    ASSUME NEW g \in Goroutine, EnterC(g)
    PROVE  UNCHANGED Object!objVars
  BY ObjectUnchanged DEF EnterC, AnswerTo, Object!objVars

----------------------------------------------------------------------------
(* What the C functions leave, as operations of the object.                 *)

\* A call that fails.
LEMMA OutcomeFails ==
    ASSUME NEW c \in Calls, c.op # "Close", NEW s \in CStates, NEW o \in COutcomes(c, s), ~o.ok
    PROVE  \E chol \in {s.chol, NoCov}, n \in {0, 1} : o = Outcome(FALSE, s, chol, NoCov, n)
  <1>1. \A chol, used, n : Outcome(TRUE, s, chol, used, n).ok
    BY DEF Outcome
  <1>2. CASE c.len # s.dim
    BY <1>2 DEF COutcomes
  <1>3. CASE c.len = s.dim /\ c.op = "SetCovariance"
    BY <1>1, <1>3 DEF COutcomes, SetCovarianceOutcomes
  <1>4. CASE c.len = s.dim /\ c.op = "VarMonteCarlo"
    BY <1>1, <1>4 DEF COutcomes, VarMonteCarloOutcomes, Failures, FailureLeaving
  <1>5. CASE c.len = s.dim /\ c.op = "VarMonteCarloCached"
    BY <1>1, <1>5 DEF COutcomes, CachedOutcomes, FailureLeaving
  <1>6. CASE c.len = s.dim /\ c.op = "VarMonteCarloFromHistory"
    BY <1>1, <1>6 DEF COutcomes, HistoryOutcomes, Failures, FailureLeaving
  <1>7. CASE c.len = s.dim /\ c.op = "VarMonteCarloBatch"
    BY <1>1, <1>7 DEF COutcomes, BatchOutcomes, Failures, FailureLeaving
  <1> QED
    BY <1>2, <1>3, <1>4, <1>5, <1>6, <1>7 DEF Calls, Ops

\* A call that succeeds.
LEMMA OutcomeSucceeds ==
    ASSUME NEW c \in Calls, c.op # "Close", NEW s \in CStates, NEW o \in COutcomes(c, s), o.ok
    PROVE  \/ /\ c.op = "SetCovariance" /\ c.cov \in PD
              /\ o = Outcome(TRUE, s, c.cov, c.cov, 0)
           \/ /\ c.op = "VarMonteCarlo" /\ c.cov \in PD
              /\ o = Outcome(TRUE, s, IF c.cov = s.chol THEN c.cov ELSE NoCov, c.cov, 1)
           \/ /\ c.op = "VarMonteCarloCached" /\ s.chol # NoCov
              /\ o = Outcome(TRUE, s, s.chol, s.chol, 1)
           \/ /\ c.op \in {"VarMonteCarloFromHistory", "VarMonteCarloBatch"}
              /\ \E chol \in {s.chol, NoCov} : o = Outcome(TRUE, s, chol, Hist, 1)
  <1>1. \A chol, used, n : ~Outcome(FALSE, s, chol, used, n).ok
    BY DEF Outcome
  <1>2. c.len = s.dim
    BY <1>1 DEF COutcomes
  <1>3. CASE c.op = "SetCovariance"
    BY <1>1, <1>2, <1>3 DEF COutcomes, SetCovarianceOutcomes
  <1>4. CASE c.op = "VarMonteCarlo"
    BY <1>1, <1>2, <1>4 DEF COutcomes, VarMonteCarloOutcomes, Failures, FailureLeaving
  <1>5. CASE c.op = "VarMonteCarloCached"
    BY <1>1, <1>2, <1>5 DEF COutcomes, CachedOutcomes, FailureLeaving
  <1>6. CASE c.op = "VarMonteCarloFromHistory"
    BY <1>1, <1>2, <1>6 DEF COutcomes, HistoryOutcomes, Failures, FailureLeaving
  <1>7. CASE c.op = "VarMonteCarloBatch"
    BY <1>1, <1>2, <1>7 DEF COutcomes, BatchOutcomes, Failures, FailureLeaving
  <1> QED
    BY <1>3, <1>4, <1>5, <1>6, <1>7 DEF Calls, Ops

LEMMA MapLeaveC ==
    ASSUME SerialInv, NEW g \in Goroutine, LeaveC(g)
    PROVE  \E h \in Handle :
              \/ Object!Fail(g, h)
              \/ \E cov \in PD : Object!SetCovariance(g, h, cov) \/ Object!SimulateWith(g, h, cov)
              \/ Object!SimulateCached(g, h) \/ Object!SimulateHistory(g, h)
  <1>0. PICK c, h, s : c = call[g] /\ h = call[g].h /\ s = seen[g]
    OBVIOUS
  <1>1. PICK o \in COutcomes(c, s) :
            /\ heap' = [heap EXCEPT ![cptr[g]] = o.state]
            /\ resp' = [resp EXCEPT ![g] = Result(c, s, o)]
    BY <1>0 DEF LeaveC
  <1>2. pc[g] = "inC" /\ c.op # "Close" /\ UNCHANGED <<sptr, dim>>
    BY <1>0 DEF LeaveC
  <1>3. c \in Calls /\ s \in CStates /\ h \in Handle /\ dim[h] # 0 /\ c.h = h
    BY <1>0, <1>2 DEF SerialInv, Inv, CallsChecked, PtrCurrent, Calls
  <1>4. /\ cptr[g] \in Ptr /\ cptr[g] = sptr[h] /\ s = heap[sptr[h]] /\ heap[sptr[h]].owner = h
    BY <1>0, <1>2, InCIntact DEF SerialInv, SeenCurrent, Intact
  <1>5. IsOpen(h) /\ StatusOf[h] = "open" /\ FactorOf[h] = s.chol /\ DrawsOf[h] = s.draws
    BY <1>3, <1>4, NULLAssumption DEF IsOpen, StatusOf, FactorOf, DrawsOf
  <1>6. o.state \in CStates /\ o.state.owner = h
    BY <1>2, <1>3, <1>4, OutcomesKeep DEF Keeps
  <1>7. /\ StatusOf' = StatusOf
        /\ FactorOf' = [FactorOf EXCEPT ![h] = o.state.chol]
        /\ DrawsOf' = [DrawsOf EXCEPT ![h] = o.state.draws]
    BY <1>1, <1>2, <1>3, <1>4, <1>5, <1>6, StateMapped DEF SerialInv
  <1>8. DOMAIN resp = Goroutine /\ c.op \in Object!Operations
    BY <1>2, <1>3 DEF SerialInv, Inv, TypeOK, Calls, Ops, Object!Operations
  <1>9. CASE ~o.ok
    <2>1. PICK chol \in {s.chol, NoCov}, n \in {0, 1} : o = Outcome(FALSE, s, chol, NoCov, n)
      BY <1>2, <1>3, <1>9, OutcomeFails
    <2>2. o.state.chol = chol /\ o.state.draws = s.draws + n
      BY <1>3, <2>1 DEF Outcome, CStates
    <2>3. AnswerTo' = [AnswerTo EXCEPT ![g] = Object!Reply(h, c.op, "err", NoCov, 0)]
      <3>1. resp' = [resp EXCEPT ![g] = Answer(c, "err", NoCov, 0)]
        BY <1>1, <1>9 DEF Result
      <3>2. AnswerTo' = [AnswerTo EXCEPT ![g] = Object!Reply(c.h, c.op, "err", NoCov, 0)]
        BY ONLY <1>8, <3>1, g \in Goroutine, AnswerMapped, ZenonT(30)
      <3> QED
        BY <1>3, <3>2
    <2>4. DrawsOf' = [DrawsOf EXCEPT ![h] = @ + n]
      BY <1>3, <1>5, <1>7, <2>2 DEF DrawsOf
    <2>5. Object!Fail(g, h)
      BY <1>5, <1>7, <1>8, <2>2, <2>3, <2>4 DEF Object!Fail
    <2> QED
      BY <1>3, <2>5
  <1>10. CASE o.ok
    <2>1. AnswerTo' = [AnswerTo EXCEPT ![g] = Object!Reply(h, c.op, "ok", o.cov, DrawsOf[h])]
      <3>1. resp' = [resp EXCEPT ![g] = Answer(c, "ok", o.cov, s.draws)]
        BY <1>1, <1>10 DEF Result
      <3>2. PICK used, draws : used = o.cov /\ draws = s.draws
        OBVIOUS
      <3>3. resp' = [resp EXCEPT ![g] = Answer(c, "ok", used, draws)] /\ DOMAIN resp = Goroutine
        BY <1>8, <3>1, <3>2
      <3>4. AnswerTo' = [AnswerTo EXCEPT ![g] = Object!Reply(c.h, c.op, "ok", used, draws)]
        BY ONLY <3>3, g \in Goroutine, AnswerMapped, ZenonT(30)
      <3> QED
        BY <1>3, <1>5, <3>2, <3>4
    <2>2. ASSUME c.op = "SetCovariance", c.cov \in PD,
                 o = Outcome(TRUE, s, c.cov, c.cov, 0)
          PROVE  Object!SetCovariance(g, h, c.cov)
      <3>0. s.draws \in Nat /\ o.state.draws = s.draws + 0
        BY <1>3, <2>2 DEF Outcome, CStates
      <3>1. o.cov = c.cov /\ o.state.chol = c.cov
        BY <1>3, <2>2 DEF Outcome, CStates
      <3>2. o.state.draws = s.draws
        BY <3>0
      <3>3. DrawsOf' = DrawsOf
        BY <1>3, <1>5, <1>7, <3>2, MappedFunctions
      <3> QED
        BY <1>5, <1>7, <2>1, <2>2, <3>1, <3>3 DEF Object!SetCovariance
    <2>3. ASSUME o.state.draws = s.draws + 1
          PROVE  Object!Simulate(g, h, c.op, o.cov, o.state.chol)
      <3>1. DrawsOf' = [DrawsOf EXCEPT ![h] = @ + 1]
        BY <1>3, <1>5, <1>7, <2>3 DEF DrawsOf
      <3> QED
        BY <1>5, <1>7, <2>1, <3>1 DEF Object!Simulate
    <2>4. ASSUME c.op = "VarMonteCarlo", c.cov \in PD,
                 o = Outcome(TRUE, s, IF c.cov = s.chol THEN c.cov ELSE NoCov, c.cov, 1)
          PROVE  Object!SimulateWith(g, h, c.cov)
      <3>1. /\ o.cov = c.cov /\ o.state.draws = s.draws + 1
            /\ o.state.chol = IF c.cov = s.chol THEN c.cov ELSE NoCov
        BY <1>3, <2>4 DEF Outcome, CStates
      <3> QED
        BY <1>5, <2>3, <2>4, <3>1 DEF Object!SimulateWith
    <2>5. ASSUME c.op = "VarMonteCarloCached", s.chol # NoCov,
                 o = Outcome(TRUE, s, s.chol, s.chol, 1)
          PROVE  Object!SimulateCached(g, h)
      <3>1. o.cov = s.chol /\ o.state.draws = s.draws + 1 /\ o.state.chol = s.chol
        BY <1>3, <2>5 DEF Outcome, CStates
      <3> QED
        BY <1>5, <2>3, <2>5, <3>1 DEF Object!SimulateCached
    <2>6. ASSUME c.op \in {"VarMonteCarloFromHistory", "VarMonteCarloBatch"},
                 NEW chol \in {s.chol, NoCov}, o = Outcome(TRUE, s, chol, Hist, 1)
          PROVE  Object!SimulateHistory(g, h)
      <3>1. o.cov = Hist /\ o.state.draws = s.draws + 1 /\ o.state.chol = chol
        BY <1>3, <2>6 DEF Outcome, CStates
      <3> QED
        BY <1>5, <2>3, <2>6, <3>1 DEF Object!SimulateHistory
    <2> QED
      BY <1>2, <1>3, <1>10, <2>2, <2>4, <2>5, <2>6, OutcomeSucceeds
  <1> QED
    BY <1>9, <1>10

LEMMA MapDestroy ==
    ASSUME SerialInv, NEW g \in Goroutine, Destroy(g)
    PROVE  Object!Close(call[g].h)
  <1>0. PICK h : h = call[g].h
    OBVIOUS
  <1>1. /\ pc[g] = "inC" /\ cptr[g] \in Ptr /\ cptr[g] = sptr[h] /\ h \in Handle
        /\ heap[sptr[h]].owner = h
    BY <1>0, InCIntact DEF Destroy, SerialInv, Intact
  <1>2. heap' = [heap EXCEPT ![sptr[h]] = Free] /\ UNCHANGED <<sptr, dim, resp>>
    BY <1>1, NULLAssumption DEF Destroy
  <1>3. dim[h] # 0 /\ DOMAIN heap = Ptr
    BY <1>0, <1>1 DEF SerialInv, Inv, TypeOK, CallsChecked
  <1>4. IsOpen(h) /\ ~IsOpen(h)'
    BY <1>1, <1>2, <1>3, NULLAssumption DEF IsOpen, Free
  <1>5. \A k \in Handle \ {h} : (IsOpen(k)' <=> IsOpen(k)) /\ (IsOpen(k) => heap'[sptr[k]] = heap[sptr[k]])
    <2> SUFFICES ASSUME NEW k \in Handle \ {h}
                 PROVE  (IsOpen(k)' <=> IsOpen(k)) /\ (IsOpen(k) => heap'[sptr[k]] = heap[sptr[k]])
      OBVIOUS
    <2>1. CASE sptr[k] = sptr[h]
      BY <1>1, <1>2, <1>3, <2>1, NULLAssumption DEF IsOpen, Free
    <2>2. CASE sptr[k] # sptr[h]
      <3>1. sptr[k] = NULL \/ sptr[k] \in Ptr
        BY DEF SerialInv, Inv, TypeOK
      <3> QED
        BY <1>2, <1>3, <2>2, <3>1 DEF IsOpen
    <2> QED
      BY <2>1, <2>2
  <1>6. StatusOf[h] = "open" /\ StatusOf' = [StatusOf EXCEPT ![h] = "closed"]
    <2>1. StatusOf[h] = "open" /\ StatusOf'[h] = "closed"
      BY <1>1, <1>2, <1>3, <1>4 DEF StatusOf
    <2>2. \A k \in Handle \ {h} : StatusOf'[k] = StatusOf[k]
      BY <1>2, <1>5 DEF StatusOf
    <2> QED
      BY <1>1, <2>1, <2>2, EntryChanged, MappedFunctions
  <1>7. FactorOf' = [FactorOf EXCEPT ![h] = NoCov] /\ DrawsOf' = [DrawsOf EXCEPT ![h] = 0]
    <2>1. FactorOf'[h] = NoCov /\ DrawsOf'[h] = 0
      BY <1>1, <1>4 DEF FactorOf, DrawsOf
    <2>2. \A k \in Handle \ {h} : FactorOf'[k] = FactorOf[k] /\ DrawsOf'[k] = DrawsOf[k]
      BY <1>2, <1>5 DEF FactorOf, DrawsOf
    <2> QED
      BY <1>1, <2>1, <2>2, EntryChanged, MappedFunctions
  <1>8. AnswerTo' = AnswerTo
    BY <1>2 DEF AnswerTo
  <1> QED
    BY <1>0, <1>6, <1>7, <1>8 DEF Object!Close

LEMMA MapClearPtr ==
    ASSUME SerialInv, NEW g \in Goroutine, ClearPtr(g)
    PROVE  Object!Closed(g, call[g].h)
  <1>0. PICK h : h = call[g].h
    OBVIOUS
  <1>1. /\ pc[g] = "destroyed" /\ sptr' = [sptr EXCEPT ![h] = NULL] /\ UNCHANGED <<dim, heap>>
        /\ resp' = [resp EXCEPT ![g] = Answer(call[g], "ok", NoCov, 0)]
    BY <1>0 DEF ClearPtr
  <1>2. h \in Handle /\ dim[h] # 0 /\ call[g].op = "Close"
    BY <1>0, <1>1 DEF SerialInv, Inv, CallsChecked, Calls
  <1>3. ~IsOpen(h)
    <2>1. sptr[h] # NULL => sptr[h] \in Ptr /\ heap[sptr[h]] \in CStates \cup {Free}
      BY <1>2 DEF SerialInv, Inv, TypeOK
    <2>2. sptr[h] \in Ptr /\ heap[sptr[h]] # Free => heap[sptr[h]].owner # h
      BY <1>0, <1>1 DEF SerialInv, Inv, NothingLeft
    <2>3. Free.owner # h
      BY <1>2, NULLAssumption DEF Free
    <2> QED
      BY <2>1, <2>2, <2>3 DEF IsOpen
  <1>4. ~IsOpen(h)' /\ \A k \in Handle \ {h} : sptr'[k] = sptr[k] /\ (IsOpen(k)' <=> IsOpen(k))
    BY <1>1, <1>2 DEF IsOpen, SerialInv, Inv, TypeOK
  <1>5. UNCHANGED <<StatusOf, FactorOf, DrawsOf>>
    <2>1. \A k \in Handle : StatusOf'[k] = StatusOf[k] /\ FactorOf'[k] = FactorOf[k] /\ DrawsOf'[k] = DrawsOf[k]
      BY <1>1, <1>3, <1>4 DEF StatusOf, FactorOf, DrawsOf
    <2> QED
      BY <2>1, MappedFunctions
  <1>6. AnswerTo' = [AnswerTo EXCEPT ![g] = Object!Reply(h, "Close", "ok", NoCov, 0)]
    BY <1>0, <1>1, <1>2, AnswerMapped DEF SerialInv, Inv, TypeOK
  <1>7. StatusOf[h] = "closed"
    BY <1>2, <1>3 DEF StatusOf
  <1> QED
    BY <1>0, <1>5, <1>6, <1>7 DEF Object!Closed

LEMMA MapNext ==
    ASSUME SerialInv, [Next]_vars
    PROVE  [Object!Next]_(Object!objVars)
  <1>0. Inv
    BY DEF SerialInv
  <1>1. CASE UNCHANGED vars
    BY <1>1, ObjectUnchanged DEF vars, AnswerTo, Object!objVars
  <1>2. ASSUME NEW g \in Goroutine, NEW h \in Handle, New(g, h) \/ NewFails(g, h)
        PROVE  Object!Next
    BY <1>0, <1>2, MapNew, MapNewFails DEF Object!Next
  <1>3. ASSUME NEW g \in Goroutine, Invoke(g)
        PROVE  Object!Next
    BY <1>0, <1>3, MapInvoke DEF Object!Next
  <1>4. ASSUME NEW g \in Goroutine, Step(g)
        PROVE  Object!Next \/ UNCHANGED Object!objVars
    <2>1. ~LeaveCNull(g) /\ ~LeaveCDangling(g)
      BY <1>0, InCIntact, NULLAssumption DEF LeaveCNull, LeaveCDangling
    <2>2. CASE EnterC(g)
      BY <2>2, MapEnterC
    <2>3. CASE LeaveC(g)
      BY <2>3, MapLeaveC DEF Object!Next
    <2>4. CASE Destroy(g) \/ ClearPtr(g)
      <3>1. call[g].h \in Handle
        BY <2>4 DEF SerialInv, Inv, CallsChecked, Calls, Destroy, ClearPtr
      <3> QED
        BY <2>4, <3>1, MapDestroy, MapClearPtr DEF Object!Next
    <2> QED
      BY <1>4, <2>1, <2>2, <2>3, <2>4 DEF Step
  <1> QED
    BY <1>1, <1>2, <1>3, <1>4 DEF Next

\* To callers that take turns a handle behaves as the atomic object: the four steps of
\* a method, with two reads of s.state and a C call that reads and writes apart, cannot
\* be told from one; a cached simulation uses the covariance last set, every
\* simulation draws afresh, and a Close answers once the state is released.
THEOREM SerialHandle ==
    ASSUME Sharing = "serial"
    PROVE  Spec => ImplementsHandle
  <1>1. Init => SerialInv /\ Object!Init
    BY SerialInit, MapInit
  <1>2. SerialInv /\ [Next]_vars => SerialInv'
    BY SerialNext
  <1>3. SerialInv /\ [Next]_vars => [Object!Next]_(Object!objVars)
    BY MapNext
  <1> QED
    BY <1>1, <1>2, <1>3, PTL DEF Spec, ImplementsHandle, Object!Spec
=============================================================================
