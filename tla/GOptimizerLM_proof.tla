-------------------------- MODULE GOptimizerLM_proof --------------------------
(***************************************************************************)
(* What holds of GOptimizerLM for any number of parameters, any function,  *)
(* any limits and any setting of the optimizer.                            *)
(***************************************************************************)
EXTENDS GOptimizerLM, TLAPS

USE SizeAssumption, ParameterAssumption, SettingAssumption

-----------------------------------------------------------------------------
(* The trial of an iteration is a vector of positions, and a parameter     *)
(* that is not free keeps the position it has.                             *)
LEMMA TrialVector ==
    ASSUME pos \in Positions, NEW s, NEW step, NEW t \in TrialVectors(s, step)
    PROVE  /\ t \in [Pars -> Trial]
           /\ Moved(t) \in Positions
           /\ \A p \in Pars \ free : Moved(t)[p] = pos[p]
BY DEF TrialVectors, PossibleTrial, Trial, Moved, Positions

(* Whatever the solution, the flags of step_size() belong to parameters.   *)
LEMMA BoundaryFlags ==
    ASSUME hit_boundary \subseteq Pars, NEW s
    PROVE  HitBoundary(s) \subseteq Pars
BY DEF HitBoundary, Driver, MayDrive

(* The bookkeeping of a step has its type.                                 *)
LEMMA StepBookkeeping ==
    ASSUME TypeOK, NEW s, NEW step, NEW t \in TrialVectors(s, step), TakeStep(s, t)
    PROVE  /\ hit_boundary' \subseteq Pars
           /\ hit_minimum' \in [Pars -> Nat]
           /\ hit_maximum' \in [Pars -> Nat]
           /\ par_freeze' \subseteq Pars
           /\ Frozen(t) \subseteq Pars
<1>1. t \in [Pars -> Trial]
  BY TrialVector DEF TypeOK
<1>2. hit_boundary' \subseteq Pars
  BY BoundaryFlags DEF TypeOK, TakeStep
<1>3. hit_minimum' \in [Pars -> Nat] /\ hit_maximum' \in [Pars -> Nat]
  BY <1>1 DEF TypeOK, TakeStep, CountHits
<1>4. Frozen(t) \subseteq Pars
  BY DEF TypeOK, Frozen
<1> QED
  BY <1>2, <1>3, <1>4 DEF TypeOK, TakeStep

LEMMA EvaluationType ==
    ASSUME NEW at \in Positions, NEW frees \in SUBSET Pars, NEW flat
    PROVE  Evaluation(at, frees, flat) \in Gradients
BY DEF Evaluation, Gradients

LEMMA NewCallType ==
    ASSUME TypeOK, NEW f \in Landscapes, call.number < MaxCalls
    PROVE  NewCall(f) \in Calls /\ f[pos] \in Int
BY DEF TypeOK, NewCall, Calls, Positions

(* The type invariant.                                                     *)
THEOREM TypeCorrect == Spec => []TypeOK
<1>1. Init => TypeOK
  BY DEF Init, TypeOK, Where, Gradients, Statuses, Calls, Positions
<1>2. TypeOK /\ [Next]_vars => TypeOK'
  <2> SUFFICES ASSUME TypeOK, [Next]_vars PROVE TypeOK'
    OBVIOUS
  <2>1. CASE \E p \in Pars : ToggleFree(p)
    BY <2>1 DEF TypeOK, ToggleFree, optVars, resVars, bookVars, Calls
  <2>2. ASSUME NEW f \in Landscapes, NEW flat \in SUBSET MayBeFlat, Optimize(f, flat)
        PROVE  TypeOK'
    <3>1. grad' \in Gradients
      BY <2>2, EvaluationType DEF Optimize, TypeOK
    <3>2. call' \in Calls /\ value' \in Int
      BY <2>2, NewCallType DEF Optimize
    <3> QED
      BY <2>2, <3>1, <3>2 DEF TypeOK, Optimize, ClearBookkeeping, Where, Statuses
  <2>3. ASSUME NEW f \in Landscapes, OptimizeNothing(f)
        PROVE  TypeOK'
    <3>1. grad' \in Gradients
      BY <2>3, EvaluationType DEF OptimizeNothing, TypeOK
    <3>2. call' \in Calls /\ value' \in Int
      BY <2>3, NewCallType DEF OptimizeNothing, Calls
    <3> QED
      BY <2>3, <3>1, <3>2 DEF TypeOK, OptimizeNothing, bookVars, Where, Statuses
  <2>4. ASSUME NEW s \in Solutions, NEW step \in {StepSize(s)},
               NEW t \in TrialVectors(s, step),
               NEW flat \in SUBSET MayBeFlat, Iteration(s, t, flat)
        PROVE  TypeOK'
    <3> DEFINE new == fct[Moved(t)]
    <3>1. Moved(t) \in Positions /\ new \in Int
      BY TrialVector DEF TypeOK, Positions
    <3>2. /\ hit_boundary' \subseteq Pars
          /\ hit_minimum' \in [Pars -> Nat] /\ hit_maximum' \in [Pars -> Nat]
          /\ par_freeze' \subseteq Pars
          /\ Frozen(t) \subseteq Pars
      BY <2>4, StepBookkeeping DEF Iteration
    <3>3. /\ value' \in Int /\ pos' \in Positions /\ grad' \in Gradients
          /\ lambda' \in Int /\ num_dec' \in 0 .. MaxDec
      BY <2>4, <3>1, <3>2, EvaluationType
      DEF Iteration, TypeOK, AcceptTrial, RejectTrial, Tolerated
    <3>4. call' \in Calls
      <4> DEFINE best == IF new < call.best THEN new ELSE call.best
                 successive == [p \in Pars |->
                      IF p \notin free THEN call.successive[p]
                      ELSE IF t[p].hit = "none" THEN 0 ELSE call.successive[p] + 1]
      <4>1. call' = [call EXCEPT !.best = best, !.successive = successive]
        BY <2>4 DEF Iteration
      <4>2. best \in Int
        BY <3>1 DEF TypeOK, Calls
      <4>3. successive \in [Pars -> Nat]
        BY DEF TypeOK, Calls
      <4> HIDE DEF best, successive
      <4> QED
        BY <4>1, <4>2, <4>3 DEF TypeOK, Calls
    <3>5. delta' \in Int /\ free' \subseteq Pars /\ par_remove' \subseteq Pars
      BY <2>4, <3>1, <3>2 DEF Iteration, TypeOK
    <3> QED
      BY <2>4, <3>2, <3>3, <3>4, <3>5 DEF Iteration, TakeStep, TypeOK, Where
  <2>5. ASSUME NEW s \in Solutions, NEW step \in {StepSize(s)},
               NEW t \in TrialVectors(s, step), EvalThrows(s, t)
        PROVE  TypeOK'
    <3>1. /\ hit_boundary' \subseteq Pars
          /\ hit_minimum' \in [Pars -> Nat] /\ hit_maximum' \in [Pars -> Nat]
          /\ par_freeze' \subseteq Pars
      BY <2>5, StepBookkeeping DEF EvalThrows
    <3>2. pos' \in Positions /\ grad' \in Gradients
      BY <2>5, TrialVector, EvaluationType DEF EvalThrows, TypeOK
    <3>3. call' \in Calls
      BY <2>5 DEF EvalThrows, Leave, TypeOK, Calls
    <3> QED
      BY <2>5, <3>1, <3>2, <3>3 DEF EvalThrows, Leave, TakeStep, TypeOK, Where
  <2>6. CASE \E st \in Statuses : IterationFails(st)
    BY <2>6 DEF TypeOK, IterationFails, Gradients, Where, optVars, bookVars
  <2>7. CASE SolverThrows
    BY <2>7 DEF TypeOK, SolverThrows, Leave, Gradients, Calls, Where, optVars,
       resVars, bookVars
  <2>8. CASE ReleaseFrozen
    <3>1. call' \in Calls
      BY <2>8 DEF TypeOK, ReleaseFrozen, Calls
    <3>2. /\ pc' \in Where /\ iter' \in Int /\ check_for_freeze' \in BOOLEAN
          /\ free' \subseteq Pars
          /\ lambda' \in Int /\ lambda_old' \in Int /\ lambda_inc' \in Nat
      <4>1. pc' \in Where /\ iter' \in Int
        BY <2>8 DEF TypeOK, ReleaseFrozen, NextIteration, Where
      <4>2. check_for_freeze' \in BOOLEAN
        BY <2>8 DEF ReleaseFrozen, CheckedOnce
      <4>3. /\ lambda' \in Int /\ lambda_old' \in Int /\ lambda_inc' \in Nat
            /\ free' \subseteq Pars
        BY <2>8 DEF TypeOK, ReleaseFrozen
      <4> QED
        BY <4>1, <4>2, <4>3
    <3> QED
      BY <2>8, <3>1, <3>2 DEF TypeOK, ReleaseFrozen, resVars, bookVars
  <2>9. CASE Converged \/ Stalled \/ Continue
    <3>1. Increases \in Nat
      BY DEF TypeOK, Increases
    <3>2. CASE Converged
      BY <2>9, <3>2 DEF TypeOK, Converged, CheckedOnce, Where, resVars, bookVars
    <3>3. CASE Stalled
      BY <2>9, <3>1, <3>3 DEF TypeOK, Stalled, Where, Statuses, bookVars
    <3>4. CASE Continue
      <4>1. /\ pc' \in Where /\ iter' \in Int
            /\ lambda_inc' \in Nat /\ lambda_old' \in Int
        BY <3>1, <3>4 DEF TypeOK, Continue, NextIteration, Where
      <4> QED
        BY <3>4, <4>1 DEF TypeOK, Continue, resVars, bookVars
    <3> QED
      BY <2>9, <3>2, <3>3, <3>4
  <2>10. CASE Exhausted \/ Return
    BY <2>10 DEF TypeOK, Exhausted, Return, FixedByFit, Calls, Where, optVars,
       resVars, bookVars
  <2>11. CASE \E flat \in SUBSET MayBeFlat : ErrorsComputed(flat) \/ ErrorsFail(flat)
    <3>1. fct[pos] \in Int
      BY DEF TypeOK, Positions
    <3>2. ASSUME NEW flat \in SUBSET MayBeFlat, ErrorsEvaluate(flat)
          PROVE  grad' \in Gradients /\ call' \in Calls
      BY <3>2, EvaluationType DEF ErrorsEvaluate, TypeOK, Calls
    <3> QED
      BY <2>11, <3>1, <3>2 DEF TypeOK, ErrorsComputed, ErrorsFail, ErrorsEvaluate,
         Statuses, optVars, bookVars
  <2>12. CASE UNCHANGED vars
    BY <2>12 DEF TypeOK, vars, optVars, resVars, bookVars
  <2> QED
    BY <2>1, <2>2, <2>3, <2>4, <2>5, <2>6, <2>7, <2>8, <2>9, <2>10, <2>11, <2>12
    DEF Next
<1> QED
  BY <1>1, <1>2, PTL DEF Spec

-----------------------------------------------------------------------------
(* The inductive invariant behind the safety properties.                   *)

(* Free, frozen and removed parameters together are those the fit started  *)
(* with; the others have not moved.                                        *)
ParametersKept ==
    /\ InLoop => free \cup par_freeze \cup par_remove = call.free
    /\ InLoop => \A p \in Pars \ call.free : pos[p] = call.pos[p]
    /\ Finished => free = call.free

(* Until frozen parameters are released, a parameter is free, frozen or    *)
(* removed, and only one of them.                                          *)
OneRole ==
    InLoop => /\ par_remove \cap free = {}
              /\ check_for_freeze => /\ par_freeze \cap free = {}
                                     /\ par_freeze \cap par_remove = {}

(* Value and gradient belong to the parameters, and the value exceeds the  *)
(* best one by no more than the worsenings accepted so far allow.          *)
Budget == num_dec * AcceptDec

ResultsKept ==
    InLoop \/ Finished => /\ value = fct[pos]
                          /\ grad.at = pos
                          /\ value <= call.best + Budget

(* No counter runs ahead of the successive hits.                           *)
HitsCounted ==
    InLoop => \A p \in Pars : /\ hit_minimum[p] <= call.successive[p]
                              /\ hit_maximum[p] <= call.successive[p]

FitInv == ParametersKept /\ OneRole /\ ResultsKept /\ HitsCounted

LEMMA BudgetGrows ==
    ASSUME NEW n \in Nat
    PROVE  /\ n * AcceptDec \in Nat
           /\ (n + 1) * AcceptDec = n * AcceptDec + AcceptDec
           /\ n <= MaxDec => n * AcceptDec <= MaxDec * AcceptDec
OBVIOUS

(* One iteration keeps the parameters together.                            *)
LEMMA IterationParameters ==
    ASSUME TypeOK, ParametersKept, OneRole, NEW s, NEW step,
           NEW t \in TrialVectors(s, step), NEW flat, Iteration(s, t, flat)
    PROVE  ParametersKept' /\ OneRole'
<1>1. /\ pc = "iterate" /\ pc' = "test"
      /\ call'.free = call.free /\ call'.pos = call.pos
      /\ Frozen(t) \subseteq free
      /\ free' = (free \ Frozen(t)) \ flat /\ flat \subseteq free \ Frozen(t)
      /\ par_freeze' = par_freeze \cup Frozen(t)
      /\ par_remove' = par_remove \cup flat
      /\ check_for_freeze' = check_for_freeze
  BY DEF Iteration, TakeStep, Frozen, TypeOK, Calls
<1>2. ~Finished' /\ InLoop
  BY <1>1 DEF Finished, InLoop
<1>3. \A p \in Pars \ free : pos'[p] = pos[p]
  <2>1. CASE pos' = pos
    BY <2>1
  <2>2. CASE pos' = Moved(t)
    BY <2>2, TrialVector DEF TypeOK
  <2> QED
    BY <2>1, <2>2 DEF Iteration, AcceptTrial, RejectTrial
<1>4. free' \cup par_freeze' \cup par_remove' = call'.free
  BY <1>1, <1>2 DEF ParametersKept
<1>5. \A p \in Pars \ call'.free : pos'[p] = call'.pos[p]
  BY <1>1, <1>2, <1>3 DEF ParametersKept
<1>6. OneRole'
  BY <1>1, <1>2 DEF OneRole
<1> QED
  BY <1>2, <1>4, <1>5, <1>6 DEF ParametersKept

(* One iteration keeps value and gradient with the parameters.             *)
LEMMA IterationResults ==
    ASSUME TypeOK, ResultsKept, NEW s, NEW step,
           NEW t \in TrialVectors(s, step), NEW flat, Iteration(s, t, flat)
    PROVE  ResultsKept'
<1> DEFINE new == fct[Moved(t)]
<1>1. /\ new \in Int /\ value \in Int /\ call.best \in Int /\ num_dec \in Nat
  BY TrialVector DEF TypeOK, Positions, Calls
<1>2. /\ value = fct[pos] /\ grad.at = pos /\ value <= call.best + Budget
      /\ pc = "iterate" /\ fct' = fct
  BY DEF ResultsKept, InLoop, Iteration, TakeStep
<1>3. call'.best = IF new < call.best THEN new ELSE call.best
  BY DEF Iteration, TypeOK, Calls
<1>4. Budget \in Nat /\ (num_dec + 1) * AcceptDec = Budget + AcceptDec
  BY <1>1, BudgetGrows DEF Budget
<1>5. CASE Better(new) \/ Same(new) \/ Tolerated(new)
  <2>1. /\ value' = new /\ pos' = Moved(t) /\ grad'.at = pos'
        /\ num_dec' = IF Tolerated(new) THEN num_dec + 1 ELSE num_dec
    BY <1>5 DEF Iteration, AcceptTrial, Evaluation
  <2>2. CASE Tolerated(new)
    <3>1. Budget' = Budget + AcceptDec
      BY <2>1, <2>2, <1>4 DEF Budget
    <3>2. new <= value + AcceptDec /\ ~(new < value)
      BY <2>2, <1>1 DEF Tolerated
    <3>3. value' <= call'.best + Budget'
      BY <1>1, <1>2, <1>3, <1>4, <2>1, <3>1, <3>2
    <3> QED
      BY <1>2, <2>1, <3>3 DEF ResultsKept
  <2>3. CASE ~Tolerated(new)
    <3>1. Budget' = Budget
      BY <2>1, <2>3 DEF Budget
    <3>2. new <= value
      BY <1>1, <1>5, <2>3 DEF Better, Same
    <3>3. value' <= call'.best + Budget'
      BY <1>1, <1>2, <1>3, <1>4, <2>1, <3>1, <3>2
    <3> QED
      BY <1>2, <2>1, <3>3 DEF ResultsKept
  <2> QED
    BY <2>2, <2>3
<1>6. CASE ~(Better(new) \/ Same(new) \/ Tolerated(new))
  <2>1. UNCHANGED <<value, pos, grad, num_dec>>
    BY <1>6 DEF Iteration, RejectTrial
  <2>2. ~(new < value)
    BY <1>1, <1>6 DEF Better
  <2>3. value' <= call'.best + Budget'
    BY <1>1, <1>2, <1>3, <1>4, <2>1, <2>2 DEF Budget
  <2> QED
    BY <1>2, <2>1, <2>3 DEF ResultsKept
<1> QED
  BY <1>5, <1>6

(* One iteration counts every hit it freezes a parameter for.              *)
LEMMA IterationHits ==
    ASSUME TypeOK, HitsCounted, NEW s, NEW step,
           NEW t \in TrialVectors(s, step), NEW flat, Iteration(s, t, flat)
    PROVE  /\ HitsCounted'
           /\ \A p \in par_freeze' \ par_freeze : call'.successive[p] > MaxHit
<1>1. t \in [Pars -> Trial]
  BY TrialVector DEF TypeOK
<1>2. \A p \in Pars : /\ hit_minimum[p] \in Nat /\ hit_maximum[p] \in Nat
                      /\ call.successive[p] \in Nat
                      /\ hit_minimum[p] <= call.successive[p]
                      /\ hit_maximum[p] <= call.successive[p]
                      /\ t[p].hit \in {"none", "min", "max"}
  BY <1>1 DEF TypeOK, Calls, HitsCounted, InLoop, Iteration, TakeStep, Trial
<1>3. \A p \in Pars :
          call'.successive[p] = IF p \notin free THEN call.successive[p]
                                ELSE IF t[p].hit = "none" THEN 0
                                ELSE call.successive[p] + 1
  BY DEF Iteration, TypeOK, Calls
<1>4. /\ hit_minimum' = CountHits(t, "min", hit_minimum)
      /\ hit_maximum' = CountHits(t, "max", hit_maximum)
      /\ par_freeze' = par_freeze \cup Frozen(t)
  BY DEF Iteration, TakeStep
<1>5. HitsCounted'
  BY <1>2, <1>3, <1>4 DEF HitsCounted, CountHits
<1>6. \A p \in Frozen(t) : call'.successive[p] > MaxHit
  BY <1>2, <1>3 DEF Frozen, TypeOK
<1> QED
  BY <1>4, <1>5, <1>6

-----------------------------------------------------------------------------
LEMMA FitInvStep ==
    ASSUME TypeOK, FitInv, [Next]_vars
    PROVE  FitInv'
<1> USE DEF FitInv
<1>1. CASE \E p \in Pars : ToggleFree(p)
  BY <1>1 DEF ToggleFree, TypeOK, Calls, InLoop, Finished, ParametersKept,
     OneRole, ResultsKept, HitsCounted
<1>2. ASSUME NEW f \in Landscapes, NEW flat \in SUBSET MayBeFlat, Optimize(f, flat)
      PROVE  FitInv'
  <2>1. /\ call'.free = free /\ call'.pos = pos /\ call'.best = f[pos]
        /\ call'.successive = [p \in Pars |-> 0]
        /\ pc' = "iterate" /\ fct' = f /\ pos' = pos /\ value' = f[pos]
        /\ grad'.at = pos
        /\ par_freeze' = {} /\ par_remove' = flat /\ free' = free \ flat
        /\ flat \subseteq free
        /\ hit_minimum' = [p \in Pars |-> 0] /\ hit_maximum' = [p \in Pars |-> 0]
        /\ num_dec' = 0
    BY <1>2 DEF Optimize, NewCall, ClearBookkeeping, Evaluation
  <2>2. f[pos] \in Int /\ Budget' \in Nat
    BY <2>1, BudgetGrows DEF TypeOK, Positions, Budget
  <2>3. ParametersKept' /\ OneRole'
    BY <2>1 DEF ParametersKept, OneRole, InLoop, Finished
  <2>4. ResultsKept' /\ HitsCounted'
    BY <2>1, <2>2 DEF ResultsKept, HitsCounted
  <2> QED
    BY <2>3, <2>4
<1>3. ASSUME NEW f \in Landscapes, OptimizeNothing(f)
      PROVE  FitInv'
  <2>1. /\ call'.free = free /\ call'.best = f[pos]
        /\ pc' = "idle" /\ fct' = f /\ pos' = pos /\ value' = f[pos]
        /\ grad'.at = pos /\ free' = free /\ num_dec' = 0
    BY <1>3 DEF OptimizeNothing, NewCall, Evaluation
  <2>2. f[pos] \in Int /\ Budget' \in Nat
    BY <2>1, BudgetGrows DEF TypeOK, Positions, Budget
  <2> QED
    BY <2>1, <2>2 DEF ParametersKept, OneRole, ResultsKept, HitsCounted, InLoop
<1>4. ASSUME NEW s \in Solutions, NEW step \in {StepSize(s)},
             NEW t \in TrialVectors(s, step),
             NEW flat \in SUBSET MayBeFlat, Iteration(s, t, flat)
      PROVE  FitInv'
  BY <1>4, IterationParameters, IterationResults, IterationHits
<1>5. ASSUME NEW s, NEW t, EvalThrows(s, t)
      PROVE  FitInv'
  <2>1. ~InLoop' /\ ~Finished'
    BY <1>5 DEF EvalThrows, Leave, InLoop, Finished, TypeOK, Calls
  <2> QED
    BY <2>1 DEF ParametersKept, OneRole, ResultsKept, HitsCounted
<1>6. CASE \E st \in Statuses : IterationFails(st)
  BY <1>6 DEF IterationFails, TypeOK, Gradients, InLoop, Finished, ParametersKept,
     OneRole, ResultsKept, HitsCounted, Budget, optVars, bookVars
<1>7. CASE SolverThrows
  <2>1. ~InLoop' /\ ~Finished'
    BY <1>7 DEF SolverThrows, Leave, InLoop, Finished, TypeOK, Calls
  <2> QED
    BY <2>1 DEF ParametersKept, OneRole, ResultsKept, HitsCounted
<1>8. CASE ReleaseFrozen
  <2>1. /\ InLoop /\ pc' = "iterate" /\ check_for_freeze /\ ~check_for_freeze'
        /\ free' = free \cup par_freeze
        /\ call'.free = call.free /\ call'.pos = call.pos
        /\ call'.best = call.best /\ call'.successive = call.successive
    BY <1>8 DEF ReleaseFrozen, CheckedOnce, NextIteration, InLoop, TypeOK, Calls
  <2>2. UNCHANGED <<fct, grad, pos, num_dec, resVars, bookVars>>
    BY <1>8 DEF ReleaseFrozen
  <2>3. ParametersKept' /\ OneRole'
    BY <2>1, <2>2 DEF ParametersKept, OneRole, InLoop, Finished, bookVars
  <2>4. ResultsKept' /\ HitsCounted'
    BY <2>1, <2>2 DEF ResultsKept, HitsCounted, Budget, resVars, bookVars
  <2> QED
    BY <2>3, <2>4
<1>9. CASE Converged \/ Stalled \/ Continue
  <2>1. /\ InLoop /\ InLoop' /\ ~Finished'
        /\ check_for_freeze' => check_for_freeze
        /\ UNCHANGED <<fct, grad, pos, free, num_dec, value, bookVars, call>>
    BY <1>9 DEF Converged, Stalled, Continue, CheckedOnce, NextIteration, InLoop,
       Finished, resVars, TypeOK
  <2> QED
    BY <2>1 DEF ParametersKept, OneRole, ResultsKept, HitsCounted, Budget, bookVars
<1>10. CASE Exhausted
  <2>1. /\ InLoop /\ InLoop' /\ ~Finished'
        /\ call'.free = call.free /\ call'.pos = call.pos
        /\ call'.best = call.best /\ call'.successive = call.successive
        /\ UNCHANGED <<fct, grad, pos, free, optVars, resVars, bookVars>>
    BY <1>10 DEF Exhausted, InLoop, Finished, TypeOK, Calls
  <2> QED
    BY <2>1 DEF ParametersKept, OneRole, ResultsKept, HitsCounted, Budget,
       optVars, resVars, bookVars
<1>11. CASE Return
  <2>1. /\ InLoop /\ ~InLoop'
        /\ free' = free \cup par_freeze \cup par_remove
        /\ call'.free = call.free /\ call'.best = call.best
        /\ UNCHANGED <<fct, grad, pos, optVars, resVars>>
    BY <1>11 DEF Return, FixedByFit, InLoop, TypeOK, Calls
  <2>2. ParametersKept' /\ OneRole' /\ HitsCounted'
    BY <2>1 DEF ParametersKept, OneRole, HitsCounted
  <2>3. ResultsKept'
    BY <2>1 DEF ResultsKept, Budget, optVars, resVars
  <2> QED
    BY <2>2, <2>3
<1>12. ASSUME NEW flat, ErrorsEvaluate(flat)
       PROVE  FitInv'
  <2>1. /\ Finished /\ ~InLoop'
        /\ value' = fct[pos] /\ grad'.at = pos
        /\ call'.free = call.free /\ call'.best = call.best
        /\ UNCHANGED <<fct, pos, free, num_dec>>
    BY <1>12 DEF ErrorsEvaluate, Evaluation, InLoop, Finished, TypeOK, Calls, optVars
  <2> QED
    BY <2>1 DEF ParametersKept, OneRole, ResultsKept, HitsCounted, Budget
<1>13. CASE UNCHANGED vars
  BY <1>13 DEF vars, optVars, resVars, bookVars, InLoop, Finished, ParametersKept,
     OneRole, ResultsKept, HitsCounted, Budget
<1> QED
  BY <1>1, <1>2, <1>3, <1>4, <1>5, <1>6, <1>7, <1>8, <1>9, <1>10, <1>11, <1>12,
     <1>13 DEF Next, ErrorsComputed, ErrorsFail

LEMMA FitInvariant == Spec => []FitInv
<1>1. Init => FitInv
  BY DEF Init, FitInv, ParametersKept, OneRole, ResultsKept, HitsCounted, InLoop,
     Finished
<1>2. TypeOK /\ FitInv /\ [Next]_vars => FitInv'
  BY FitInvStep
<1> QED
  BY <1>1, <1>2, TypeCorrect, PTL DEF Spec

(* A returned fit leaves free the parameters that were free before.        *)
THEOREM AttributesAreRestored == Spec => []AttributesRestored
<1>1. FitInv => AttributesRestored
  BY DEF FitInv, ParametersKept, AttributesRestored
<1> QED
  BY <1>1, FitInvariant, PTL

(* No fit moves or frees a parameter the user has fixed.                   *)
THEOREM FixedStayUntouched == Spec => []FixedByUserUntouched
<1>1. FitInv => FixedByUserUntouched
  BY DEF FitInv, ParametersKept, FixedByUserUntouched
<1> QED
  BY <1>1, FitInvariant, PTL

(* Value and gradient are those of the parameters.                         *)
THEOREM ResultsMatchParameters ==
    Spec => []ResultsMatch
<1>1. FitInv => ResultsMatch
  BY DEF FitInv, ResultsKept, ResultsMatch
<1> QED
  BY <1>1, FitInvariant, PTL

(* A fit ends at most m_max_dec * m_accept_dec above the best value.       *)
THEOREM WorseningIsBounded == Spec => []BoundedWorsening
<1>1. TypeOK /\ FitInv => BoundedWorsening
  <2> SUFFICES ASSUME TypeOK, FitInv, InLoop \/ Finished
               PROVE  value <= call.best + MaxDec * AcceptDec
    BY DEF BoundedWorsening
  <2>1. value <= call.best + num_dec * AcceptDec
    BY DEF FitInv, ResultsKept, Budget
  <2>2. num_dec * AcceptDec \in Nat /\ num_dec * AcceptDec <= MaxDec * AcceptDec
    BY BudgetGrows DEF TypeOK
  <2>3. value \in Int /\ call.best \in Int /\ MaxDec * AcceptDec \in Nat
    BY BudgetGrows DEF TypeOK, Calls
  <2> QED
    BY <2>1, <2>2, <2>3
<1> QED
  BY <1>1, TypeCorrect, FitInvariant, PTL

(* A removed parameter stays out of the fit.                               *)
THEOREM RemovedStayOut == Spec => []RemovedStaysOut
<1>1. FitInv => RemovedStaysOut
  BY DEF FitInv, OneRole, RemovedStaysOut
<1> QED
  BY <1>1, FitInvariant, PTL

(* No parameter is frozen before m_max_hit successive hits are exceeded.   *)
THEOREM FreezeIsEarned == Spec => FreezeNeedsSuccessiveHits
<1> DEFINE Earned == \A p \in par_freeze' \ par_freeze :
                        pc' = "test" => call'.successive[p] > MaxHit
<1>1. TypeOK /\ FitInv /\ [Next]_vars => [Earned]_vars
  <2> SUFFICES ASSUME TypeOK, FitInv, Next, pc' = "test",
                      NEW p \in par_freeze' \ par_freeze
               PROVE  call'.successive[p] > MaxHit
    OBVIOUS
  <2>1. ASSUME NEW s \in Solutions, NEW step \in {StepSize(s)},
               NEW t \in TrialVectors(s, step),
               NEW flat \in SUBSET MayBeFlat, Iteration(s, t, flat)
        PROVE  call'.successive[p] > MaxHit
    BY <2>1, IterationHits DEF FitInv
  <2>2. ASSUME NEW st, IterationFails(st)
        PROVE  FALSE
    BY <2>2 DEF IterationFails, bookVars
  <2> QED
    BY <2>1, <2>2 DEF Next, ToggleFree, Optimize, OptimizeNothing, EvalThrows,
       SolverThrows, Leave, ReleaseFrozen, Converged, Stalled, Continue,
       NextIteration, Exhausted, Return, ErrorsComputed, ErrorsFail, ErrorsEvaluate
<1> QED
  BY <1>1, TypeCorrect, FitInvariant, PTL DEF Spec, FreezeNeedsSuccessiveHits

-----------------------------------------------------------------------------
(* No loop is entered with errors of an earlier fit.  Without this the end *)
(* of a fit could be taken for the end of errors().                        *)
ErrorsInv ==
    /\ InLoop => ~call.errors
    /\ ErrorsBelongToFit

(* A step keeps it: a fit that ends has no errors yet, and errors() that   *)
(* fails says so in the status.                                            *)
LEMMA ErrorsStep ==
    ASSUME TypeOK, ErrorsInv, [Next]_vars
    PROVE  ErrorsInv'
<1> USE DEF ErrorsInv, ErrorsBelongToFit, InLoop, Finished
<1>1. CASE \E p \in Pars : ToggleFree(p)
  BY <1>1 DEF ToggleFree, TypeOK, Calls
<1>2. CASE \/ \E f \in Landscapes, flat \in SUBSET MayBeFlat : Optimize(f, flat)
           \/ \E f \in Landscapes : OptimizeNothing(f)
  <2>1. ASSUME NEW f, NEW flat, Optimize(f, flat) PROVE ErrorsInv'
    BY <2>1 DEF Optimize, NewCall
  <2>2. ASSUME NEW f, OptimizeNothing(f) PROVE ErrorsInv'
    BY <2>2 DEF OptimizeNothing, NewCall
  <2> QED
    BY <1>2, <2>1, <2>2
<1>3. ASSUME NEW s, NEW t, NEW flat, Iteration(s, t, flat)
      PROVE  ErrorsInv'
  BY <1>3 DEF Iteration, TakeStep, TypeOK, Calls
<1>4. CASE (\E s, t : EvalThrows(s, t)) \/ SolverThrows
  BY <1>4 DEF EvalThrows, SolverThrows, Leave, TypeOK, Calls
<1>5. CASE \E st \in Statuses : IterationFails(st)
  BY <1>5 DEF IterationFails
<1>6. CASE ReleaseFrozen \/ Converged \/ Stalled \/ Continue
  BY <1>6 DEF ReleaseFrozen, Converged, Stalled, Continue, NextIteration
<1>7. CASE Exhausted \/ Return
  BY <1>7 DEF Exhausted, Return, TypeOK, Calls
<1>8. ASSUME NEW flat, ErrorsComputed(flat) \/ ErrorsFail(flat)
      PROVE  ErrorsInv'
  <2>1. pc' = "idle" /\ pos' = pos
    BY <1>8 DEF ErrorsComputed, ErrorsFail, ErrorsEvaluate
  <2>2. CASE ErrorsComputed(flat)
    BY <2>1, <2>2 DEF ErrorsComputed
  <2>3. CASE ErrorsFail(flat)
    BY <2>1, <2>3 DEF ErrorsFail
  <2> QED
    BY <1>8, <2>2, <2>3
<1>9. CASE UNCHANGED vars
  BY <1>9 DEF vars, optVars, resVars, bookVars
<1> QED
  BY <1>1, <1>2, <1>3, <1>4, <1>5, <1>6, <1>7, <1>8, <1>9 DEF Next

(* A fit that has converged and whose errors were asked for has errors     *)
(* that were computed at the fitted parameters.                            *)
THEOREM ErrorsAreOfTheFit == Spec => []ErrorsBelongToFit
<1>1. Init => ErrorsInv
  BY DEF Init, ErrorsInv, ErrorsBelongToFit, InLoop, Finished
<1>2. ErrorsInv => ErrorsBelongToFit
  BY DEF ErrorsInv
<1> QED
  BY <1>1, <1>2, ErrorsStep, TypeCorrect, PTL DEF Spec
=============================================================================
