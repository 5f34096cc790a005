---------------------------- MODULE GOptimizerLM ----------------------------
(***************************************************************************)
(* The Levenberg-Marquardt optimizer of GammaLib                           *)
(* (src/src/opt/GOptimizerLM.cpp): optimize(), iteration(), step_size()    *)
(* and errors(), acting on the parameters of one fit.                      *)
(*                                                                         *)
(* The control is that of the code: which parameters are free, frozen or   *)
(* removed, what an iteration accepts or takes back, when the loop stops.  *)
(* The numbers are abstracted.  The factor of a parameter is one of the    *)
(* positions 0..MaxPos (0 is its minimum and MaxPos its maximum, when it   *)
(* has them); the function is a table from positions to integers; lambda   *)
(* is the number of increases minus the number of decreases since          *)
(* lambda_start; the solution of the linear system is any direction for    *)
(* every parameter that has a row in it.                                   *)
(*                                                                         *)
(* A definition named Mutant... states a bug the definition after it might *)
(* have had; no behaviour of the specification uses it.                    *)
(***************************************************************************)
EXTENDS Integers, FiniteSets

CONSTANTS
    NPars,       \* number of parameters, numbered as in GOptimizerPars
    MaxPos,      \* highest position of a parameter
    HasMin,      \* parameters with has_min()
    HasMax,      \* parameters with has_max()
    Landscapes,  \* the functions a caller may ask to optimize
    Starts,      \* parameter vectors the first fit may start from
    MayBeFlat,   \* parameters whose curvature diagonal may be zero
    Frac,        \* the full Newton step is Frac/Frac; smaller ones k/Frac
    MaxIter,     \* m_max_iter
    MaxStall,    \* m_max_stall
    MaxHit,      \* m_max_hit
    MaxDec,      \* m_max_dec
    AcceptDec,   \* |m_accept_dec|
    Eps,         \* m_eps
    StepAdjust,  \* m_step_adjust
    MaxCalls     \* bound: number of calls of optimize()

Pars      == 1 .. NPars
Positions == [Pars -> 0 .. MaxPos]

ASSUME SizeAssumption ==
    /\ NPars \in Nat \ {0}
    /\ MaxPos \in Nat \ {0}
    /\ Frac \in Nat \ {0}
    /\ MaxCalls \in Nat
ASSUME ParameterAssumption ==
    /\ HasMin \subseteq Pars
    /\ HasMax \subseteq Pars
    /\ MayBeFlat \subseteq Pars
    /\ Landscapes \subseteq [Positions -> Int]
    /\ Starts \subseteq Positions
ASSUME SettingAssumption ==
    /\ MaxIter \in Int /\ MaxStall \in Int /\ MaxHit \in Int
    /\ MaxDec \in Nat /\ AcceptDec \in Nat /\ Eps \in Int
    /\ StepAdjust \in BOOLEAN

VARIABLES
    pc,              \* where the optimizer is: see Where
    fct,             \* the function under optimization
    grad,            \* gradient and curvature the function holds: see Gradients
    pos,             \* factor value of every parameter
    free,            \* parameters with is_free()
    lambda,          \* m_lambda
    lambda_old,      \* lambda of the previous iteration
    lambda_inc,      \* number of successive increases of lambda
    value,           \* m_value
    delta,           \* m_delta
    iter,            \* m_iter
    num_dec,         \* m_num_dec
    status,          \* m_status
    check_for_freeze,
    hit_boundary,    \* parameters with m_hit_boundary set
    hit_minimum,     \* m_hit_minimum
    hit_maximum,     \* m_hit_maximum
    par_freeze,      \* parameters with m_par_freeze set
    par_remove,      \* parameters with m_par_remove set
    error_at,        \* parameter vector the parameter errors belong to
    call             \* history of the current or last call: see Calls

optVars  == <<lambda, lambda_old, lambda_inc, iter, num_dec, check_for_freeze>>
resVars  == <<value, delta, status>>
bookVars == <<hit_boundary, hit_minimum, hit_maximum, par_freeze, par_remove>>
vars     == <<pc, fct, grad, pos, free, optVars, resVars, bookVars, error_at,
              call>>

Where    == {"idle", "iterate", "test", "finish"}
Statuses == {"converged", "stalled", "singular", "not_positive_definite",
             "bad_errors"}

NoErrors == <<>>

(* at: the vector the gradient was evaluated at; rows: the parameters with *)
(* a non-zero row in it; sign: -1 when a failed solution left it negated.  *)
Gradients == [at : Positions, rows : SUBSET Pars, sign : {-1, 1}]

(* number: calls so far; outcome: how the last one ended; free, pos: the   *)
(* parameters when it started; best: lowest value it accepted; successive: *)
(* boundary hits in a row; errors: errors() was called after the fit.      *)
Calls == [number : 0 .. MaxCalls,
          outcome : {"none", "returned", "exhausted", "thrown"},
          free : SUBSET Pars, pos : Positions, best : Int,
          successive : [Pars -> Nat], errors : BOOLEAN]

TypeOK ==
    /\ pc \in Where
    /\ fct \in Landscapes
    /\ grad \in Gradients
    /\ pos \in Positions
    /\ free \subseteq Pars
    /\ lambda \in Int /\ lambda_old \in Int /\ lambda_inc \in Nat
    /\ value \in Int /\ delta \in Int
    /\ iter \in Int
    /\ num_dec \in 0 .. MaxDec
    /\ status \in Statuses
    /\ check_for_freeze \in BOOLEAN
    /\ hit_boundary \subseteq Pars
    /\ hit_minimum \in [Pars -> Nat] /\ hit_maximum \in [Pars -> Nat]
    /\ par_freeze \subseteq Pars /\ par_remove \subseteq Pars
    /\ error_at \in Positions \cup {NoErrors}
    /\ call \in Calls

-----------------------------------------------------------------------------
(* A new GOptimizerLM and parameters of which any number are free.         *)
Init ==
    /\ pc = "idle"
    /\ fct \in Landscapes
    /\ pos \in Starts
    /\ free \in SUBSET Pars
    /\ grad = [at |-> pos, rows |-> {}, sign |-> 1]
    /\ lambda = 0 /\ lambda_old = 0 /\ lambda_inc = 0
    /\ value = 0 /\ delta = 0 /\ iter = 0 /\ num_dec = 0
    /\ status = "converged"
    /\ check_for_freeze = TRUE
    /\ hit_boundary = {}
    /\ hit_minimum = [p \in Pars |-> 0] /\ hit_maximum = [p \in Pars |-> 0]
    /\ par_freeze = {} /\ par_remove = {}
    /\ error_at = NoErrors
    /\ call = [number |-> 0, outcome |-> "none", free |-> free, pos |-> pos,
               best |-> 0, successive |-> [p \in Pars |-> 0],
               errors |-> FALSE]

(* What the caller does between two fits: fix() or free() a parameter.     *)
ToggleFree(p) ==
    /\ pc = "idle" /\ call.number \in 1 .. MaxCalls - 1
    /\ free' = IF p \in free THEN free \ {p} ELSE free \cup {p}
    /\ call' = [call EXCEPT !.outcome = "none"]
    /\ UNCHANGED <<pc, fct, grad, pos, optVars, resVars, bookVars, error_at>>

(* fct.eval(pars): the curvature has a zero diagonal for the parameters in *)
(* flat.  Fixed parameters have no row in the gradient (see the gradient   *)
(* loops of GObservation::likelihood).                                     *)
Evaluation(at, frees, flat) ==
    [at |-> at, rows |-> frees \ flat, sign |-> 1]

NewCall(f) ==
    [number |-> call.number + 1, outcome |-> "none", free |-> free,
     pos |-> pos, best |-> f[pos], successive |-> [p \in Pars |-> 0],
     errors |-> FALSE]

MutantKeepsFreeze ==
    /\ hit_boundary' = {}
    /\ hit_minimum' = [p \in Pars |-> 0] /\ hit_maximum' = [p \in Pars |-> 0]
    /\ UNCHANGED par_freeze

ClearBookkeeping ==
    /\ hit_boundary' = {}
    /\ hit_minimum' = [p \in Pars |-> 0] /\ hit_maximum' = [p \in Pars |-> 0]
    /\ par_freeze' = {}

(* optimize() with free parameters, up to the iteration loop.              *)
Optimize(f, flat) ==
    /\ pc = "idle"
    /\ call.number < MaxCalls
    /\ free # {}
    /\ flat \subseteq free
    /\ fct' = f
    /\ num_dec' = 0
    /\ lambda' = 0 /\ lambda_old' = 0 /\ lambda_inc' = 0
    /\ status' = "converged"
    /\ ClearBookkeeping
    /\ par_remove' = flat
    /\ free' = free \ flat
    /\ grad' = Evaluation(pos, free, flat)
    /\ value' = f[pos]
    /\ check_for_freeze' = TRUE
    /\ iter' = 1
    /\ pc' = "iterate"
    /\ call' = NewCall(f)
    /\ UNCHANGED <<pos, delta, error_at>>

(* optimize() without free parameters only evaluates the function.         *)
OptimizeNothing(f) ==
    /\ pc = "idle"
    /\ call.number < MaxCalls
    /\ free = {}
    /\ fct' = f
    /\ num_dec' = 0
    /\ grad' = Evaluation(pos, free, {})
    /\ value' = f[pos]
    /\ call' = [NewCall(f) EXCEPT !.outcome = "returned"]
    /\ UNCHANGED <<pc, pos, free, lambda, lambda_old, lambda_inc, iter,
                   check_for_freeze, delta, status, bookVars, error_at>>

-----------------------------------------------------------------------------
(* The solution of the linear system for one parameter: the direction it   *)
(* moves in, and the fraction of the step (in units of 1/Frac) after which *)
(* it meets the limit ahead; Frac stands for "not within the step".        *)
Move  == [dir : {-1, 0, 1}, frac : 0 .. Frac]
Still == [dir |-> 0, frac |-> Frac]

LimitAhead(p, dir) ==
    \/ dir = -1 /\ p \in HasMin
    \/ dir = 1 /\ p \in HasMax

AtLimit(p, dir) ==
    \/ dir = -1 /\ pos[p] = 0
    \/ dir = 1 /\ pos[p] = MaxPos

PossibleMove(p, m) ==
    IF p \in grad.rows /\ LimitAhead(p, m.dir)
    THEN m.frac = 0 <=> AtLimit(p, m.dir)
    ELSE m.frac = Frac /\ (p \notin grad.rows => m.dir = 0)

Solutions == {s \in [Pars -> Move] : \A p \in Pars : PossibleMove(p, s[p])}

(* step_size(): the parameters, frozen ones included, whose limit comes    *)
(* before the end of the step.  A parameter that drove the step before is  *)
(* passed over, unless it moves up and the check of its minimum has just   *)
(* cleared its flag.                                                       *)
MayDrive(s) ==
    {p \in Pars : /\ LimitAhead(p, s[p].dir)
                  /\ s[p].frac \in 1 .. Frac - 1
                  /\ p \notin hit_boundary \/ (s[p].dir = 1 /\ p \in HasMin)}

Least(S) == CHOOSE x \in S : \A y \in S : x <= y

StepBefore(s, p) ==
    Least({Frac} \cup {s[q].frac : q \in {r \in MayDrive(s) : r < p}})

StepSize(s) ==
    IF StepAdjust THEN Least({Frac} \cup {s[q].frac : q \in MayDrive(s)})
                  ELSE Frac

Driver(s) ==
    {p \in MayDrive(s) : /\ s[p].frac = StepSize(s)
                         /\ s[p].frac < StepBefore(s, p)}

(* A flag survives only where no check reaches the clearing branch.        *)
KeepsFlag(s, p) ==
    /\ LimitAhead(p, s[p].dir)
    /\ ~(p \in HasMin /\ p \in HasMax)
    /\ s[p].frac = 0 \/ s[p].frac < StepBefore(s, p)

HitBoundary(s) ==
    IF StepAdjust
    THEN {p \in hit_boundary : KeepsFlag(s, p)} \cup Driver(s)
    ELSE hit_boundary

(* The trial value of one parameter.  A parameter that crosses its limit   *)
(* is put on it and counts a hit; one that lands on it may count a hit or  *)
(* not, as the rounding of factor + direction * step has it; any other     *)
(* moves on, or stays where no position is left before the limit.         *)
Trial == [pos : 0 .. MaxPos, hit : {"none", "min", "max"}]

Lands(m, tr) ==
    \/ m.dir = -1 /\ tr.pos = 0 /\ tr.hit \in {"min", "none"}
    \/ m.dir = 1 /\ tr.pos = MaxPos /\ tr.hit \in {"max", "none"}

Onward(p, dir, q) ==
    \/ dir = -1 /\ q < pos[p] /\ (p \in HasMin => q > 0)
    \/ dir = 1 /\ q > pos[p] /\ (p \in HasMax => q < MaxPos)

Advances(p, m, tr) ==
    /\ tr.hit = "none"
    /\ IF \E q \in 0 .. MaxPos : Onward(p, m.dir, q)
       THEN Onward(p, m.dir, tr.pos)
       ELSE tr.pos = pos[p]

PossibleTrial(p, m, step, tr) ==
    IF p \in free /\ m.frac < step THEN Lands(m, tr) /\ tr.hit # "none"
    ELSE IF p \in free /\ m.frac = step /\ step < Frac THEN Lands(m, tr)
    ELSE IF p \in free THEN Advances(p, m, tr)
    ELSE tr = [pos |-> pos[p], hit |-> "none"]

TrialVectors(s, step) ==
    {t \in [Pars -> Trial] : \A p \in Pars : PossibleTrial(p, s[p], step, t[p])}

(* Parameters that hit a limit once more than allowed.                     *)
Frozen(t) ==
    {p \in free : \/ t[p].hit = "min" /\ hit_minimum[p] >= MaxHit
                  \/ t[p].hit = "max" /\ hit_maximum[p] >= MaxHit}

MutantNeverResets(t, kind, count) ==
    [p \in Pars |-> IF p \in free /\ t[p].hit = kind THEN count[p] + 1
                    ELSE count[p]]

CountHits(t, kind, count) ==
    [p \in Pars |-> IF p \notin free THEN count[p]
                    ELSE IF t[p].hit = kind THEN count[p] + 1
                    ELSE IF t[p].hit = "none" THEN 0
                    ELSE count[p]]

Better(new)     == value - new > 0
Same(new)       == value - new = 0
MutantUncounted(new) == value - new < 0 /\ value - new >= -AcceptDec
MutantAnyAmount(new) == value - new < 0 /\ num_dec < MaxDec
Tolerated(new)  == /\ value - new < 0
                   /\ num_dec < MaxDec
                   /\ value - new >= -AcceptDec

MutantKeepsValue(new, newpos, newgrad) ==
    /\ value' = IF Tolerated(new) THEN value ELSE new
    /\ pos' = newpos
    /\ grad' = newgrad
    /\ lambda' = IF Better(new) \/ (Same(new) /\ newpos = pos)
                 THEN lambda - 1 ELSE lambda + 1
    /\ num_dec' = IF Tolerated(new) THEN num_dec + 1 ELSE num_dec

AcceptTrial(new, newpos, newgrad) ==
    /\ value' = new
    /\ pos' = newpos
    /\ grad' = newgrad
    /\ lambda' = IF Better(new) \/ (Same(new) /\ newpos = pos)
                 THEN lambda - 1 ELSE lambda + 1
    /\ num_dec' = IF Tolerated(new) THEN num_dec + 1 ELSE num_dec

(* ... and when it is taken back.                                          *)
RejectTrial ==
    /\ lambda' = lambda + 1
    /\ UNCHANGED <<value, pos, grad, num_dec>>

Moved(t) == [p \in Pars |-> t[p].pos]

(* iteration() up to the evaluation: the trial vector and its bookkeeping. *)
TakeStep(s, t) ==
    /\ pc = "iterate" /\ iter <= MaxIter
    /\ grad.rows # {}
    /\ hit_boundary' = HitBoundary(s)
    /\ hit_minimum' = CountHits(t, "min", hit_minimum)
    /\ hit_maximum' = CountHits(t, "max", hit_maximum)
    /\ par_freeze' = par_freeze \cup Frozen(t)
    /\ UNCHANGED <<fct, lambda_old, lambda_inc, iter, check_for_freeze,
                   status, error_at>>

(* iteration() with a solution of the linear system.                       *)
Iteration(s, t, flat) ==
    LET new       == fct[Moved(t)]
        stillFree == free \ Frozen(t)
    IN
    /\ TakeStep(s, t)
    /\ flat \subseteq stillFree
    /\ par_remove' = par_remove \cup flat
    /\ free' = stillFree \ flat
    /\ delta' = value - new
    /\ IF Better(new) \/ Same(new) \/ Tolerated(new)
       THEN AcceptTrial(new, Moved(t), Evaluation(Moved(t), stillFree, flat))
       ELSE RejectTrial
    /\ pc' = "test"
    /\ call' = [call EXCEPT
                  !.best = IF new < @ THEN new ELSE @,
                  !.successive = [p \in Pars |->
                      IF p \notin free THEN @[p]
                      ELSE IF t[p].hit = "none" THEN 0 ELSE @[p] + 1]]

Leave == /\ pc' = "idle"
         /\ call' = [call EXCEPT !.outcome = "thrown"]

(* fct.eval() throws at the trial vector: the exception leaves optimize()  *)
(* with the parameters as they are.                                        *)
EvalThrows(s, t) ==
    /\ TakeStep(s, t)
    /\ free' = free \ Frozen(t)
    /\ pos' = Moved(t)
    /\ grad' = Evaluation(Moved(t), {}, {})
    /\ Leave
    /\ UNCHANGED <<par_remove, lambda, num_dec, value, delta>>

(* The solver throws something else than its two matrix exceptions.        *)
SolverThrows ==
    /\ pc = "iterate" /\ iter <= MaxIter
    /\ grad' = [grad EXCEPT !.sign = -@]
    /\ Leave
    /\ UNCHANGED <<fct, pos, free, optVars, resVars, bookVars, error_at>>

(* iteration() when the linear system has no solution: all elements of the *)
(* curvature are zero, or it is not positive definite.  The gradient stays *)
(* negated; lambda and delta keep what the last iteration left in them.    *)
IterationFails(newStatus) ==
    /\ pc = "iterate" /\ iter <= MaxIter
    /\ \/ newStatus = "singular" /\ grad.rows = {}
       \/ newStatus = "not_positive_definite" /\ grad.rows # {}
    /\ status' = newStatus
    /\ grad' = [grad EXCEPT !.sign = -@]
    /\ pc' = "test"
    /\ UNCHANGED <<fct, pos, free, optVars, value, delta, bookVars, error_at,
                   call>>

-----------------------------------------------------------------------------
(* The end of the body of the loop in optimize().                          *)
Convergence == lambda <= lambda_old /\ delta >= 0 /\ delta < Eps

Increases == IF lambda > lambda_old THEN lambda_inc + 1 ELSE 0

MutantUncountedIteration ==
    /\ pc' = "iterate"
    /\ iter' = iter

NextIteration ==
    /\ pc' = "iterate"
    /\ iter' = iter + 1

(* Frozen parameters are released once: signal not to check again.         *)
MutantChecksAgain == UNCHANGED check_for_freeze
CheckedOnce == check_for_freeze' = FALSE

(* First convergence with frozen parameters: free them and start over.     *)
ReleaseFrozen ==
    /\ pc = "test"
    /\ Convergence /\ check_for_freeze /\ par_freeze # {}
    /\ CheckedOnce
    /\ free' = free \cup par_freeze
    /\ lambda' = 0 /\ lambda_old' = 0 /\ lambda_inc' = 0
    /\ NextIteration
    /\ UNCHANGED <<fct, grad, pos, num_dec, call, resVars, bookVars, error_at>>

Converged ==
    /\ pc = "test"
    /\ Convergence /\ ~(check_for_freeze /\ par_freeze # {})
    /\ CheckedOnce
    /\ pc' = "finish"
    /\ UNCHANGED <<fct, grad, pos, free, lambda, lambda_old, lambda_inc, iter,
                   num_dec, resVars, bookVars, error_at, call>>

Stalled ==
    /\ pc = "test"
    /\ ~Convergence /\ Increases >= MaxStall
    /\ lambda_inc' = Increases
    /\ status' = "stalled"
    /\ pc' = "finish"
    /\ UNCHANGED <<fct, grad, pos, free, lambda, lambda_old, iter, num_dec,
                   check_for_freeze, value, delta, bookVars, error_at, call>>

Continue ==
    /\ pc = "test"
    /\ ~Convergence /\ Increases < MaxStall
    /\ lambda_inc' = Increases
    /\ lambda_old' = lambda
    /\ NextIteration
    /\ UNCHANGED <<fct, grad, pos, free, lambda, num_dec, check_for_freeze,
                   resVars, bookVars, error_at, call>>

(* The loop ends because m_iter exceeds m_max_iter; the status is left.    *)
Exhausted ==
    /\ pc = "iterate" /\ iter > MaxIter
    /\ pc' = "finish"
    /\ call' = [call EXCEPT !.outcome = "exhausted"]
    /\ UNCHANGED <<fct, grad, pos, free, optVars, resVars, bookVars, error_at>>

MutantForgetsFrozen == par_remove
FixedByFit == par_freeze \cup par_remove

(* The end of optimize(): free what the fit has fixed.                     *)
Return ==
    /\ pc = "finish"
    /\ free' = free \cup FixedByFit
    /\ pc' = "idle"
    /\ call' = [call EXCEPT !.outcome = IF @ = "none" THEN "returned" ELSE @]
    /\ UNCHANGED <<fct, grad, pos, optVars, resVars, bookVars, error_at>>

-----------------------------------------------------------------------------
(* errors(): the function is evaluated once more.  The curvature may be    *)
(* inverted at once, after loading its diagonal, or not at all; only the   *)
(* failures are written to the status.                                     *)
ErrorsEvaluate(flat) ==
    /\ pc = "idle" /\ call.outcome \in {"returned", "exhausted"}
    /\ flat \subseteq free
    /\ value' = fct[pos]
    /\ grad' = Evaluation(pos, free, flat)
    /\ call' = [call EXCEPT !.errors = TRUE]
    /\ UNCHANGED <<pc, fct, pos, free, optVars, delta, bookVars>>

ErrorsComputed(flat) ==
    /\ ErrorsEvaluate(flat)
    /\ free \ flat # {}
    /\ error_at' = pos
    /\ status' \in {status, "bad_errors"}

MutantSilentErrors(flat) ==
    /\ ErrorsEvaluate(flat)
    /\ UNCHANGED <<status, error_at>>

ErrorsFail(flat) ==
    /\ ErrorsEvaluate(flat)
    /\ status' = IF free \ flat = {} THEN "singular" ELSE "not_positive_definite"
    /\ UNCHANGED error_at

Next ==
    \/ \E p \in Pars : ToggleFree(p)
    \/ \E f \in Landscapes, flat \in SUBSET MayBeFlat : Optimize(f, flat)
    \/ \E f \in Landscapes : OptimizeNothing(f)
    \/ \E s \in Solutions : \E step \in {StepSize(s)} : \E t \in TrialVectors(s, step) :
            \/ \E flat \in SUBSET MayBeFlat : Iteration(s, t, flat)
            \/ EvalThrows(s, t)
    \/ \E st \in Statuses : IterationFails(st)
    \/ SolverThrows
    \/ ReleaseFrozen \/ Converged \/ Stalled \/ Continue \/ Exhausted \/ Return
    \/ \E flat \in SUBSET MayBeFlat : ErrorsComputed(flat) \/ ErrorsFail(flat)

(* optimize() is a sequential call: once entered it takes its next step.   *)
Fairness == WF_vars(Next /\ pc # "idle")

Spec == Init /\ [][Next]_vars /\ Fairness

-----------------------------------------------------------------------------
InLoop   == pc \in {"iterate", "test", "finish"}
Finished == pc = "idle" /\ call.outcome \in {"returned", "exhausted"}

(* A fit that returns has the parameters it was called with free, and only *)
(* those: what it froze at a limit or removed for zero curvature is free   *)
(* again ("so that the resulting model has the same attributes as the      *)
(* initial model", end of optimize()).                                     *)
AttributesRestored == Finished => free = call.free

(* A parameter the user has fixed is neither moved nor freed by a fit,     *)
(* also when an earlier fit froze or removed it.                           *)
FixedByUserUntouched ==
    InLoop => \A p \in Pars \ call.free : p \notin free /\ pos[p] = call.pos[p]

(* Between iterations, after the fit and after errors() m_value is the     *)
(* function at the stored parameters, and the gradient held by the         *)
(* function belongs to them, whatever was accepted or taken back.          *)
ResultsMatch == InLoop \/ Finished => value = fct[pos] /\ grad.at = pos

(* Worse values are accepted at most m_max_dec times in a fit, over all    *)
(* restarts, each by at most m_accept_dec: the fit never ends further than *)
(* that above the best value it has met.                                   *)
BoundedWorsening == InLoop \/ Finished => value <= call.best + MaxDec * AcceptDec

(* A parameter removed for zero curvature takes no part in the rest of the *)
(* fit ("remove this parameter definitely from the fit").                  *)
RemovedStaysOut == InLoop => par_remove \cap free = {}

(* A status "converged" after errors() vouches for the errors too: they    *)
(* were computed at the fitted parameters.                                 *)
ErrorsBelongToFit ==
    Finished /\ call.errors /\ status = "converged" => error_at = pos

(* A parameter is frozen only after more than m_max_hit successive hits of *)
(* its limits.                                                             *)
FreezeNeedsSuccessiveHits ==
    [][\A p \in par_freeze' \ par_freeze :
          pc' = "test" => call'.successive[p] > MaxHit]_vars

(* Every call comes to an end: no exit path or restart loops for ever.     *)
FitEnds == InLoop ~> pc = "idle"

=============================================================================
