----------------------- MODULE GObservationsLikelihood -----------------------
(***************************************************************************)
(* The evaluation of the likelihood (GObservations::likelihood::eval() in  *)
(* src/src/obs/GObservations_likelihood.cpp): a team of threads shares the *)
(* observations; each thread adds up what it computes in copies of its     *)
(* own, which it puts on lists that all threads share; when the team is    *)
(* done, the copies on the lists are added up and deleted.                 *)
(*                                                                         *)
(* A sum is a function from the observations to the number of times that   *)
(* each of them has been counted in it.                                    *)
(***************************************************************************)
EXTENDS Integers, Sequences

CONSTANTS
    Threads,       \* what OpenMP may make a team of
    NObs,          \* number of observations
    Throwing,      \* observations whose likelihood may throw an exception
    MaxEvals       \* bound: number of evaluations

Obs == 0..(NObs - 1)

ASSUME EvalAssumption ==
    NObs \in Nat /\ Throwing \subseteq Obs /\ MaxEvals \in Nat

VARIABLES
    main,          \* where the caller is
    section,       \* the section it merges in
    index,         \* the copy it merges next
    team,          \* the threads of the parallel region
    share,         \* the observations that a thread is given
    pc,            \* where the threads are
    slot,          \* the size of the lists that a thread has read
    done,          \* observations that have been computed
    copy,          \* the sums of each thread
    stacked,       \* observations on the stack of a thread's curvature matrix
    alive,         \* copies that are allocated
    vect,          \* the lists of copies: vect_cpy_curvature, ...
    result,        \* m_curvature, m_gradient, m_npred and m_value
    gradients,     \* what the free parameters have as their gradients
    evals          \* number of evaluations

vars == <<main, section, index, team, share, pc, slot, done, copy, stacked,
          alive, vect, result, gradients, evals>>

(* The sections in which the copies are merged, in the order in which the  *)
(* caller, which is alone by then, executes them.                          *)
Sections == <<"curvature", "gradient", "npred", "value">>
Quantities == {"curvature", "gradient", "npred", "value"}

Nothing == [o \in Obs |-> 0]
Everything == [o \in Obs |-> 1]

With(sum, S) == [o \in Obs |-> sum[o] + IF o \in S THEN 1 ELSE 0]
Sum(a, b) == [o \in Obs |-> a[o] + b[o]]

Init ==
    /\ main = "idle" /\ section = 1 /\ index = 1
    /\ team = {}
    /\ share = [t \in Threads |-> {}]
    /\ pc = [t \in Threads |-> "out"]
    /\ slot = [t \in Threads |-> 0]
    /\ done = {}
    /\ copy = [t \in Threads |-> [q \in Quantities |-> Nothing]]
    /\ stacked = [t \in Threads |-> {}]
    /\ alive = {}
    /\ vect = [q \in Quantities |-> <<>>]
    /\ result = [q \in Quantities |-> Nothing]
    /\ gradients = Nothing
    /\ evals = 0

-----------------------------------------------------------------------------
(* The caller, up to the parallel region                                   *)

(* The results are allocated and set to zero.                              *)
MutantKeepsResult == UNCHANGED result

Cleared == result' = [q \in Quantities |-> Nothing]

(* "omp for" gives each observation to one thread of the team.             *)
Shares(T, f) == [t \in Threads |-> {o \in Obs : t \in T /\ f[o] = t}]

Eval(T, f) ==
    /\ main = "idle" /\ evals < MaxEvals
    /\ main' = "parallel"
    /\ team' = T
    /\ share' = Shares(T, f)
    /\ pc' = [t \in Threads |-> IF t \in T THEN "allocate" ELSE "out"]
    /\ done' = {}
    /\ vect' = [q \in Quantities |-> <<>>]
    /\ Cleared
    /\ evals' = evals + 1
    /\ UNCHANGED <<section, index, slot, copy, stacked, alive, gradients>>

(* Without parameters nothing is computed, and the results stay.           *)
EvalNothing ==
    /\ main = "idle" /\ evals < MaxEvals
    /\ evals' = evals + 1
    /\ UNCHANGED <<main, section, index, team, share, pc, slot, done, copy, stacked,
                   alive, vect, result, gradients>>

-----------------------------------------------------------------------------
(* A thread                                                                *)

GoTo(t, place) == pc' = [pc EXCEPT ![t] = place]
At(t, place) == main = "parallel" /\ pc[t] = place

Allocate(t) ==
    /\ At(t, "allocate")
    /\ GoTo(t, "register")
    /\ copy' = [copy EXCEPT ![t] = [q \in Quantities |-> Nothing]]
    /\ stacked' = [stacked EXCEPT ![t] = {}]
    /\ alive' = alive \cup ({t} \X Quantities)
    /\ UNCHANGED <<main, section, index, team, share, slot, done, vect,
                   result, gradients, evals>>

(* push_back() reads the size of a list, and writes behind its last        *)
(* element.  The critical region has one thread in it at a time.           *)
MutantNoCritical == TRUE

CriticalIsFree == \A t \in Threads : pc[t] # "push"

EnterCritical(t) ==
    /\ At(t, "register") /\ CriticalIsFree
    /\ GoTo(t, "push")
    /\ slot' = [slot EXCEPT ![t] = Len(vect["value"])]
    /\ UNCHANGED <<main, section, index, team, share, done, copy, stacked, alive, vect,
                   result, gradients, evals>>

PushBack(t) ==
    /\ At(t, "push")
    /\ GoTo(t, "loop")
    /\ vect' = [q \in Quantities |-> Append(SubSeq(vect[q], 1, slot[t]), t)]
    /\ UNCHANGED <<main, section, index, team, share, slot, done, copy, stacked, alive,
                   result, gradients, evals>>

(* The thread computes its observations in their order.                    *)
Left(t) == share[t] \ done

NextOf(t, o) ==
    /\ At(t, "loop")
    /\ o \in Left(t) /\ \A p \in Left(t) : o <= p

(* The likelihood of an observation is added to the sums.  What it adds to *)
(* the curvature is pushed on the stack of that matrix, which is flushed   *)
(* before when it is full.                                                 *)
Counted(t, o, flushed) ==
    [q \in Quantities |->
        IF q # "curvature" THEN With(copy[t][q], {o})
        ELSE IF flushed THEN With(copy[t][q], stacked[t])
        ELSE copy[t][q]]

Compute(t, o, flushed) ==
    /\ NextOf(t, o)
    /\ done' = done \cup {o}
    /\ copy' = [copy EXCEPT ![t] = Counted(t, o, flushed)]
    /\ stacked' = [stacked EXCEPT ![t] = IF flushed THEN {o} ELSE @ \cup {o}]
    /\ UNCHANGED <<main, section, index, team, share, pc, slot, alive, vect,
                   result, gradients, evals>>

(* An exception that leaves a parallel region terminates the program.      *)
LikelihoodThrows(t, o) ==
    /\ NextOf(t, o)
    /\ o \in Throwing
    /\ main' = "terminated"
    /\ UNCHANGED <<section, index, team, share, pc, slot, done, copy, stacked, alive,
                   vect, result, gradients, evals>>

LoopEnds(t) ==
    /\ At(t, "loop") /\ Left(t) = {}
    /\ GoTo(t, "barrier")
    /\ UNCHANGED <<main, section, index, team, share, slot, done, copy, stacked, alive,
                   vect, result, gradients, evals>>

(* Behind the barrier of the loop, the stack is flushed and destroyed.     *)
MutantForgetsStack(t) == copy[t]["curvature"]

Flushed(t) == With(copy[t]["curvature"], stacked[t])

StackDestroy(t) ==
    /\ At(t, "barrier")
    /\ \A u \in team : pc[u] \in {"barrier", "joined"}
    /\ GoTo(t, "joined")
    /\ copy' = [copy EXCEPT ![t]["curvature"] = Flushed(t)]
    /\ stacked' = [stacked EXCEPT ![t] = {}]
    /\ UNCHANGED <<main, section, index, team, share, slot, done, alive, vect,
                   result, gradients, evals>>

-----------------------------------------------------------------------------
(* The caller, behind the parallel region                                  *)

AllJoined == \A t \in team : pc[t] = "joined"

Join ==
    /\ main = "parallel"
    /\ AllJoined
    /\ main' = "merge"
    /\ section' = 1
    /\ index' = 1
    /\ UNCHANGED <<team, share, pc, slot, done, copy, stacked, alive, vect,
                   result, gradients, evals>>

(* One copy of one section is added to the result, and deleted.            *)
MutantNotDeleted(t, q) == alive

Deleted(t, q) == alive \ {<<t, q>>}

Merge ==
    LET q == Sections[section]
    IN  /\ main = "merge"
        /\ index <= Len(vect[q])
        /\ result' = [result EXCEPT ![q] = Sum(@, copy[vect[q][index]][q])]
        /\ alive' = Deleted(vect[q][index], q)
        /\ index' = index + 1
        /\ UNCHANGED <<main, section, team, share, pc, slot, done, copy, stacked, vect,
                       gradients, evals>>

MutantOneMore == section <= Len(Sections)

MoreSections == section < Len(Sections)

NextSection ==
    /\ main = "merge"
    /\ index > Len(vect[Sections[section]])
    /\ IF MoreSections
       THEN section' = section + 1 /\ UNCHANGED main
       ELSE main' = "deliver" /\ UNCHANGED section
    /\ index' = 1
    /\ UNCHANGED <<team, share, pc, slot, done, copy, stacked, alive, vect,
                   result, gradients, evals>>

(* The gradients are copied to the free parameters.                        *)
Deliver ==
    /\ main = "deliver"
    /\ main' = "idle"
    /\ gradients' = result["gradient"]
    /\ UNCHANGED <<section, index, team, share, pc, slot, done, copy, stacked, alive, vect,
                   result, evals>>

-----------------------------------------------------------------------------
(* Specification                                                           *)

InThread(t) ==
    \/ Allocate(t) \/ EnterCritical(t) \/ PushBack(t)
    \/ \E o \in Obs, flushed \in BOOLEAN : Compute(t, o, flushed)
    \/ \E o \in Obs : LikelihoodThrows(t, o)
    \/ LoopEnds(t) \/ StackDestroy(t)

InCaller == Join \/ Merge \/ NextSection \/ Deliver

Next ==
    \/ \E T \in (SUBSET Threads) \ {{}} : \E f \in [Obs -> T] : Eval(T, f)
    \/ EvalNothing
    \/ \E t \in Threads : InThread(t)
    \/ InCaller

Safe == Init /\ [][Next]_vars

(* The threads of the team and the caller run on.                          *)
Spec == Safe /\ WF_vars(InCaller) /\ \A t \in Threads : WF_vars(InThread(t))

-----------------------------------------------------------------------------
(* Properties                                                              *)

Places == {"out", "allocate", "register", "push", "loop", "barrier", "joined"}

TypeOK ==
    /\ main \in {"idle", "parallel", "merge", "deliver", "terminated"}
    /\ section \in 1..Len(Sections) /\ index \in Nat \ {0}
    /\ team \subseteq Threads
    /\ share \in [Threads -> SUBSET Obs]
    /\ pc \in [Threads -> Places]
    /\ slot \in [Threads -> Nat]
    /\ done \subseteq Obs
    /\ copy \in [Threads -> [Quantities -> [Obs -> Nat]]]
    /\ stacked \in [Threads -> SUBSET Obs]
    /\ alive \subseteq Threads \X Quantities
    /\ vect \in [Quantities -> Seq(Threads)]
    /\ result \in [Quantities -> [Obs -> Nat]]
    /\ gradients \in [Obs -> Nat]
    /\ evals \in 0..MaxEvals

(* When the team has joined, each of its threads is on each of the lists   *)
(* once, in whatever order they came through the critical region.          *)
RegisteredOnce ==
    main \in {"merge", "deliver"} =>
        \A q \in Quantities :
            /\ {vect[q][i] : i \in DOMAIN vect[q]} = team
            /\ \A i, j \in DOMAIN vect[q] : vect[q][i] = vect[q][j] => i = j

(* No copy is merged that has been deleted, and none is left behind.       *)
CopiesAreDeletedOnce ==
    /\ main = "merge" =>
          LET q == Sections[section]
          IN  \A i \in index..Len(vect[q]) : <<vect[q][i], q>> \in alive
    /\ main = "idle" => alive = {}

(* Whatever the team and the schedule, an evaluation that ends has counted *)
(* each observation once, in each of the results.                          *)
EachCountedOnce ==
    main = "deliver" => \A q \in Quantities : result[q] = Everything

(* Evaluating with threads implements evaluating at once, and comes to an  *)
(* end.                                                                    *)
Phase ==
    CASE main = "idle" -> "ready"
      [] main = "terminated" -> "dead"
      [] OTHER -> "busy"

Sums == INSTANCE LikelihoodSum
    WITH phase <- Phase,
         total <- IF main = "idle" THEN result ELSE [q \in Quantities |-> Nothing]

Implements == Sums!Spec
ImplementsSafely == Sums!Safe
=============================================================================
