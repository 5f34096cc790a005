--------------------------- MODULE GOptimizerPars ---------------------------
(***************************************************************************)
(* Containers of optimizer parameters (src/src/opt/GOptimizerPars.cpp) and *)
(* the parameters on the heap.  A container holds two parallel vectors:    *)
(* m_pars, the pointers to its parameters, and m_alloc, which says of each *)
(* whether the container has allocated it and will delete it.  at() and    *)
(* attach() hand pointers from one container to another, so that a wrong   *)
(* flag in one of them deletes what belongs to another, or to the client.  *)
(*                                                                         *)
(* copy_members() and extend() leave the two vectors with different        *)
(* lengths: sound becomes FALSE with them.  From then on flags beyond the  *)
(* end of m_alloc are read, as either value; insert() and remove() at such *)
(* an index (an iterator beyond the end) are not modelled.                 *)
(***************************************************************************)
EXTENDS Naturals, Sequences, SequencesExt

CONSTANTS
    Containers,   \* the GOptimizerPars objects
    ClientPars,   \* addresses of parameters that a client has allocated
    Heap,         \* addresses for the parameters the containers allocate
    Null,         \* the null pointer
    MaxSize       \* bound: elements of a vector

ASSUME AddressAssumption ==
    /\ Null \notin ClientPars \cup Heap
    /\ ClientPars \cap Heap = {}
ASSUME BoundAssumption == MaxSize \in Nat

VARIABLES
    m_pars,     \* per container, the pointers
    m_alloc,    \* per container, the flags
    alive,      \* addresses of the parameters that exist
    sound       \* no container has been copied or extended, but empty ones

vars == <<m_pars, m_alloc, alive, sound>>

Pointers == Heap \cup ClientPars \cup {Null}

Init ==
    /\ m_pars = [k \in Containers |-> <<>>]
    /\ m_alloc = [k \in Containers |-> <<>>]
    /\ alive = ClientPars
    /\ sound = TRUE

-----------------------------------------------------------------------------
(* The values that m_alloc[i] can be read as.                              *)
Flag(k, i) == IF i \in DOMAIN m_alloc[k] THEN {m_alloc[k][i]} ELSE BOOLEAN

SetFlag(k, i, flag) ==
    IF i \in DOMAIN m_alloc[k] THEN [m_alloc[k] EXCEPT ![i] = flag]
    ELSE m_alloc[k]

(* Addresses for new parameters at slots, once deleted has been freed.     *)
Fresh(slots, deleted) ==
    {new \in [slots -> Heap \ (alive \ deleted)] : IsInjective(new)}

Replace(k, pars, alloc) ==
    /\ m_pars' = [m_pars EXCEPT ![k] = pars]
    /\ m_alloc' = [m_alloc EXCEPT ![k] = alloc]

Freeing(deleted, new) == alive' = (alive \ deleted) \cup Range(new)

(* What set(), attach() and remove() delete: m_pars[i] if m_alloc[i].  To  *)
(* delete a null pointer does nothing.                                     *)
DeletedAt(k, i) ==
    {IF flag THEN {m_pars[k][i]} \ {Null} ELSE {} : flag \in Flag(k, i)}

(* What free_members() deletes.                                            *)
Deleted(k) ==
    {{m_pars[k][i] : i \in freed} \ {Null} :
        freed \in {f \in SUBSET DOMAIN m_pars[k] :
                      \A i \in DOMAIN m_pars[k] : (i \in f) \in Flag(k, i)}}

-----------------------------------------------------------------------------
(* The destructor, and clear().                                            *)
Clear(k) ==
    /\ \E deleted \in Deleted(k) : Freeing(deleted, <<>>)
    /\ Replace(k, <<>>, <<>>)
    /\ UNCHANGED sound

(* GOptimizerPars(number), after the destructor of the object before.      *)
Construct(k, number) ==
    /\ number <= MaxSize
    /\ \E deleted \in Deleted(k) : \E new \in Fresh(1..number, deleted) :
          /\ Freeing(deleted, new)
          /\ Replace(k, new, [i \in 1..number |-> TRUE])
    /\ UNCHANGED sound

(* The copy constructor and operator=.  copy_members() copies the flags,   *)
(* and then as many pointers as m_pars of the copy has, which is none.     *)
Copy(k, pars) ==
    /\ k # pars
    /\ \E deleted \in Deleted(k) : Freeing(deleted, <<>>)
    /\ Replace(k, <<>>, m_alloc[pars])
    /\ sound' = (sound /\ m_alloc[pars] = <<>>)

(* A set() that forgets to delete the parameter it replaces.               *)
MutantSetForgetsDelete(k, i) ==
    /\ i \in DOMAIN m_pars[k]
    /\ \E new \in Fresh({i}, {}) :
          /\ Freeing({}, new)
          /\ Replace(k, [m_pars[k] EXCEPT ![i] = new[i]], SetFlag(k, i, TRUE))
    /\ UNCHANGED sound

(* set(index, par), with a par that is not in the container.               *)
Set(k, i) ==
    /\ i \in DOMAIN m_pars[k]
    /\ \E deleted \in DeletedAt(k, i) : \E new \in Fresh({i}, deleted) :
          /\ Freeing(deleted, new)
          /\ Replace(k, [m_pars[k] EXCEPT ![i] = new[i]], SetFlag(k, i, TRUE))
    /\ UNCHANGED sound

(* An attach() that pushes no flag, like extend().                         *)
MutantAttachSetsNoFlag(k, par) ==
    /\ par \in alive
    /\ Len(m_pars[k]) < MaxSize
    /\ m_pars' = [m_pars EXCEPT ![k] = Append(@, par)]
    /\ UNCHANGED <<m_alloc, alive, sound>>

(* attach(par).  The null pointer is not pushed.                           *)
Attach(k, par) ==
    /\ par \in alive
    /\ Len(m_pars[k]) < MaxSize /\ Len(m_alloc[k]) < MaxSize
    /\ Replace(k, Append(m_pars[k], par), Append(m_alloc[k], FALSE))
    /\ UNCHANGED <<alive, sound>>

(* attach(index, par), where par may be null.                              *)
AttachAt(k, i, par) ==
    /\ par \in alive \cup {Null}
    /\ i \in DOMAIN m_pars[k]
    /\ \E deleted \in DeletedAt(k, i) : Freeing(deleted, <<>>)
    /\ Replace(k, [m_pars[k] EXCEPT ![i] = par], SetFlag(k, i, FALSE))
    /\ UNCHANGED sound

(* An insert() of another container's parameter that makes no clone.       *)
MutantInsertTakesPointer(k, i) ==
    /\ i \in DOMAIN m_pars[k] /\ i <= Len(m_alloc[k]) + 1
    /\ Len(m_pars[k]) < MaxSize /\ Len(m_alloc[k]) < MaxSize
    /\ \E par \in alive \ ClientPars :
          Replace(k, InsertAt(m_pars[k], i, par), InsertAt(m_alloc[k], i, TRUE))
    /\ UNCHANGED <<alive, sound>>

(* insert(index, par)                                                      *)
Insert(k, i) ==
    /\ i \in DOMAIN m_pars[k] /\ i <= Len(m_alloc[k]) + 1
    /\ Len(m_pars[k]) < MaxSize /\ Len(m_alloc[k]) < MaxSize
    /\ \E new \in Fresh({i}, {}) :
          /\ Freeing({}, new)
          /\ Replace(k, InsertAt(m_pars[k], i, new[i]),
                        InsertAt(m_alloc[k], i, TRUE))
    /\ UNCHANGED sound

(* remove(index)                                                           *)
RemovePar(k, i) ==
    /\ i \in DOMAIN m_pars[k] /\ i \in DOMAIN m_alloc[k]
    /\ \E deleted \in DeletedAt(k, i) : Freeing(deleted, <<>>)
    /\ Replace(k, RemoveAt(m_pars[k], i), RemoveAt(m_alloc[k], i))
    /\ UNCHANGED sound

(* extend(pars).  The flagged parameters are cloned, for the others the    *)
(* pointer is taken over; no flag is set for either.                       *)
Extend(k, pars) ==
    LET num == Len(m_pars[pars]) IN
    /\ num > 0 /\ Len(m_pars[k]) + num <= MaxSize
    /\ \E cloned \in SUBSET (1..num) : \E new \in Fresh(cloned, {}) :
          /\ \A i \in 1..num :
                /\ (i \in cloned) \in Flag(pars, i)
                /\ i \in cloned => m_pars[pars][i] \in alive
          /\ Freeing({}, new)
          /\ Replace(k, m_pars[k] \o
                        [i \in 1..num |-> IF i \in cloned THEN new[i]
                                          ELSE m_pars[pars][i]],
                     m_alloc[k])
    /\ sound' = FALSE

Next ==
    \E k \in Containers :
        \/ Clear(k)
        \/ \E number \in 0..MaxSize : Construct(k, number)
        \/ \E pars \in Containers : Copy(k, pars) \/ Extend(k, pars)
        \/ \E i \in 1..MaxSize :
              \/ Set(k, i) \/ Insert(k, i) \/ RemovePar(k, i)
              \/ \E par \in Pointers : AttachAt(k, i, par)
        \/ \E par \in Pointers : Attach(k, par)

Spec == Init /\ [][Next]_vars

-----------------------------------------------------------------------------
(* Types; and as long as no container is copied or extended, m_pars and    *)
(* m_alloc stay parallel through all the other operations.                 *)
TypeOK ==
    /\ m_pars \in [Containers -> Seq(Pointers)]
    /\ m_alloc \in [Containers -> Seq(BOOLEAN)]
    /\ alive \subseteq Heap \cup ClientPars
    /\ sound \in BOOLEAN
    /\ sound => \A k \in Containers : Len(m_alloc[k]) = Len(m_pars[k])

(* The places of container k that it will delete, and what is in them.     *)
Flagged(k) == {i \in DOMAIN m_pars[k] : i \in DOMAIN m_alloc[k] /\ m_alloc[k][i]}
Owned(k)   == {m_pars[k][i] : i \in Flagged(k)}

(* No parameter is deleted twice: at most one place of one container is    *)
(* flagged for it, however its pointer is handed around with at() and      *)
(* attach() between containers, and removed, replaced and inserted around. *)
OwnedOnce ==
    sound => \A k, l \in Containers : \A i \in Flagged(k), j \in Flagged(l) :
                m_pars[k][i] = m_pars[l][j] => k = l /\ i = j

(* The parameters that exist are exactly those of the client and those     *)
(* that a container will delete: none of a container's is lost, none that  *)
(* it will delete is gone already, and none of the client's is deleted.    *)
NothingLeaks ==
    sound => /\ alive = ClientPars \cup UNION {Owned(k) : k \in Containers}
             /\ \A k \in Containers : Owned(k) \cap ClientPars = {}

(* GOptimizerPars.hpp says of the pointers that are passed by a client     *)
(* that the client allocates and deallocates them.  A container that was   *)
(* extended reads flags it never set, and in the copy of a container there *)
(* are flags of the original for the first pointers attached to it.        *)
ClientDeallocates == ClientPars \subseteq alive
=============================================================================
