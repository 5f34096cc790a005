---------------------------- MODULE MCGVOSession ----------------------------
(* A few applications and the hubs they launch, for TLC.                   *)
EXTENDS GVOSession, TLC

(* Two applications that call everything, and whatever can go wrong.       *)
Everything ==
    {[users |-> U, methods |-> Methods, max_calls |-> 3, hubs |-> 2,
      first_hub |-> "absent", late |-> TRUE, slow |-> TRUE, again |-> TRUE,
      reuse_port |-> TRUE] : U \in {V \in SUBSET Clients : Cardinality(V) = 2}}

(* Three applications and a hub that listens all the time.                 *)
SteadyHub ==
    [users |-> Clients, methods |-> Methods \ {"shutdown_hub"}, max_calls |-> 5,
     hubs |-> 2, first_hub |-> "listening", late |-> FALSE, slow |-> FALSE,
     again |-> FALSE, reuse_port |-> TRUE]

SafetySettings == Everything \cup {SteadyHub}

(* One application, whose hubs come up in time.                            *)
Alone(c) ==
    [users |-> {c}, methods |-> Methods, max_calls |-> 6, hubs |-> 3,
     first_hub |-> "absent", late |-> FALSE, slow |-> FALSE, again |-> FALSE,
     reuse_port |-> TRUE]

(* Two applications, slow hubs, late answers, and a second hub cannot      *)
(* bind.                                                                   *)
SlowHubs ==
    [users |-> Clients, methods |-> {"connect"}, max_calls |-> 2, hubs |-> 2,
     first_hub |-> "absent", late |-> TRUE, slow |-> TRUE, again |-> FALSE,
     reuse_port |-> FALSE]

LivenessSettings == {Alone(CHOOSE c \in Clients : TRUE), SlowHubs}

ClientSymmetry == Permutations(Clients)
=============================================================================
