---------------------------- MODULE GVOHub_proof ----------------------------
(***************************************************************************)
(* What holds of a hub for any number of agents, of clients, of names, of  *)
(* declarations and of seconds.                                            *)
(***************************************************************************)
EXTENDS GVOHub, Integers, FiniteSetTheorems, WellFoundedInduction,
        SequenceTheorems, TLAPS

USE TimeAssumption, NameAssumption

-----------------------------------------------------------------------------
(* The table of clients                                                    *)

LEMMA LeastNatural ==
    ASSUME NEW M \in SUBSET Nat, M # {}
    PROVE  \E x \in M : \A y \in M : x <= y
<1>1. PICK x \in M : \A y \in M : ~ (<<y, x>> \in OpToRel(<, Nat))
  BY WFMin, NatLessThanWellFounded
<1>2. \A y \in M : ~ (y < x)
  BY <1>1 DEF OpToRel
<1> QED BY <1>2

(* A table of n clients leaves one of n+1 references free.                 *)
LEMMA SomeReferenceIsFree ==
    ASSUME NEW S, NEW clients \in Seq(S)
    PROVE  \E n \in 0..Len(clients) : n \notin References(clients)
<1> DEFINE L == Len(clients)
           holder == [n \in 0..L |-> CHOOSE i \in 1..L : clients[i].reference = n]
<1>1. L \in Nat /\ DOMAIN clients = 1..L
  BY LenProperties
<1>2. SUFFICES ASSUME \A n \in 0..L : n \in References(clients)
               PROVE  FALSE
  OBVIOUS
<1>3. \A n \in 0..L : \E i \in 1..L : clients[i].reference = n
  BY <1>1, <1>2 DEF References
<1>4. \A n \in 0..L : holder[n] \in 1..L /\ clients[holder[n]].reference = n
  BY <1>3
<1>5. holder \in [0..L -> 1..L]
  BY <1>4
<1>6. /\ IsFiniteSet(0..L) /\ Cardinality(0..L) = L + 1
      /\ IsFiniteSet(1..L) /\ Cardinality(1..L) = L
  <2>1. IsFiniteSet(0..L) /\ Cardinality(0..L) = IF 0 > L THEN 0 ELSE L - 0 + 1
    BY <1>1, FS_Interval
  <2>2. IsFiniteSet(1..L) /\ Cardinality(1..L) = IF 1 > L THEN 0 ELSE L - 1 + 1
    BY <1>1, FS_Interval
  <2> QED BY <1>1, <2>1, <2>2
<1>7. Cardinality(1..L) < Cardinality(0..L)
  BY <1>1, <1>6
<1>8. \E x, y \in 0..L : x # y /\ holder[x] = holder[y]
  <2> HIDE DEF holder
  <2> QED BY <1>5, <1>6, <1>7, FS_PigeonHole
<1> QED BY <1>4, <1>8

(* The reference that a new client gets is one that nobody has.            *)
LEMMA NewReference ==
    ASSUME NEW S, NEW clients \in Seq(S)
    PROVE  /\ FreeReference(clients) \in 0..Len(clients)
           /\ FreeReference(clients) \notin References(clients)
<1> DEFINE free == {n \in 0..Len(clients) : n \notin References(clients)}
<1>1. Len(clients) \in Nat
  BY LenProperties
<1>2. free # {} /\ free \subseteq Nat
  BY <1>1, SomeReferenceIsFree
<1>3. PICK x \in free : \A y \in free : x <= y
  <2> HIDE DEF free
  <2> QED BY <1>2, LeastNatural
<1>6. \A m \in 0..(x - 1) : m \in References(clients)
  BY <1>1, <1>2, <1>3
<1>7. \E n \in 0..Len(clients) :
        n \notin References(clients) /\ \A m \in 0..(n - 1) : m \in References(clients)
  BY <1>6
<1>8. FreeReference(clients) \in 0..Len(clients)
      /\ FreeReference(clients) \notin References(clients)
  BY <1>7 DEF FreeReference
<1> QED BY <1>1, <1>8

(* get_client_index() finds a client with the key if there is one.         *)
LEMMA FirstWithKey ==
    ASSUME NEW S, NEW clients \in Seq(S), NEW key
    PROVE  /\ IndexOfKey(clients, key) \in 0..Len(clients)
           /\ IndexOfKey(clients, key) # 0 =>
                clients[IndexOfKey(clients, key)].private_key = key
           /\ (\E i \in 1..Len(clients) : clients[i].private_key = key) =>
                IndexOfKey(clients, key) # 0
<1> DEFINE match == {i \in 1..Len(clients) : clients[i].private_key = key}
<1>1. Len(clients) \in Nat
  BY LenProperties
<1>2. match \subseteq Nat
  BY <1>1
<1>4. match # {} => Min(match) \in match
  <2> HIDE DEF match
  <2> QED BY <1>2, LeastNatural DEF Min
<1>5. IndexOfKey(clients, key) = IF match # {} THEN Min(match) ELSE 0
  BY DEF IndexOfKey, SelectInSeq
<1> HIDE DEF match
<1>6. CASE match = {}
  <2>1. ~ \E i \in 1..Len(clients) : clients[i].private_key = key
    BY <1>6 DEF match
  <2> QED BY <1>1, <1>5, <1>6, <2>1
<1>7. CASE match # {}
  <2>1. IndexOfKey(clients, key) \in match
    BY <1>4, <1>5, <1>7
  <2> QED BY <1>1, <2>1 DEF match
<1> QED BY <1>6, <1>7

LEMMA FoundReference ==
    ASSUME NEW S, NEW clients \in Seq(S), NEW reference,
           IndexOfReference(clients, reference) # 0
    PROVE  /\ IndexOfReference(clients, reference) \in DOMAIN clients
           /\ clients[IndexOfReference(clients, reference)].reference = reference
<1> DEFINE match == {i \in 1..Len(clients) : clients[i].reference = reference}
<1>1. Len(clients) \in Nat /\ DOMAIN clients = 1..Len(clients)
  BY LenProperties
<1>2. match \subseteq Nat
  BY <1>1
<1>3. IndexOfReference(clients, reference) = IF match # {} THEN Min(match) ELSE 0
  BY DEF IndexOfReference, SelectInSeq
<1>4. match # {} => Min(match) \in match
  <2> HIDE DEF match
  <2> QED BY <1>2, LeastNatural DEF Min
<1> HIDE DEF match
<1>5. IndexOfReference(clients, reference) \in match
  BY <1>3, <1>4
<1> QED BY <1>1, <1>5 DEF match

(* What is left of a table when a client is erased.                        *)
LEMMA ErasedTable ==
    ASSUME NEW S, NEW clients \in Seq(S), NEW i \in 1..Len(clients)
    PROVE  /\ Erase(clients, i) \in Seq(S)
           /\ Len(Erase(clients, i)) = Len(clients) - 1
           /\ \A j \in 1..(Len(clients) - 1) :
                Erase(clients, i)[j] = clients[IF j < i THEN j ELSE j + 1]
<1> DEFINE L == Len(clients)
           front == SubSeq(clients, 1, i - 1)
           back  == SubSeq(clients, i + 1, L)
<1>1. L \in Nat /\ \A j \in 1..L : clients[j] \in S
  BY LenProperties, ElementOfSeq
<1>2. /\ front \in Seq(S) /\ Len(front) = i - 1
      /\ \A j \in 1..(i - 1) : front[j] = clients[j]
  <2>1. \A j \in 1..(i - 1) : clients[j] \in S
    BY <1>1
  <2>2. /\ front \in Seq(S)
        /\ Len(front) = IF 1 <= i - 1 THEN i - 1 - 1 + 1 ELSE 0
        /\ \A j \in 1..(i - 1 - 1 + 1) : front[j] = clients[1 + j - 1]
    BY <2>1, SubSeqProperties
  <2> QED BY <1>1, <2>2
<1>3. /\ back \in Seq(S) /\ Len(back) = L - i
      /\ \A j \in 1..(L - i) : back[j] = clients[i + j]
  <2>1. \A j \in (i + 1)..L : clients[j] \in S
    BY <1>1
  <2>2. /\ back \in Seq(S)
        /\ Len(back) = IF i + 1 <= L THEN L - (i + 1) + 1 ELSE 0
        /\ \A j \in 1..(L - (i + 1) + 1) : back[j] = clients[(i + 1) + j - 1]
    BY <1>1, <2>1, SubSeqProperties
  <2> QED BY <1>1, <2>2
<1>4. Erase(clients, i) = front \o back
  BY DEF Erase, RemoveAt
<1> HIDE DEF front, back
<1>5. /\ front \o back \in Seq(S)
      /\ Len(front \o back) = Len(front) + Len(back)
      /\ \A j \in 1..(Len(front) + Len(back)) : (front \o back)[j] =
            IF j <= Len(front) THEN front[j] ELSE back[j - Len(front)]
  <2>1. front \in Seq(S) /\ back \in Seq(S)
    BY <1>2, <1>3
  <2> QED BY <2>1, ConcatProperties
<1> QED BY <1>1, <1>2, <1>3, <1>4, <1>5

-----------------------------------------------------------------------------
(* What an agent is told changes its roster and nothing else.              *)

LEMMA RosterUpdates ==
    ASSUME NEW r \in Rosters, NEW id \in Ids, NEW name \in Names \cup {NoName, Unknown}
    PROVE  /\ WithName(r, id, name) \in Rosters
           /\ Without(r, id) \in Rosters
           /\ DOMAIN WithName(r, id, name) = DOMAIN r \cup {id}
           /\ DOMAIN Without(r, id) = DOMAIN r \ {id}
<1>1. PICK R \in SUBSET Ids : r \in [R -> Names \cup {NoName, Unknown}]
  BY DEF Rosters
<1>2. WithName(r, id, name) \in [R \cup {id} -> Names \cup {NoName, Unknown}]
  BY <1>1 DEF WithName
<1>3. Without(r, id) \in [R \ {id} -> Names \cup {NoName, Unknown}]
  BY <1>1 DEF Without
<1>4. R \cup {id} \in SUBSET Ids /\ R \ {id} \in SUBSET Ids
  OBVIOUS
<1>5. WithName(r, id, name) \in Rosters
  BY <1>2, <1>4 DEF Rosters
<1>6. Without(r, id) \in Rosters
  BY <1>3, <1>4 DEF Rosters
<1> QED BY <1>5, <1>6 DEF WithName, Without

LEMMA ToldAgent ==
    ASSUME TypeOK, NEW a \in Agents, NEW b \in Agents, NEW clients,
           NEW event \in Events, NEW id \in Ids,
           NEW name \in Names \cup {NoName, Unknown}
    PROVE  LET t == Told(a, b, clients, event, id, name)
           IN  /\ t \in Agent
               /\ t.key = agent[b].key /\ t.id = agent[b].id
               /\ t.heard = agent[b].heard /\ t.calls = agent[b].calls
               /\ t.follows = agent[b].follows
<1>1. agent[b] \in Agent /\ agent[b].roster \in Rosters
  BY DEF TypeOK, Agent
<1>2. /\ WithName(agent[b].roster, id, Unknown) \in Rosters
      /\ WithName(agent[b].roster, id, name) \in Rosters
      /\ Without(agent[b].roster, id) \in Rosters
  BY <1>1, RosterUpdates
<1> DEFINE next == CASE event = "register"   -> WithName(agent[b].roster, id, Unknown)
                     [] event = "unregister" -> Without(agent[b].roster, id)
                     [] event = "metadata"   -> IF id \in DOMAIN agent[b].roster
                                                THEN WithName(agent[b].roster, id, name)
                                                ELSE agent[b].roster
<1>3. next \in Rosters
  BY <1>1, <1>2 DEF Events
<1>4. \/ Told(a, b, clients, event, id, name) = agent[b]
      \/ Told(a, b, clients, event, id, name) = [agent[b] EXCEPT !.roster = next]
  BY DEF Told
<1> HIDE DEF next
<1> QED BY <1>1, <1>3, <1>4 DEF Agent

(* The client that a look-up by key finds is in the table.                 *)
LEMMA OwnEntry ==
    ASSUME TypeOK, NEW a \in Agents, Own(a) # 0
    PROVE  /\ Own(a) \in 1..Len(m_clients)
           /\ m_clients[Own(a)] \in Client
<1>1. Own(a) \in 1..Len(m_clients)
  BY FirstWithKey, LenProperties DEF Own, TypeOK
<1> QED BY <1>1, ElementOfSeq DEF TypeOK

LEMMA NotJoinedIsAgent == NotJoined \in Agent
<1>1. <<>> \in [{} -> Names \cup {NoName, Unknown}]
  OBVIOUS
<1>2. <<>> \in Rosters
  BY <1>1 DEF Rosters
<1> QED BY <1>2 DEF NotJoined, Agent, Ids, NoKey

-----------------------------------------------------------------------------
(* The types                                                               *)

LEMMA TypeInit == Init => TypeOK
<1> SUFFICES ASSUME Init
             PROVE  TypeOK
  OBVIOUS
<1>1. m_clients \in Seq(Client)
  BY EmptySeq DEF Init
<1>2. agent \in [Agents -> Agent]
  BY NotJoinedIsAgent DEF Init
<1>3. now \in 1..MaxTime
  BY DEF Init
<1>4. m_shutdown \in BOOLEAN
  BY DEF Init
<1> QED BY <1>1, <1>2, <1>3, <1>4 DEF TypeOK

LEMMA TypeStep == TypeOK /\ [Next]_vars => TypeOK'
<1> SUFFICES ASSUME TypeOK, [Next]_vars
             PROVE  TypeOK'
  OBVIOUS
<1>0. Len(m_clients) \in Nat
  BY LenProperties DEF TypeOK
<1>1. ASSUME NEW a \in Agents, Register(a)
      PROVE  TypeOK'
  <2>1. FreeReference(m_clients) \in Ids
    BY <1>0, <1>1, NewReference DEF Register, TypeOK, Ids
  <2> DEFINE new == [reference |-> FreeReference(m_clients),
                     private_key |-> random_string,
                     subscriptions |-> {}, url |-> NoUrl, name |-> NoName]
             joined == [NotJoined EXCEPT !.key = new.private_key, !.id = new.reference]
  <2>2. new \in Client
    BY <2>1 DEF TypeOK, Client, random_string
  <2>3. m_clients' \in Seq(Client)
    <3>1. m_clients' = Append(m_clients, new)
      BY <1>1 DEF Register
    <3> HIDE DEF new
    <3> QED BY <2>2, <3>1 DEF TypeOK
  <2>4. joined \in Agent
    <3>1. new.private_key \in 0..MaxTime /\ new.reference \in Ids
      BY <2>1 DEF TypeOK, random_string
    <3> HIDE DEF new
    <3> QED BY <3>1, NotJoinedIsAgent DEF Agent
  <2>5. agent' \in [Agents -> Agent]
    <3>1. agent' = [b \in Agents |->
             IF b = a THEN joined
             ELSE Told(a, b, m_clients', "register", FreeReference(m_clients), Unknown)]
      BY <1>1 DEF Register
    <3>2. ASSUME NEW b \in Agents
          PROVE  Told(a, b, m_clients', "register", FreeReference(m_clients), Unknown)
                    \in Agent
      BY <2>1, ToldAgent DEF Events
    <3> HIDE DEF joined
    <3> QED BY <2>4, <3>1, <3>2
  <2> QED BY <1>1, <2>3, <2>5 DEF Register, TypeOK
<1>2. ASSUME NEW a \in Agents, Unregister(a)
      PROVE  TypeOK'
  <2>1. CASE Own(a) = 0
    BY <1>2, <2>1, NotJoinedIsAgent DEF Unregister, TypeOK
  <2>2. CASE Own(a) # 0
    <3>1. Own(a) \in 1..Len(m_clients) /\ m_clients[Own(a)].reference \in Ids
      BY <2>2, OwnEntry DEF Client
    <3>2. m_clients' \in Seq(Client)
      BY <1>2, <2>2, <3>1, ErasedTable DEF Unregister, TypeOK
    <3>3. ASSUME NEW b \in Agents
          PROVE  Told(a, b, m_clients, "unregister",
                      m_clients[Own(a)].reference, NoName) \in Agent
      BY <3>1, ToldAgent DEF Events
    <3>4. agent' \in [Agents -> Agent]
      BY <1>2, <2>2, <3>3, NotJoinedIsAgent DEF Unregister, ToldOfLeave
    <3> QED BY <1>2, <3>2, <3>4 DEF Unregister, TypeOK
  <2> QED BY <2>1, <2>2
<1>3. ASSUME NEW a \in Agents, NEW name \in Names, DeclareMetadata(a, name)
      PROVE  TypeOK'
  <2>1. Own(a) \in 1..Len(m_clients) /\ m_clients[Own(a)] \in Client
    BY <1>3, OwnEntry DEF DeclareMetadata
  <2> DEFINE e == [m_clients[Own(a)] EXCEPT !.name = name]
  <2>2. e \in Client
    BY <2>1 DEF Client
  <2>3. m_clients' = [m_clients EXCEPT ![Own(a)] = e]
    BY <1>3 DEF DeclareMetadata
  <2>4. m_clients' \in Seq(Client) /\ m_clients'[Own(a)] \in Client
    <3> HIDE DEF e
    <3> QED BY <2>1, <2>2, <2>3, ExceptSeq DEF TypeOK
  <2>5. ASSUME NEW b \in Agents
        PROVE  Told(a, b, m_clients', "metadata", m_clients'[Own(a)].reference,
                    m_clients'[Own(a)].name) \in Agent
    <3>1. /\ m_clients'[Own(a)].reference \in Ids
          /\ m_clients'[Own(a)].name \in Names \cup {NoName, Unknown}
      BY <2>4 DEF Client
    <3> QED BY <3>1, ToldAgent DEF Events
  <2>6. agent' \in [Agents -> Agent]
    BY <1>3, <2>5 DEF DeclareMetadata, ToldOfName
  <2> QED BY <1>3, <2>4, <2>6 DEF DeclareMetadata, TypeOK
<1>4. ASSUME NEW a \in Agents, NEW events \in Declarations,
             DeclareSubscriptions(a, events)
      PROVE  TypeOK'
  <2>1. Own(a) \in 1..Len(m_clients) /\ m_clients[Own(a)] \in Client
    BY <1>4, OwnEntry DEF DeclareSubscriptions
  <2> DEFINE e == [m_clients[Own(a)] EXCEPT !.subscriptions = @ \cup events]
  <2>2. e \in Client
    BY <2>1 DEF Client
  <2>3. m_clients' = [m_clients EXCEPT ![Own(a)] = e]
    BY <1>4 DEF DeclareSubscriptions, AddSubscriptions
  <2>4. m_clients' \in Seq(Client)
    <3> HIDE DEF e
    <3> QED BY <2>1, <2>2, <2>3, ExceptSeq DEF TypeOK
  <2>5. agent' \in [Agents -> Agent]
    <3>1. agent' = [agent EXCEPT ![a].heard = @ \cup events]
      BY <1>4 DEF DeclareSubscriptions
    <3>2. agent \in [Agents -> Agent] /\ events \in SUBSET Events
      BY <1>4, TimeAssumption DEF TypeOK
    <3>3. [agent[a] EXCEPT !.heard = @ \cup events] \in Agent
      BY <3>2 DEF Agent
    <3> QED BY <3>1, <3>2, <3>3
  <2> QED BY <1>4, <2>4, <2>5 DEF DeclareSubscriptions, TypeOK
<1>5. ASSUME NEW a \in Agents, SetCallback(a)
      PROVE  TypeOK'
  <2>1. Own(a) \in 1..Len(m_clients) /\ m_clients[Own(a)] \in Client
    BY <1>5, OwnEntry DEF SetCallback
  <2> DEFINE e == [m_clients[Own(a)] EXCEPT !.url = a]
  <2>2. e \in Client
    BY <2>1 DEF Client
  <2>3. m_clients' = [m_clients EXCEPT ![Own(a)] = e]
    BY <1>5 DEF SetCallback
  <2>4. m_clients' \in Seq(Client)
    <3> HIDE DEF e
    <3> QED BY <2>1, <2>2, <2>3, ExceptSeq DEF TypeOK
  <2>5. agent' \in [Agents -> Agent]
    <3>1. agent' = [agent EXCEPT ![a] = [agent[a] EXCEPT !.calls = TRUE]]
      BY <1>5 DEF SetCallback
    <3>2. agent[a] \in Agent /\ agent \in [Agents -> Agent]
      BY DEF TypeOK
    <3>3. [agent[a] EXCEPT !.calls = TRUE] \in Agent
      BY <3>2 DEF Agent
    <3> QED BY <3>1, <3>2, <3>3
  <2> QED BY <1>5, <2>4, <2>5 DEF SetCallback, TypeOK
<1>6. ASSUME NEW a \in Agents, GetRegisteredClients(a)
      PROVE  TypeOK'
  <2> DEFINE R == OtherClients(agent[a].key)
  <2>1. R \subseteq Ids
    <3>1. \A i \in DOMAIN m_clients : m_clients[i] \in Client
      BY LenProperties, ElementOfSeq DEF TypeOK
    <3> QED BY <3>1 DEF OtherClients, Client
  <2>2. [r \in R |-> Unknown] \in [R -> Names \cup {NoName, Unknown}]
    OBVIOUS
  <2>3. [r \in R |-> Unknown] \in Rosters
    <3> HIDE DEF R
    <3> QED BY <2>1, <2>2 DEF Rosters
  <2>4. agent' \in [Agents -> Agent]
    <3> DEFINE t == [agent[a] EXCEPT !.follows = TRUE,
                                     !.roster = [r \in R |-> Unknown]]
    <3>1. agent[a] \in Agent /\ agent \in [Agents -> Agent]
      BY DEF TypeOK
    <3>2. agent' = [agent EXCEPT ![a] = t]
      BY <1>6, <3>1 DEF GetRegisteredClients
    <3>3. t \in Agent
      <4> HIDE DEF R
      <4> QED BY <2>3, <3>1 DEF Agent
    <3> HIDE DEF t
    <3> QED BY <3>1, <3>2, <3>3
  <2> QED BY <1>6, <2>4 DEF GetRegisteredClients, TypeOK
<1>7. ASSUME NEW a \in Agents, NEW id \in DOMAIN agent[a].roster, GetMetadata(a, id)
      PROVE  TypeOK'
  <2> DEFINE i == IndexOfReference(m_clients, id)
  <2>1. id \in Ids
    BY DEF TypeOK, Agent, Rosters
  <2>2. agent[a].roster \in Rosters /\ agent \in [Agents -> Agent]
    BY DEF TypeOK, Agent
  <2>3. i \in DOMAIN m_clients
    BY <1>7, FoundReference DEF GetMetadata, TypeOK
  <2>4. m_clients[i].name \in Names \cup {NoName, Unknown}
    <3>1. i \in 1..Len(m_clients)
      BY <2>3, LenProperties DEF TypeOK
    <3>2. m_clients[i] \in Client
      <4> HIDE DEF i
      <4> QED BY <3>1, ElementOfSeq DEF TypeOK
    <3> HIDE DEF i
    <3> QED BY <3>2 DEF Client
  <2>5. WithName(agent[a].roster, id, m_clients[i].name) \in Rosters
    BY <2>1, <2>2, <2>4, RosterUpdates
  <2>6. agent' \in [Agents -> Agent]
    BY <1>7, <2>2, <2>5 DEF GetMetadata, Agent
  <2> QED BY <1>7, <2>6 DEF GetMetadata, TypeOK
<1>8. CASE Shutdown
  BY <1>8 DEF Shutdown, TypeOK
<1>9. CASE Tick
  BY <1>9 DEF Tick, TypeOK
<1>10. CASE UNCHANGED vars
  BY <1>10 DEF vars, TypeOK
<1> QED BY <1>1, <1>2, <1>3, <1>4, <1>5, <1>6, <1>7, <1>8, <1>9, <1>10 DEF Next

(* The variables of the hub and of its agents have their types.            *)
THEOREM TypeCorrect == Spec => []TypeOK
BY TypeInit, TypeStep, PTL DEF Spec
-----------------------------------------------------------------------------
(* References                                                              *)

(* The entry of a is replaced by one that has the same reference and key,  *)
(* and nothing else happens to the table.                                  *)
Rewrites(a) ==
    /\ Own(a) # 0
    /\ \E e \in Client :
          /\ e.reference = m_clients[Own(a)].reference
          /\ e.private_key = m_clients[Own(a)].private_key
          /\ m_clients' = [m_clients EXCEPT ![Own(a)] = e]

LEMMA DeclarationsRewrite ==
    ASSUME TypeOK, NEW a \in Agents,
           \/ \E name \in Names : DeclareMetadata(a, name)
           \/ \E events \in Declarations : DeclareSubscriptions(a, events)
           \/ SetCallback(a)
    PROVE  Rewrites(a)
<1>1. Own(a) # 0
  BY DEF DeclareMetadata, DeclareSubscriptions, SetCallback
<1>2. Own(a) \in 1..Len(m_clients) /\ m_clients[Own(a)] \in Client
  BY <1>1, OwnEntry
<1>3. CASE \E name \in Names : DeclareMetadata(a, name)
  <2>1. PICK name \in Names : DeclareMetadata(a, name)
    BY <1>3
  <2> DEFINE e == [m_clients[Own(a)] EXCEPT !.name = name]
  <2>2. /\ e \in Client
        /\ e.reference = m_clients[Own(a)].reference
        /\ e.private_key = m_clients[Own(a)].private_key
    BY <1>2 DEF Client
  <2>3. m_clients' = [m_clients EXCEPT ![Own(a)] = e]
    BY <2>1 DEF DeclareMetadata
  <2> HIDE DEF e
  <2> QED BY <1>1, <2>2, <2>3 DEF Rewrites
<1>4. CASE \E events \in Declarations : DeclareSubscriptions(a, events)
  <2>1. PICK events \in Declarations : DeclareSubscriptions(a, events)
    BY <1>4
  <2> DEFINE e == [m_clients[Own(a)] EXCEPT !.subscriptions = @ \cup events]
  <2>2. /\ e \in Client
        /\ e.reference = m_clients[Own(a)].reference
        /\ e.private_key = m_clients[Own(a)].private_key
    BY <1>2 DEF Client
  <2>3. m_clients' = [m_clients EXCEPT ![Own(a)] = e]
    BY <2>1 DEF DeclareSubscriptions, AddSubscriptions
  <2> HIDE DEF e
  <2> QED BY <1>1, <2>2, <2>3 DEF Rewrites
<1>5. CASE SetCallback(a)
  <2> DEFINE e == [m_clients[Own(a)] EXCEPT !.url = a]
  <2>2. /\ e \in Client
        /\ e.reference = m_clients[Own(a)].reference
        /\ e.private_key = m_clients[Own(a)].private_key
    BY <1>2 DEF Client
  <2>3. m_clients' = [m_clients EXCEPT ![Own(a)] = e]
    BY <1>5 DEF SetCallback
  <2> HIDE DEF e
  <2> QED BY <1>1, <2>2, <2>3 DEF Rewrites
<1> QED BY <1>3, <1>4, <1>5

(* What a rewrite leaves as it was.                                        *)
LEMMA Rewritten ==
    ASSUME TypeOK, NEW a \in Agents, Rewrites(a)
    PROVE  /\ Len(m_clients') = Len(m_clients)
           /\ DOMAIN m_clients' = DOMAIN m_clients
           /\ \A i \in DOMAIN m_clients :
                /\ m_clients'[i].reference = m_clients[i].reference
                /\ m_clients'[i].private_key = m_clients[i].private_key
                /\ i # Own(a) => m_clients'[i] = m_clients[i]
           /\ References(m_clients') = References(m_clients)
<1>1. Own(a) \in 1..Len(m_clients)
  BY OwnEntry DEF Rewrites
<1>2. PICK e \in Client :
          /\ e.reference = m_clients[Own(a)].reference
          /\ e.private_key = m_clients[Own(a)].private_key
          /\ m_clients' = [m_clients EXCEPT ![Own(a)] = e]
  BY DEF Rewrites
<1>3. /\ m_clients' \in Seq(Client)
      /\ Len(m_clients') = Len(m_clients)
      /\ \A j \in 1..Len(m_clients) :
            m_clients'[j] = IF j = Own(a) THEN e ELSE m_clients[j]
  BY <1>1, <1>2, ExceptSeq DEF TypeOK
<1>4. DOMAIN m_clients = 1..Len(m_clients) /\ DOMAIN m_clients' = 1..Len(m_clients')
  BY <1>3, LenProperties DEF TypeOK
<1>5. \A i \in DOMAIN m_clients :
                /\ m_clients'[i].reference = m_clients[i].reference
                /\ m_clients'[i].private_key = m_clients[i].private_key
                /\ i # Own(a) => m_clients'[i] = m_clients[i]
  BY <1>1, <1>2, <1>3, <1>4
<1>6. References(m_clients') = References(m_clients)
  BY <1>3, <1>4, <1>5 DEF References
<1> QED BY <1>3, <1>4, <1>5, <1>6

(* What registration does to the table.                                    *)
LEMMA RegisteredTable ==
    ASSUME TypeOK, NEW a \in Agents, Register(a)
    PROVE  LET L == Len(m_clients)
           IN  /\ L \in Nat
               /\ DOMAIN m_clients = 1..L /\ DOMAIN m_clients' = 1..(L + 1)
               /\ \A i \in 1..L : m_clients'[i] = m_clients[i]
               /\ m_clients'[L + 1] = [reference     |-> FreeReference(m_clients),
                                       private_key   |-> now,
                                       subscriptions |-> {},
                                       url           |-> NoUrl,
                                       name          |-> NoName]
               /\ FreeReference(m_clients) \in 0..L
               /\ FreeReference(m_clients) \notin References(m_clients)
<1> DEFINE new == [reference |-> FreeReference(m_clients),
                   private_key |-> now,
                   subscriptions |-> {}, url |-> NoUrl, name |-> NoName]
<1>1. Len(m_clients) \in Nat /\ DOMAIN m_clients = 1..Len(m_clients)
  BY LenProperties DEF TypeOK
<1>2. m_clients' = Append(m_clients, new)
  BY DEF Register, random_string
<1>3. /\ FreeReference(m_clients) \in 0..Len(m_clients)
      /\ FreeReference(m_clients) \notin References(m_clients)
  BY NewReference DEF TypeOK
<1>4. /\ DOMAIN m_clients' = 1..(Len(m_clients) + 1)
      /\ \A i \in 1..Len(m_clients) : m_clients'[i] = m_clients[i]
      /\ m_clients'[Len(m_clients) + 1] = new
  <2> HIDE DEF new
  <2> QED BY <1>1, <1>2 DEF TypeOK
<1> QED BY <1>1, <1>3, <1>4

LEMMA ReferencesStep ==
    TypeOK /\ ReferencesUnique /\ [Next]_vars => ReferencesUnique'
<1> SUFFICES ASSUME TypeOK, ReferencesUnique, [Next]_vars
             PROVE  ReferencesUnique'
  OBVIOUS
<1>1. ASSUME NEW a \in Agents, Register(a)
      PROVE  ReferencesUnique'
  <2>1. \A i \in 1..Len(m_clients) :
           m_clients'[i].reference \in References(m_clients)
    BY <1>1, RegisteredTable DEF References
  <2> QED BY <1>1, <2>1, RegisteredTable DEF ReferencesUnique
<1>2. ASSUME NEW a \in Agents, Unregister(a)
      PROVE  ReferencesUnique'
  <2>1. CASE Own(a) = 0
    BY <1>2, <2>1 DEF Unregister, ReferencesUnique
  <2>2. CASE Own(a) # 0
    <3>1. Own(a) \in 1..Len(m_clients)
      BY <2>2, OwnEntry
    <3>2. m_clients' = Erase(m_clients, Own(a))
      BY <1>2, <2>2 DEF Unregister
    <3>3. /\ m_clients' \in Seq(Client)
          /\ Len(m_clients') = Len(m_clients) - 1
          /\ \A j \in 1..(Len(m_clients) - 1) :
                m_clients'[j] = m_clients[IF j < Own(a) THEN j ELSE j + 1]
      BY <3>1, <3>2, ErasedTable DEF TypeOK
    <3>4. /\ Len(m_clients) \in Nat /\ DOMAIN m_clients = 1..Len(m_clients)
          /\ DOMAIN m_clients' = 1..(Len(m_clients) - 1)
      BY <3>3, LenProperties DEF TypeOK
    <3> DEFINE old == [j \in DOMAIN m_clients' |-> IF j < Own(a) THEN j ELSE j + 1]
    <3>5. \A j \in DOMAIN m_clients' :
             old[j] \in DOMAIN m_clients /\ m_clients'[j] = m_clients[old[j]]
      BY <3>1, <3>3, <3>4
    <3>6. \A i, j \in DOMAIN m_clients' : i # j => old[i] # old[j]
      BY <3>1, <3>4
    <3> HIDE DEF old
    <3> QED BY <3>5, <3>6 DEF ReferencesUnique
  <2> QED BY <2>1, <2>2
<1>3. ASSUME NEW a \in Agents, Rewrites(a)
      PROVE  ReferencesUnique'
  BY <1>3, Rewritten DEF ReferencesUnique
<1>4. CASE UNCHANGED m_clients
  BY <1>4 DEF ReferencesUnique
<1>5. ASSUME NEW a \in Agents,
             \/ \E name \in Names : DeclareMetadata(a, name)
             \/ \E events \in Declarations : DeclareSubscriptions(a, events)
             \/ SetCallback(a)
      PROVE  ReferencesUnique'
  BY <1>3, <1>5, DeclarationsRewrite
<1> QED BY <1>1, <1>2, <1>4, <1>5
        DEF Next, GetRegisteredClients, GetMetadata, Shutdown, Tick, vars

(* No two clients of a hub share a reference, although private keys may be *)
(* shared, and although references are given again.                        *)
THEOREM ReferencesStayUnique == Spec => []ReferencesUnique
<1>1. Init => ReferencesUnique
  BY DEF Init, ReferencesUnique
<1>2. TypeOK /\ ReferencesUnique /\ [Next]_vars => ReferencesUnique'
  BY ReferencesStep
<1> QED BY <1>1, <1>2, TypeCorrect, PTL DEF Spec
-----------------------------------------------------------------------------
(* Keys, entries and rosters                                               *)

(* The fields of an agent that no notification changes.                    *)
SameAgent(b) ==
    /\ agent'[b].key = agent[b].key /\ agent'[b].id = agent[b].id
    /\ agent'[b].heard = agent[b].heard /\ agent'[b].calls = agent[b].calls
    /\ agent'[b].follows = agent[b].follows

(* The agents after each of the requests.                                  *)
LEMMA AfterRegister ==
    ASSUME TypeOK, NEW a \in Agents, Register(a)
    PROVE  /\ agent'[a] = [NotJoined EXCEPT !.key = now, !.id = FreeReference(m_clients)]
           /\ \A b \in Agents \ {a} :
                /\ SameAgent(b)
                /\ agent'[b] = Told(a, b, m_clients', "register",
                                    FreeReference(m_clients), Unknown)
<1>1. FreeReference(m_clients) \in Ids
  BY RegisteredTable DEF Register, Ids
<1>2. \A b \in Agents \ {a} :
        agent'[b] = Told(a, b, m_clients', "register", FreeReference(m_clients), Unknown)
  BY DEF Register
<1>3. agent'[a] = [NotJoined EXCEPT !.key = now, !.id = FreeReference(m_clients)]
  BY DEF Register, random_string
<1>4. ASSUME NEW b \in Agents \ {a}
      PROVE  SameAgent(b)
  BY <1>1, <1>2, ToldAgent DEF SameAgent, Events
<1> QED BY <1>2, <1>3, <1>4

LEMMA AfterUnregister ==
    ASSUME TypeOK, NEW a \in Agents, Unregister(a), Own(a) # 0
    PROVE  /\ agent'[a] = NotJoined
           /\ m_clients[Own(a)].reference \in Ids
           /\ \A b \in Agents \ {a} :
                /\ SameAgent(b)
                /\ agent'[b] = Told(a, b, m_clients, "unregister",
                                    m_clients[Own(a)].reference, NoName)
<1>1. m_clients[Own(a)].reference \in Ids
  BY OwnEntry DEF Client
<1>2. /\ agent'[a] = NotJoined
      /\ \A b \in Agents \ {a} :
           agent'[b] = Told(a, b, m_clients, "unregister",
                            m_clients[Own(a)].reference, NoName)
  BY DEF Unregister, ToldOfLeave
<1>3. ASSUME NEW b \in Agents \ {a}
      PROVE  SameAgent(b)
  BY <1>1, <1>2, ToldAgent DEF SameAgent, Events
<1> QED BY <1>1, <1>2, <1>3

LEMMA AfterMetadata ==
    ASSUME TypeOK, NEW a \in Agents, NEW name \in Names, DeclareMetadata(a, name)
    PROVE  \A b \in Agents :
              SameAgent(b) /\ DOMAIN agent'[b].roster = DOMAIN agent[b].roster
<1> DEFINE e == m_clients'[Own(a)]
<1>1. Own(a) \in 1..Len(m_clients) /\ m_clients[Own(a)] \in Client
  BY OwnEntry DEF DeclareMetadata
<1>2. e.reference \in Ids /\ e.name \in Names \cup {NoName, Unknown}
  <2>1. e = [m_clients[Own(a)] EXCEPT !.name = name]
    BY <1>1, LenProperties DEF DeclareMetadata, TypeOK
  <2> QED BY <1>1, <2>1 DEF Client
<1>3. ASSUME NEW b \in Agents
      PROVE  SameAgent(b) /\ DOMAIN agent'[b].roster = DOMAIN agent[b].roster
  <2>1. agent'[b] = Told(a, b, m_clients', "metadata", e.reference, e.name)
    BY DEF DeclareMetadata, ToldOfName
  <2>2. agent[b] \in Agent /\ agent[b].roster \in Rosters
    BY DEF TypeOK, Agent
  <2> HIDE DEF e
  <2>3. SameAgent(b)
    BY <1>2, <2>1, ToldAgent DEF SameAgent, Events
  <2>4. e.reference \in DOMAIN agent[b].roster =>
          DOMAIN WithName(agent[b].roster, e.reference, e.name) = DOMAIN agent[b].roster
    BY DEF WithName
  <2>5. \/ agent'[b].roster = agent[b].roster
        \/ /\ e.reference \in DOMAIN agent[b].roster
           /\ agent'[b].roster = WithName(agent[b].roster, e.reference, e.name)
    BY <2>1, <2>2 DEF Told, Agent
  <2> QED BY <2>3, <2>4, <2>5
<1> QED BY <1>3

(* An agent whose entry is its own hears every event.                      *)
LEMMA Hearing ==
    ASSUME NEW b \in Agents, agent[b].follows, NEW clients, NEW event,
           NEW i \in DOMAIN clients,
           clients[i].url = b, clients[i].private_key = agent[b].key,
           event \in clients[i].subscriptions
    PROVE  Hears(b, clients, event)
BY DEF Hears, Recipients

(* The look-up finds the home of an agent.                                 *)
LEMMA OwnIsHome ==
    ASSUME TypeOK, KeysApart, EveryoneHasAHome, NEW a \in Agents, Joined(a)
    PROVE  /\ Own(a) # 0
           /\ Own(a) \in DOMAIN m_clients
           /\ Own(a) \in 1..Len(m_clients)
           /\ Home(a, Own(a))
<1>1. PICK i \in DOMAIN m_clients : Home(a, i)
  BY DEF EveryoneHasAHome
<1>2. DOMAIN m_clients = 1..Len(m_clients) /\ Len(m_clients) \in Nat
  BY LenProperties DEF TypeOK
<1>3. /\ Own(a) \in 1..Len(m_clients)
      /\ Own(a) # 0
      /\ m_clients[Own(a)].private_key = agent[a].key
  BY <1>1, <1>2, FirstWithKey DEF Own, TypeOK, Home
<1>4. Own(a) = i
  BY <1>1, <1>2, <1>3 DEF KeysApart, Home
<1> QED BY <1>1, <1>2, <1>3, <1>4

LEMMA FollowersStep ==
    TypeOK /\ FollowersListen /\ [Next]_vars => FollowersListen'
<1> SUFFICES ASSUME TypeOK, FollowersListen, [Next]_vars
             PROVE  FollowersListen'
  OBVIOUS
<1> USE DEF FollowersListen, Joined, Subscribed, NotJoined, SameAgent
<1>1. ASSUME NEW a \in Agents, Register(a)
      PROVE  FollowersListen'
  <2>1. ~agent'[a].follows
    BY <1>1, AfterRegister
  <2>2. \A b \in Agents \ {a} : SameAgent(b)
    BY <1>1, AfterRegister
  <2> QED BY <2>1, <2>2
<1>2. ASSUME NEW a \in Agents, Unregister(a)
      PROVE  FollowersListen'
  <2>1. CASE Own(a) = 0
    BY <1>2, <2>1 DEF Unregister, TypeOK
  <2>2. CASE Own(a) # 0
    BY <1>2, <2>2, AfterUnregister
  <2> QED BY <2>1, <2>2
<1>3. ASSUME NEW a \in Agents, NEW name \in Names, DeclareMetadata(a, name)
      PROVE  FollowersListen'
  BY <1>3, AfterMetadata
<1>4. ASSUME NEW a \in Agents, NEW events \in Declarations,
             DeclareSubscriptions(a, events)
      PROVE  FollowersListen'
  BY <1>4 DEF DeclareSubscriptions, TypeOK, Agent
<1>5. ASSUME NEW a \in Agents, SetCallback(a)
      PROVE  FollowersListen'
  BY <1>5 DEF SetCallback, TypeOK, Agent
<1>6. ASSUME NEW a \in Agents, GetRegisteredClients(a)
      PROVE  FollowersListen'
  BY <1>6 DEF GetRegisteredClients, TypeOK, Agent
<1>7. ASSUME NEW a \in Agents, NEW id \in DOMAIN agent[a].roster, GetMetadata(a, id)
      PROVE  FollowersListen'
  BY <1>7 DEF GetMetadata, TypeOK, Agent
<1>8. CASE UNCHANGED agent
  BY <1>8
<1> QED BY <1>1, <1>2, <1>3, <1>4, <1>5, <1>6, <1>7, <1>8
        DEF Next, Shutdown, Tick, vars

(* The table after the client of a is erased.                              *)
LEMMA AfterErase ==
    ASSUME TypeOK, NEW a \in Agents, Unregister(a), Own(a) # 0
    PROVE  LET L == Len(m_clients)
           IN  /\ L \in Nat
               /\ Own(a) \in 1..L
               /\ DOMAIN m_clients = 1..L /\ DOMAIN m_clients' = 1..(L - 1)
               /\ \A j \in 1..(L - 1) :
                     m_clients'[j] = m_clients[IF j < Own(a) THEN j ELSE j + 1]
               /\ \A i \in 1..L : i # Own(a) =>
                     \E j \in 1..(L - 1) : m_clients'[j] = m_clients[i]
<1>1. Own(a) \in 1..Len(m_clients)
  BY OwnEntry
<1>2. m_clients' = Erase(m_clients, Own(a))
  BY DEF Unregister
<1>3. /\ m_clients' \in Seq(Client)
      /\ Len(m_clients') = Len(m_clients) - 1
      /\ \A j \in 1..(Len(m_clients) - 1) :
            m_clients'[j] = m_clients[IF j < Own(a) THEN j ELSE j + 1]
  BY <1>1, <1>2, ErasedTable DEF TypeOK
<1>4. /\ Len(m_clients) \in Nat /\ DOMAIN m_clients = 1..Len(m_clients)
      /\ DOMAIN m_clients' = 1..(Len(m_clients) - 1)
  BY <1>3, LenProperties DEF TypeOK
<1>5. ASSUME NEW i \in 1..Len(m_clients), i # Own(a)
      PROVE  \E j \in 1..(Len(m_clients) - 1) : m_clients'[j] = m_clients[i]
  <2>1. CASE i < Own(a)
    <3>1. i \in 1..(Len(m_clients) - 1)
      BY <1>1, <1>4, <2>1
    <3> QED BY <1>3, <2>1, <3>1
  <2>2. CASE i > Own(a)
    <3>1. i - 1 \in 1..(Len(m_clients) - 1) /\ ~(i - 1 < Own(a)) /\ (i - 1) + 1 = i
      BY <1>1, <1>4, <2>2
    <3> QED BY <1>3, <3>1
  <2> QED BY <1>1, <1>4, <1>5, <2>1, <2>2
<1> QED BY <1>1, <1>3, <1>4, <1>5

(* Requests other than register and unregister leave every agent its       *)
(* registration.                                                           *)
KeysKept == \A b \in Agents : /\ agent'[b].key = agent[b].key
                              /\ agent'[b].id = agent[b].id

LEMMA OtherRequestsKeepKeys ==
    ASSUME TypeOK, NEW a \in Agents,
           \/ \E name \in Names : DeclareMetadata(a, name)
           \/ \E events \in Declarations : DeclareSubscriptions(a, events)
           \/ SetCallback(a)
           \/ GetRegisteredClients(a)
           \/ \E id \in DOMAIN agent[a].roster : GetMetadata(a, id)
           \/ UNCHANGED agent
    PROVE  KeysKept
<1>1. ASSUME NEW name \in Names, DeclareMetadata(a, name)
      PROVE  KeysKept
  BY <1>1, AfterMetadata DEF SameAgent, KeysKept
<1>2. ASSUME NEW events \in Declarations, DeclareSubscriptions(a, events)
      PROVE  KeysKept
  BY <1>2 DEF DeclareSubscriptions, KeysKept, TypeOK, Agent
<1>3. CASE SetCallback(a)
  BY <1>3 DEF SetCallback, KeysKept, TypeOK, Agent
<1>4. CASE GetRegisteredClients(a)
  BY <1>4 DEF GetRegisteredClients, KeysKept, TypeOK, Agent
<1>5. ASSUME NEW id \in DOMAIN agent[a].roster, GetMetadata(a, id)
      PROVE  KeysKept
  BY <1>5 DEF GetMetadata, KeysKept, TypeOK, Agent
<1>6. CASE UNCHANGED agent
  BY <1>6 DEF KeysKept
<1> QED BY <1>1, <1>2, <1>3, <1>4, <1>5, <1>6

LEMMA KeysStep ==
    TypeOK /\ KeysApart /\ EveryoneHasAHome /\ OnePerSecond /\ [Next]_vars
        => KeysApart'
<1> SUFFICES ASSUME TypeOK, KeysApart, EveryoneHasAHome, OnePerSecond, [Next]_vars
             PROVE  KeysApart'
  OBVIOUS
<1>1. ASSUME NEW a \in Agents, Register(a)
      PROVE  KeysApart'
  <2>1. \A i \in DOMAIN m_clients : m_clients[i].private_key # now
    BY <1>1 DEF Register, random_string
  <2>2. \A b \in Agents \ {a} : Joined(b) => agent[b].key # now
    BY <2>1 DEF EveryoneHasAHome, Home
  <2>3. agent'[a].key = now /\ \A b \in Agents \ {a} : agent'[b].key = agent[b].key
    BY <1>1, AfterRegister DEF SameAgent, NotJoined
  <2>4. \A b, c \in Agents :
           agent'[b].key # NoKey /\ agent'[b].key = agent'[c].key => b = c
    BY <2>2, <2>3 DEF KeysApart, Joined
  <2>5. \A i, j \in DOMAIN m_clients' :
           m_clients'[i].private_key = m_clients'[j].private_key => i = j
    BY <1>1, <2>1, RegisteredTable DEF KeysApart
  <2> QED BY <2>4, <2>5 DEF KeysApart, Joined
<1>2. ASSUME NEW a \in Agents, Unregister(a)
      PROVE  KeysApart'
  <2>1. Own(a) # 0
    BY <1>2, OwnIsHome DEF Unregister
  <2>2. agent'[a].key = NoKey /\ \A b \in Agents \ {a} : agent'[b].key = agent[b].key
    BY <1>2, <2>1, AfterUnregister DEF SameAgent, NotJoined
  <2>3. \A i, j \in DOMAIN m_clients' :
           m_clients'[i].private_key = m_clients'[j].private_key => i = j
    <3>1. PICK o \in DOMAIN m_clients : o = Own(a)
      BY <1>2, <2>1, AfterErase
    <3>2. /\ Len(m_clients) \in Nat /\ o \in 1..Len(m_clients)
          /\ DOMAIN m_clients = 1..Len(m_clients)
          /\ DOMAIN m_clients' = 1..(Len(m_clients) - 1)
          /\ \A j \in 1..(Len(m_clients) - 1) :
                m_clients'[j] = m_clients[IF j < o THEN j ELSE j + 1]
      BY <1>2, <2>1, <3>1, AfterErase
    <3>3. ASSUME NEW i \in DOMAIN m_clients', NEW j \in DOMAIN m_clients',
                 m_clients'[i].private_key = m_clients'[j].private_key
          PROVE  i = j
      <4> DEFINE was(k) == IF k < o THEN k ELSE k + 1
      <4>1. was(i) \in DOMAIN m_clients /\ was(j) \in DOMAIN m_clients
        BY <3>2
      <4>2. m_clients'[i] = m_clients[was(i)] /\ m_clients'[j] = m_clients[was(j)]
        BY <3>2
      <4>3. was(i) = was(j)
        <5> HIDE DEF was
        <5> QED BY <3>3, <4>1, <4>2 DEF KeysApart
      <4> QED BY <3>2, <4>3
    <3> QED BY <3>3
  <2> QED BY <2>2, <2>3 DEF KeysApart, Joined
<1>3. ASSUME KeysKept,
             UNCHANGED m_clients \/ \E a \in Agents : Rewrites(a)
      PROVE  KeysApart'
  <2>1. \A i, j \in DOMAIN m_clients' :
           m_clients'[i].private_key = m_clients'[j].private_key => i = j
    BY <1>3, Rewritten DEF KeysApart
  <2> QED BY <1>3, <2>1 DEF KeysApart, Joined, KeysKept
<1>4. ASSUME NEW a \in Agents,
             \/ \E name \in Names : DeclareMetadata(a, name)
             \/ \E events \in Declarations : DeclareSubscriptions(a, events)
             \/ SetCallback(a)
      PROVE  KeysApart'
  BY <1>3, <1>4, OtherRequestsKeepKeys, DeclarationsRewrite
<1>5. ASSUME NEW a \in Agents,
             GetRegisteredClients(a) \/ \E id \in DOMAIN agent[a].roster : GetMetadata(a, id)
      PROVE  KeysApart'
  <2>1. UNCHANGED m_clients
    BY <1>5 DEF GetRegisteredClients, GetMetadata
  <2> QED BY <1>3, <1>5, <2>1, OtherRequestsKeepKeys
<1>6. CASE UNCHANGED <<m_clients, agent>>
  BY <1>3, <1>6 DEF KeysKept
<1> QED BY <1>1, <1>2, <1>4, <1>5, <1>6 DEF Next, Shutdown, Tick, vars

LEMMA HomesStep ==
    TypeOK /\ KeysApart /\ EveryoneHasAHome /\ [Next]_vars => EveryoneHasAHome'
<1> SUFFICES ASSUME TypeOK, KeysApart, EveryoneHasAHome, [Next]_vars
             PROVE  EveryoneHasAHome'
  OBVIOUS
<1> USE DEF EveryoneHasAHome, Joined
<1>1. ASSUME NEW a \in Agents, Register(a)
      PROVE  EveryoneHasAHome'
  <2>1. PICK l \in DOMAIN m_clients' : l = Len(m_clients) + 1
    BY <1>1, RegisteredTable
  <2>3. Home(a, l)'
    <3>1. /\ m_clients'[l].private_key = now
          /\ m_clients'[l].reference = FreeReference(m_clients)
          /\ m_clients'[l].subscriptions = {}
          /\ m_clients'[l].url = NoUrl
      BY <1>1, <2>1, RegisteredTable
    <3>2. /\ agent'[a].key = now
          /\ agent'[a].id = FreeReference(m_clients)
          /\ agent'[a].heard = {}
          /\ agent'[a].calls = FALSE
      BY <1>1, AfterRegister DEF NotJoined
    <3> QED BY <3>1, <3>2 DEF Home
  <2>2. ASSUME NEW b \in Agents \ {a}, agent'[b].key # NoKey
        PROVE  \E i \in DOMAIN m_clients' : Home(b, i)'
    <3>1. SameAgent(b)
      BY <1>1, AfterRegister
    <3>2. PICK i \in DOMAIN m_clients : Home(b, i)
      BY <2>2, <3>1 DEF SameAgent
    <3>3. i \in DOMAIN m_clients' /\ m_clients'[i] = m_clients[i]
      BY <1>1, RegisteredTable
    <3> QED BY <3>1, <3>2, <3>3 DEF Home, SameAgent
  <2> QED BY <2>2, <2>3
<1>2. ASSUME NEW a \in Agents, Unregister(a)
      PROVE  EveryoneHasAHome'
  <2>1. Own(a) # 0 /\ Joined(a) /\ Home(a, Own(a))
    BY <1>2, OwnIsHome DEF Unregister
  <2>2. agent'[a].key = NoKey
    BY <1>2, <2>1, AfterUnregister DEF NotJoined
  <2>3. ASSUME NEW b \in Agents \ {a}, agent'[b].key # NoKey
        PROVE  \E i \in DOMAIN m_clients' : Home(b, i)'
    <3>1. SameAgent(b)
      BY <1>2, <2>1, AfterUnregister
    <3>2. PICK i \in DOMAIN m_clients : Home(b, i)
      BY <2>3, <3>1 DEF SameAgent
    <3>3. i # Own(a)
      BY <2>1, <2>3, <3>2 DEF KeysApart, Home
    <3>4. PICK j \in DOMAIN m_clients' : m_clients'[j] = m_clients[i]
      BY <1>2, <2>1, <3>2, <3>3, AfterErase
    <3> QED BY <3>1, <3>2, <3>4 DEF Home, SameAgent
  <2> QED BY <2>2, <2>3
<1>3. ASSUME NEW a \in Agents, NEW name \in Names, DeclareMetadata(a, name)
      PROVE  EveryoneHasAHome'
  <2>1. \A b \in Agents : SameAgent(b)
    BY <1>3, AfterMetadata
  <2>2. /\ Own(a) \in 1..Len(m_clients) /\ DOMAIN m_clients = 1..Len(m_clients)
        /\ m_clients[Own(a)] \in Client
    BY <1>3, OwnEntry, LenProperties DEF DeclareMetadata, TypeOK
  <2>3. m_clients' = [m_clients EXCEPT ![Own(a)].name = name]
    BY <1>3 DEF DeclareMetadata
  <2>4. /\ DOMAIN m_clients' = DOMAIN m_clients
        /\ \A i \in DOMAIN m_clients :
              /\ m_clients'[i].private_key = m_clients[i].private_key
              /\ m_clients'[i].reference = m_clients[i].reference
              /\ m_clients'[i].subscriptions = m_clients[i].subscriptions
              /\ m_clients'[i].url = m_clients[i].url
    BY <2>2, <2>3 DEF Client
  <2> QED BY <2>1, <2>4 DEF Home, SameAgent
<1>4. ASSUME NEW a \in Agents, NEW events \in Declarations,
             DeclareSubscriptions(a, events)
      PROVE  EveryoneHasAHome'
  <2>1. /\ m_clients' = [m_clients EXCEPT ![Own(a)].subscriptions = @ \cup events]
        /\ agent' = [agent EXCEPT ![a].heard = @ \cup events]
    BY <1>4 DEF DeclareSubscriptions, AddSubscriptions
  <2>2. PICK o \in DOMAIN m_clients : o = Own(a) /\ Home(a, o)
    BY <1>4, OwnIsHome DEF DeclareSubscriptions
  <2>3. m_clients[Own(a)] \in Client
    BY <1>4, OwnEntry DEF DeclareSubscriptions
  <2>4. o \in DOMAIN m_clients' /\ Home(a, o)'
    <3>1. m_clients[o] \in Client /\ agent[a] \in Agent
      BY <2>2, OwnEntry DEF TypeOK
    <3>2. /\ m_clients'[o] = [m_clients[o] EXCEPT !.subscriptions = m_clients[o].subscriptions \cup events]
          /\ DOMAIN m_clients' = DOMAIN m_clients
      BY <2>1, <2>2
    <3>3. agent'[a] = [agent[a] EXCEPT !.heard = agent[a].heard \cup events]
      BY <2>1 DEF TypeOK
    <3>4. /\ m_clients'[o].private_key = m_clients[o].private_key
          /\ m_clients'[o].reference = m_clients[o].reference
          /\ m_clients'[o].url = m_clients[o].url
          /\ m_clients'[o].subscriptions = m_clients[o].subscriptions \cup events
      BY <3>1, <3>2 DEF Client
    <3>5. /\ agent'[a].key = agent[a].key /\ agent'[a].id = agent[a].id
          /\ agent'[a].calls = agent[a].calls
          /\ agent'[a].heard = agent[a].heard \cup events
      BY <3>1, <3>3 DEF Agent
    <3> QED BY <2>2, <3>2, <3>4, <3>5 DEF Home
  <2>5. ASSUME NEW b \in Agents \ {a}, agent'[b].key # NoKey
        PROVE  \E i \in DOMAIN m_clients' : Home(b, i)'
    <3>1. agent'[b] = agent[b]
      BY <2>1 DEF TypeOK
    <3>2. PICK i \in DOMAIN m_clients : Home(b, i)
      BY <2>5, <3>1
    <3>3. i # o
      BY <2>2, <2>5, <3>1, <3>2, <1>4 DEF KeysApart, Home, DeclareSubscriptions
    <3>4. i \in DOMAIN m_clients' /\ m_clients'[i] = m_clients[i]
      BY <2>1, <2>2, <3>2, <3>3
    <3> QED BY <3>1, <3>2, <3>4 DEF Home
  <2> QED BY <2>4, <2>5
<1>5. ASSUME NEW a \in Agents, SetCallback(a)
      PROVE  EveryoneHasAHome'
  <2>1. /\ m_clients' = [m_clients EXCEPT ![Own(a)].url = a]
        /\ agent' = [agent EXCEPT ![a].calls = TRUE]
    BY <1>5 DEF SetCallback
  <2>2. PICK o \in DOMAIN m_clients : o = Own(a) /\ Home(a, o)
    BY <1>5, OwnIsHome DEF SetCallback
  <2>4. o \in DOMAIN m_clients' /\ Home(a, o)'
    <3>1. m_clients[o] \in Client /\ agent[a] \in Agent
      BY <2>2, OwnEntry DEF TypeOK
    <3>2. /\ m_clients'[o] = [m_clients[o] EXCEPT !.url = a]
          /\ DOMAIN m_clients' = DOMAIN m_clients
      BY <2>1, <2>2
    <3>3. agent'[a] = [agent[a] EXCEPT !.calls = TRUE]
      BY <2>1 DEF TypeOK
    <3>4. /\ m_clients'[o].private_key = m_clients[o].private_key
          /\ m_clients'[o].reference = m_clients[o].reference
          /\ m_clients'[o].subscriptions = m_clients[o].subscriptions
          /\ m_clients'[o].url = a
      BY <3>1, <3>2 DEF Client
    <3>5. /\ agent'[a].key = agent[a].key /\ agent'[a].id = agent[a].id
          /\ agent'[a].heard = agent[a].heard
          /\ agent'[a].calls = TRUE
      BY <3>1, <3>3 DEF Agent
    <3> QED BY <2>2, <3>2, <3>4, <3>5 DEF Home
  <2>5. ASSUME NEW b \in Agents \ {a}, agent'[b].key # NoKey
        PROVE  \E i \in DOMAIN m_clients' : Home(b, i)'
    <3>1. agent'[b] = agent[b]
      BY <2>1 DEF TypeOK
    <3>2. PICK i \in DOMAIN m_clients : Home(b, i)
      BY <2>5, <3>1
    <3>3. i # o
      BY <2>2, <2>5, <3>1, <3>2, <1>5 DEF KeysApart, Home, SetCallback
    <3>4. i \in DOMAIN m_clients' /\ m_clients'[i] = m_clients[i]
      BY <2>1, <2>2, <3>2, <3>3
    <3> QED BY <3>1, <3>2, <3>4 DEF Home
  <2> QED BY <2>4, <2>5
<1>6. ASSUME UNCHANGED m_clients,
             \A b \in Agents : /\ agent'[b].key = agent[b].key
                               /\ agent'[b].id = agent[b].id
                               /\ agent'[b].heard = agent[b].heard
                               /\ agent'[b].calls = agent[b].calls
      PROVE  EveryoneHasAHome'
  BY <1>6 DEF Home
<1>7. ASSUME NEW a \in Agents, GetRegisteredClients(a)
      PROVE  EveryoneHasAHome'
  <2>1. \A b \in Agents : /\ agent'[b].key = agent[b].key
                          /\ agent'[b].id = agent[b].id
                          /\ agent'[b].heard = agent[b].heard
                          /\ agent'[b].calls = agent[b].calls
    BY <1>7 DEF GetRegisteredClients, TypeOK, Agent
  <2> QED BY <1>6, <1>7, <2>1 DEF GetRegisteredClients
<1>8. ASSUME NEW a \in Agents, NEW id \in DOMAIN agent[a].roster, GetMetadata(a, id)
      PROVE  EveryoneHasAHome'
  <2>1. \A b \in Agents : /\ agent'[b].key = agent[b].key
                          /\ agent'[b].id = agent[b].id
                          /\ agent'[b].heard = agent[b].heard
                          /\ agent'[b].calls = agent[b].calls
    BY <1>8 DEF GetMetadata, TypeOK, Agent
  <2> QED BY <1>6, <1>8, <2>1 DEF GetMetadata
<1>9. CASE UNCHANGED <<m_clients, agent>>
  BY <1>6, <1>9
<1> QED BY <1>1, <1>2, <1>3, <1>4, <1>5, <1>7, <1>8, <1>9
        DEF Next, Shutdown, Tick, vars

LEMMA RosterStep ==
    /\ TypeOK /\ ReferencesUnique /\ FollowersListen /\ KeysApart
    /\ EveryoneHasAHome /\ RosterIsComplete /\ [Next]_vars
    => RosterIsComplete'
<1> SUFFICES ASSUME TypeOK, ReferencesUnique, FollowersListen, KeysApart,
                    EveryoneHasAHome, RosterIsComplete, [Next]_vars
             PROVE  RosterIsComplete'
  OBVIOUS
<1>1. \A b \in Agents : agent[b].follows =>
        \E i \in DOMAIN m_clients :
            /\ Home(b, i)
            /\ m_clients[i].url = b
            /\ m_clients[i].subscriptions = Events
  BY DEF FollowersListen, EveryoneHasAHome, Home, Subscribed
<1>2. ASSUME NEW a \in Agents, Register(a)
      PROVE  RosterIsComplete'
  <2> DEFINE id == FreeReference(m_clients)
  <2>1. id \notin References(m_clients)
    BY <1>2, RegisteredTable
  <2>2. References(m_clients') = References(m_clients) \cup {id}
    BY <1>2, RegisteredTable DEF References
  <2>3. ASSUME NEW b \in Agents \ {a}, agent'[b].follows
        PROVE  DOMAIN agent'[b].roster = References(m_clients') \ {agent'[b].id}
    <3>1. /\ SameAgent(b)
          /\ agent'[b] = Told(a, b, m_clients', "register", id, Unknown)
      BY <1>2, AfterRegister
    <3>2. PICK i \in DOMAIN m_clients :
             Home(b, i) /\ m_clients[i].url = b /\ m_clients[i].subscriptions = Events
      BY <1>1, <2>3, <3>1 DEF SameAgent
    <3>3. i \in DOMAIN m_clients' /\ m_clients'[i] = m_clients[i]
      BY <1>2, <3>2, RegisteredTable
    <3>4. Hears(b, m_clients', "register")
      BY <2>3, <3>1, <3>2, <3>3, Hearing DEF Home, SameAgent, Events
    <3>5. agent[b] \in Agent
      BY DEF TypeOK
    <3> HIDE DEF id
    <3>6. agent'[b].roster = WithName(agent[b].roster, id, Unknown)
      BY <3>1, <3>4, <3>5 DEF Told, Agent
    <3>7. DOMAIN agent'[b].roster = DOMAIN agent[b].roster \cup {id}
      BY <3>6 DEF WithName
    <3>8. DOMAIN agent[b].roster = References(m_clients) \ {agent[b].id}
      BY <2>3, <3>1 DEF RosterIsComplete, SameAgent
    <3>9. agent[b].id \in References(m_clients)
      BY <3>2 DEF References, Home
    <3> QED BY <2>1, <2>2, <3>1, <3>7, <3>8, <3>9 DEF SameAgent
  <2>4. ~agent'[a].follows
    BY <1>2, AfterRegister DEF NotJoined
  <2> QED BY <2>3, <2>4 DEF RosterIsComplete
<1>3. ASSUME NEW a \in Agents, Unregister(a)
      PROVE  RosterIsComplete'
  <2>1. PICK o \in DOMAIN m_clients : o = Own(a) /\ Home(a, o)
    BY <1>3, OwnIsHome DEF Unregister
  <2>2. Own(a) # 0 /\ Joined(a)
    BY <1>3, OwnIsHome DEF Unregister
  <2> DEFINE id == m_clients[o].reference
  <2>3. References(m_clients') = References(m_clients) \ {id}
    <3>1. \A j \in DOMAIN m_clients' : \E i \in DOMAIN m_clients :
             i # o /\ m_clients'[j] = m_clients[i]
      <4> DEFINE L == Len(m_clients)
      <4>1. /\ L \in Nat /\ o \in 1..L
            /\ DOMAIN m_clients = 1..L /\ DOMAIN m_clients' = 1..(L - 1)
            /\ \A j \in 1..(L - 1) : m_clients'[j] = m_clients[IF j < o THEN j ELSE j + 1]
        BY <1>3, <2>1, <2>2, AfterErase
      <4> HIDE DEF L
      <4>2. \A j \in 1..(L - 1) :
               (IF j < o THEN j ELSE j + 1) \in 1..L /\ (IF j < o THEN j ELSE j + 1) # o
        BY <4>1
      <4> QED BY <4>1, <4>2
    <3>2. \A i \in DOMAIN m_clients : i # o =>
             \E j \in DOMAIN m_clients' : m_clients'[j] = m_clients[i]
      BY <1>3, <2>1, <2>2, AfterErase
    <3> QED BY <3>1, <3>2 DEF References, ReferencesUnique
  <2>4. ASSUME NEW b \in Agents \ {a}, agent'[b].follows
        PROVE  DOMAIN agent'[b].roster = References(m_clients') \ {agent'[b].id}
    <3>1. /\ SameAgent(b)
          /\ agent'[b] = Told(a, b, m_clients, "unregister", id, NoName)
      BY <1>3, <2>1, <2>2, AfterUnregister
    <3>2. PICK i \in DOMAIN m_clients :
             Home(b, i) /\ m_clients[i].url = b /\ m_clients[i].subscriptions = Events
      BY <1>1, <2>4, <3>1 DEF SameAgent
    <3>4. Hears(b, m_clients, "unregister")
      BY <2>4, <3>1, <3>2, Hearing DEF Home, SameAgent, Events
    <3>5. agent[b] \in Agent
      BY DEF TypeOK
    <3> HIDE DEF id
    <3>6. agent'[b].roster = Without(agent[b].roster, id)
      BY <3>1, <3>4, <3>5 DEF Told, Agent
    <3>7. DOMAIN agent'[b].roster = DOMAIN agent[b].roster \ {id}
      BY <3>6 DEF Without
    <3>8. DOMAIN agent[b].roster = References(m_clients) \ {agent[b].id}
      BY <2>4, <3>1 DEF RosterIsComplete, SameAgent
    <3> QED BY <2>3, <3>1, <3>7, <3>8 DEF SameAgent
  <2>5. ~agent'[a].follows
    BY <1>3, <2>2, AfterUnregister DEF NotJoined
  <2> QED BY <2>4, <2>5 DEF RosterIsComplete
<1>4. ASSUME References(m_clients') = References(m_clients),
             \A b \in Agents :
                /\ agent'[b].id = agent[b].id
                /\ agent'[b].follows = agent[b].follows
                /\ agent[b].follows => DOMAIN agent'[b].roster = DOMAIN agent[b].roster
      PROVE  RosterIsComplete'
  BY <1>4 DEF RosterIsComplete
<1>5. ASSUME NEW a \in Agents, NEW name \in Names, DeclareMetadata(a, name)
      PROVE  RosterIsComplete'
  <2>1. References(m_clients') = References(m_clients)
    BY <1>5, DeclarationsRewrite, Rewritten
  <2> QED BY <1>4, <1>5, <2>1, AfterMetadata DEF SameAgent
<1>6. ASSUME NEW a \in Agents, NEW events \in Declarations,
             DeclareSubscriptions(a, events)
      PROVE  RosterIsComplete'
  <2>1. References(m_clients') = References(m_clients)
    BY <1>6, DeclarationsRewrite, Rewritten
  <2>2. \A b \in Agents :
                /\ agent'[b].id = agent[b].id
                /\ agent'[b].follows = agent[b].follows
                /\ agent'[b].roster = agent[b].roster
    BY <1>6 DEF DeclareSubscriptions, TypeOK, Agent
  <2> QED BY <1>4, <2>1, <2>2
<1>7. ASSUME NEW a \in Agents, SetCallback(a)
      PROVE  RosterIsComplete'
  <2>1. References(m_clients') = References(m_clients)
    BY <1>7, DeclarationsRewrite, Rewritten
  <2>2. \A b \in Agents :
                /\ agent'[b].id = agent[b].id
                /\ agent'[b].follows = agent[b].follows
                /\ agent'[b].roster = agent[b].roster
    BY <1>7 DEF SetCallback, TypeOK, Agent
  <2> QED BY <1>4, <2>1, <2>2
<1>8. ASSUME NEW a \in Agents, GetRegisteredClients(a)
      PROVE  RosterIsComplete'
  <2>1. PICK o \in DOMAIN m_clients : Home(a, o)
    BY <1>8 DEF GetRegisteredClients, EveryoneHasAHome
  <2>2. \A k \in DOMAIN m_clients :
           (m_clients[k].private_key # agent[a].key) <=> (k # o)
    BY <2>1 DEF KeysApart, Home
  <2>3. OtherClients(agent[a].key) = References(m_clients) \ {agent[a].id}
    BY <2>1, <2>2 DEF OtherClients, References, ReferencesUnique, Home
  <2>4. /\ UNCHANGED m_clients
        /\ \A b \in Agents \ {a} : agent'[b] = agent[b]
        /\ agent'[a].id = agent[a].id
        /\ DOMAIN agent'[a].roster = OtherClients(agent[a].key)
    BY <1>8 DEF GetRegisteredClients, TypeOK, Agent
  <2> QED BY <2>3, <2>4 DEF RosterIsComplete
<1>9. ASSUME NEW a \in Agents, NEW id \in DOMAIN agent[a].roster, GetMetadata(a, id)
      PROVE  RosterIsComplete'
  <2> DEFINE n == m_clients[IndexOfReference(m_clients, id)].name
  <2>1. /\ UNCHANGED m_clients
        /\ agent' = [agent EXCEPT ![a].roster = WithName(@, id, n)]
    BY <1>9 DEF GetMetadata
  <2> HIDE DEF n
  <2>2. \A b \in Agents :
                /\ agent'[b].id = agent[b].id
                /\ agent'[b].follows = agent[b].follows
                /\ b # a => agent'[b].roster = agent[b].roster
    BY <2>1 DEF TypeOK, Agent
  <2>3. agent'[a].roster = WithName(agent[a].roster, id, n)
    BY <2>1 DEF TypeOK, Agent
  <2>4. DOMAIN agent'[a].roster = DOMAIN agent[a].roster
    BY <2>3 DEF WithName
  <2> QED BY <1>4, <2>1, <2>2, <2>4
<1>10. CASE UNCHANGED <<m_clients, agent>>
  BY <1>4, <1>10
<1> QED BY <1>2, <1>3, <1>5, <1>6, <1>7, <1>8, <1>9, <1>10
        DEF Next, Shutdown, Tick, vars

(* The name that a roster has for a client stays the declared one: a       *)
(* reference that is given again comes with a roster entry that says       *)
(* nothing, and a declaration reaches all that follow the events.          *)
LEMMA NamesStep ==
    /\ TypeOK /\ ReferencesUnique /\ FollowersListen /\ KeysApart
    /\ EveryoneHasAHome /\ RosterIsComplete /\ NamesAreCurrent /\ [Next]_vars
    => NamesAreCurrent'
<1> SUFFICES ASSUME TypeOK, ReferencesUnique, FollowersListen, KeysApart,
                    EveryoneHasAHome, RosterIsComplete, NamesAreCurrent, [Next]_vars
             PROVE  NamesAreCurrent'
  OBVIOUS
<1>1. \A b \in Agents : agent[b] \in Agent
  BY DEF TypeOK
<1>2. ASSUME NEW a \in Agents, Register(a)
      PROVE  NamesAreCurrent'
  <2> DEFINE id == FreeReference(m_clients)
  <2>1. id \notin References(m_clients)
    BY <1>2, RegisteredTable
  <2>2. ASSUME NEW b \in Agents \ {a}, agent'[b].follows, NEW i \in DOMAIN m_clients',
               m_clients'[i].reference \in DOMAIN agent'[b].roster
        PROVE  agent'[b].roster[m_clients'[i].reference] \in {m_clients'[i].name, Unknown}
    <3>1. /\ SameAgent(b)
          /\ agent'[b] = Told(a, b, m_clients', "register", id, Unknown)
      BY <1>2, AfterRegister
    <3>2. \/ i \in DOMAIN m_clients /\ m_clients'[i] = m_clients[i]
          \/ m_clients'[i].reference = id
      BY <1>2, RegisteredTable
    <3> HIDE DEF id
    <3>3. \/ agent'[b].roster = agent[b].roster
          \/ agent'[b].roster = WithName(agent[b].roster, id, Unknown)
      BY <1>1, <3>1 DEF Told, Agent
    <3>4. id \notin DOMAIN agent[b].roster
      BY <2>1, <2>2, <3>1 DEF SameAgent, RosterIsComplete
    <3>5. CASE i \in DOMAIN m_clients /\ m_clients'[i] = m_clients[i]
      <4>1. m_clients[i].reference # id
        BY <2>1, <3>5 DEF References
      <4>2. /\ m_clients[i].reference \in DOMAIN agent[b].roster
            /\ agent'[b].roster[m_clients[i].reference] =
                  agent[b].roster[m_clients[i].reference]
        BY <2>2, <3>3, <3>5, <4>1 DEF WithName
      <4> QED BY <2>2, <3>1, <3>5, <4>2 DEF NamesAreCurrent, SameAgent
    <3>6. CASE m_clients'[i].reference = id
      BY <2>2, <3>3, <3>4, <3>6 DEF WithName
    <3> QED BY <3>2, <3>5, <3>6
  <2>3. ~agent'[a].follows
    BY <1>2, AfterRegister DEF NotJoined
  <2> QED BY <2>2, <2>3 DEF NamesAreCurrent
<1>3. ASSUME NEW a \in Agents, Unregister(a)
      PROVE  NamesAreCurrent'
  <2>1. Own(a) # 0
    BY <1>3, OwnIsHome DEF Unregister
  <2>2. \A j \in DOMAIN m_clients' : \E i \in DOMAIN m_clients :
           m_clients'[j] = m_clients[i]
    BY <1>3, <2>1, AfterErase
  <2> DEFINE id == m_clients[Own(a)].reference
  <2>3. ASSUME NEW b \in Agents \ {a}, agent'[b].follows, NEW j \in DOMAIN m_clients',
               m_clients'[j].reference \in DOMAIN agent'[b].roster
        PROVE  agent'[b].roster[m_clients'[j].reference] \in {m_clients'[j].name, Unknown}
    <3>1. /\ SameAgent(b)
          /\ agent'[b] = Told(a, b, m_clients, "unregister", id, NoName)
      BY <1>3, <2>1, AfterUnregister
    <3>2. PICK i \in DOMAIN m_clients : m_clients'[j] = m_clients[i]
      BY <2>2
    <3> HIDE DEF id
    <3>3. \/ agent'[b].roster = agent[b].roster
          \/ agent'[b].roster = Without(agent[b].roster, id)
      BY <1>1, <3>1 DEF Told, Agent
    <3>4. /\ m_clients[i].reference \in DOMAIN agent[b].roster
          /\ agent'[b].roster[m_clients[i].reference] =
                agent[b].roster[m_clients[i].reference]
      BY <2>3, <3>2, <3>3 DEF Without
    <3> QED BY <2>3, <3>1, <3>2, <3>4 DEF NamesAreCurrent, SameAgent
  <2>4. ~agent'[a].follows
    BY <1>3, <2>1, AfterUnregister DEF NotJoined
  <2> QED BY <2>3, <2>4 DEF NamesAreCurrent
<1>4. ASSUME NEW a \in Agents, NEW name \in Names, DeclareMetadata(a, name)
      PROVE  NamesAreCurrent'
  <2> DEFINE o == Own(a)
  <2>1. Rewrites(a) /\ o # 0 /\ Joined(a)
    BY <1>4, DeclarationsRewrite DEF DeclareMetadata
  <2>2. o \in DOMAIN m_clients /\ Home(a, o)
    BY <2>1, OwnIsHome
  <2>3. /\ DOMAIN m_clients' = DOMAIN m_clients
        /\ \A i \in DOMAIN m_clients :
             /\ m_clients'[i].reference = m_clients[i].reference
             /\ m_clients'[i].private_key = m_clients[i].private_key
             /\ i # o => m_clients'[i] = m_clients[i]
    BY <2>1, Rewritten
  <2>4. /\ m_clients'[o].subscriptions = m_clients[o].subscriptions
        /\ m_clients'[o].url = m_clients[o].url
    <3>1. m_clients[o] \in Client
      BY <2>1, OwnEntry
    <3>2. m_clients'[o] = [m_clients[o] EXCEPT !.name = name]
      BY <1>4, <2>2 DEF DeclareMetadata
    <3> QED BY <3>1, <3>2 DEF Client
  <2> DEFINE id == m_clients'[o].reference
  <2>5. \A b \in Agents :
           agent'[b] = Told(a, b, m_clients', "metadata", id, m_clients'[o].name)
    BY <1>4 DEF DeclareMetadata, ToldOfName
  <2>6. \A b \in Agents : SameAgent(b) /\ DOMAIN agent'[b].roster = DOMAIN agent[b].roster
    BY <1>4, AfterMetadata
  <2> HIDE DEF o
  <2>7. ASSUME NEW b \in Agents, agent'[b].follows, NEW i \in DOMAIN m_clients',
               m_clients'[i].reference \in DOMAIN agent'[b].roster
        PROVE  agent'[b].roster[m_clients'[i].reference] \in {m_clients'[i].name, Unknown}
    <3>1. /\ agent[b].follows /\ i \in DOMAIN m_clients
          /\ m_clients[i].reference \in DOMAIN agent[b].roster
          /\ m_clients'[i].reference = m_clients[i].reference
      BY <2>3, <2>6, <2>7 DEF SameAgent
    <3>2. CASE i = o
      <4>1. b # a
        BY <2>2, <3>1, <3>2 DEF RosterIsComplete, Home
      <4>2. PICK k \in DOMAIN m_clients :
               Home(b, k) /\ m_clients[k].url = b /\ m_clients[k].subscriptions = Events
        BY <3>1 DEF FollowersListen, EveryoneHasAHome, Home, Subscribed
      <4>3. /\ k \in DOMAIN m_clients'
            /\ m_clients'[k].url = b /\ m_clients'[k].private_key = agent[b].key
            /\ "metadata" \in m_clients'[k].subscriptions
        BY <2>3, <2>4, <4>2 DEF Home, Events
      <4>4. Hears(b, m_clients', "metadata")
        BY <3>1, <4>3, Hearing
      <4>5. id \in DOMAIN agent[b].roster
        BY <3>1, <3>2
      <4> HIDE DEF id
      <4>6. agent'[b].roster = WithName(agent[b].roster, id, m_clients'[o].name)
        <5>1. agent'[b] = [agent[b] EXCEPT !.roster =
                              WithName(agent[b].roster, id, m_clients'[o].name)]
          BY <2>5, <4>1, <4>4, <4>5 DEF Told
        <5>2. agent[b] \in Agent
          BY <1>1, <3>1
        <5> QED BY <5>1, <5>2 DEF Agent
      <4>7. agent'[b].roster[id] = m_clients'[o].name
        BY <4>5, <4>6 DEF WithName
      <4> QED BY <3>2, <4>7 DEF id
    <3>3. CASE i # o
      <4>1. m_clients[i].reference # id
        BY <2>2, <2>3, <3>1, <3>3 DEF ReferencesUnique
      <4> HIDE DEF id
      <4>2. \/ agent'[b].roster = agent[b].roster
            \/ agent'[b].roster = WithName(agent[b].roster, id, m_clients'[o].name)
        <5>1. agent[b] \in Agent
          BY <1>1, <3>1
        <5>2. CASE ~Hears(b, m_clients', "metadata") \/ id \notin DOMAIN agent[b].roster
          BY <2>5, <5>1, <5>2 DEF Told, Agent
        <5>3. CASE b # a /\ Hears(b, m_clients', "metadata") /\ id \in DOMAIN agent[b].roster
          BY <2>5, <5>1, <5>3 DEF Told, Agent
        <5>4. CASE b = a
          BY <2>5, <5>4 DEF Told
        <5> QED BY <5>2, <5>3, <5>4
      <4>3. agent'[b].roster[m_clients[i].reference] =
               agent[b].roster[m_clients[i].reference]
        BY <3>1, <4>1, <4>2 DEF WithName
      <4> QED BY <2>3, <3>1, <3>3, <4>3 DEF NamesAreCurrent
    <3> QED BY <3>2, <3>3
  <2> QED BY <2>7 DEF NamesAreCurrent
<1>5. ASSUME DOMAIN m_clients' = DOMAIN m_clients,
             \A i \in DOMAIN m_clients :
                /\ m_clients'[i].reference = m_clients[i].reference
                /\ m_clients'[i].name = m_clients[i].name,
             \A b \in Agents :
                /\ agent'[b].follows = agent[b].follows
                /\ agent'[b].roster = agent[b].roster
      PROVE  NamesAreCurrent'
  BY <1>5 DEF NamesAreCurrent
<1>6. ASSUME NEW a \in Agents, NEW events \in Declarations,
             DeclareSubscriptions(a, events)
      PROVE  NamesAreCurrent'
  <2>1. Rewrites(a)
    BY <1>6, DeclarationsRewrite
  <2>2. Own(a) \in 1..Len(m_clients) /\ m_clients[Own(a)] \in Client
    BY <2>1, OwnEntry DEF Rewrites
  <2>3. m_clients'[Own(a)].name = m_clients[Own(a)].name
    BY <1>6, <2>2, LenProperties DEF DeclareSubscriptions, TypeOK, Client
  <2>4. \A b \in Agents :
                /\ agent'[b].follows = agent[b].follows
                /\ agent'[b].roster = agent[b].roster
    BY <1>1, <1>6 DEF DeclareSubscriptions, TypeOK, Agent
  <2> QED BY <1>5, <2>1, <2>3, <2>4, Rewritten
<1>7. ASSUME NEW a \in Agents, SetCallback(a)
      PROVE  NamesAreCurrent'
  <2>1. Rewrites(a)
    BY <1>7, DeclarationsRewrite
  <2>2. Own(a) \in 1..Len(m_clients) /\ m_clients[Own(a)] \in Client
    BY <2>1, OwnEntry DEF Rewrites
  <2>3. m_clients'[Own(a)].name = m_clients[Own(a)].name
    BY <1>7, <2>2, LenProperties DEF SetCallback, TypeOK, Client
  <2>4. \A b \in Agents :
                /\ agent'[b].follows = agent[b].follows
                /\ agent'[b].roster = agent[b].roster
    BY <1>1, <1>7 DEF SetCallback, TypeOK, Agent
  <2> QED BY <1>5, <2>1, <2>3, <2>4, Rewritten
<1>8. ASSUME NEW a \in Agents, GetRegisteredClients(a)
      PROVE  NamesAreCurrent'
  <2>1. /\ UNCHANGED m_clients
        /\ \A b \in Agents \ {a} : agent'[b] = agent[b]
        /\ agent'[a].roster = [r \in OtherClients(agent[a].key) |-> Unknown]
    BY <1>1, <1>8 DEF GetRegisteredClients, TypeOK, Agent
  <2> QED BY <2>1 DEF NamesAreCurrent
<1>9. ASSUME NEW a \in Agents, NEW id \in DOMAIN agent[a].roster,
             agent[a].follows, GetMetadata(a, id)
      PROVE  NamesAreCurrent'
  <2> DEFINE f == IndexOfReference(m_clients, id)
             n == m_clients[f].name
  <2>1. /\ UNCHANGED m_clients
        /\ agent' = [agent EXCEPT ![a].roster = WithName(@, id, n)]
        /\ f # 0
    BY <1>9 DEF GetMetadata
  <2>2. f \in DOMAIN m_clients /\ m_clients[f].reference = id
    BY <2>1, FoundReference DEF TypeOK
  <2>3. \A i \in DOMAIN m_clients : m_clients[i].reference = id => m_clients[i].name = n
    BY <2>2 DEF ReferencesUnique
  <2> HIDE DEF n, f
  <2>4. /\ \A b \in Agents \ {a} : agent'[b] = agent[b]
        /\ agent'[a].roster = WithName(agent[a].roster, id, n)
    BY <1>1, <2>1 DEF TypeOK, Agent
  <2>5. ASSUME NEW i \in DOMAIN m_clients,
               m_clients[i].reference \in DOMAIN agent'[a].roster
        PROVE  agent'[a].roster[m_clients[i].reference] \in {m_clients[i].name, Unknown}
    BY <1>9, <2>3, <2>4, <2>5 DEF WithName, NamesAreCurrent
  <2> QED BY <2>1, <2>4, <2>5 DEF NamesAreCurrent
<1>10. CASE UNCHANGED <<m_clients, agent>>
  BY <1>5, <1>10
<1> QED BY <1>2, <1>3, <1>4, <1>6, <1>7, <1>8, <1>9, <1>10
        DEF Next, Shutdown, Tick, vars
-----------------------------------------------------------------------------
(* The invariant of the hub, for any number of agents.                     *)
THEOREM HubInvHolds == Spec => []HubInv
<1>1. Init => HubInv
  <2> SUFFICES ASSUME Init PROVE HubInv
    OBVIOUS
  <2>1. TypeOK
    BY TypeInit
  <2>2. ReferencesUnique /\ KeysApart
    BY DEF Init, ReferencesUnique, KeysApart, Joined, NotJoined
  <2>3. FollowersListen /\ EveryoneHasAHome /\ RosterIsComplete
    BY DEF Init, FollowersListen, EveryoneHasAHome, RosterIsComplete, Joined, NotJoined
  <2> QED BY <2>1, <2>2, <2>3 DEF HubInv
<1>2. HubInv /\ [Next]_vars => HubInv'
  BY TypeStep, ReferencesStep, FollowersStep, KeysStep, HomesStep, RosterStep
     DEF HubInv
<1> QED BY <1>1, <1>2, PTL DEF Spec

(* While no two clients register in the same second, the key of an agent   *)
(* leads every handler to the client that register gave this agent.        *)
THEOREM KeysLeadHome == OnePerSecond => (Spec => []KeyLeadsHome)
<1> SUFFICES ASSUME OnePerSecond PROVE Spec => []KeyLeadsHome
  OBVIOUS
<1>1. HubInv => KeyLeadsHome
  BY OwnIsHome DEF HubInv, KeyLeadsHome, Home
<1> QED BY <1>1, HubInvHolds, PTL

(* While no two clients register in the same second, the hub holds of a    *)
(* client what this client has declared.                                   *)
THEOREM DeclarationsAreHeld == OnePerSecond => (Spec => []DeclaredIsHeld)
<1> SUFFICES ASSUME OnePerSecond PROVE Spec => []DeclaredIsHeld
  OBVIOUS
<1>1. HubInv => DeclaredIsHeld
  BY OwnIsHome DEF HubInv, DeclaredIsHeld, Home
<1> QED BY <1>1, HubInvHolds, PTL

(* While no two clients register in the same second, an agent that follows *)
(* the events misses no client and keeps none that left.                   *)
THEOREM RostersAreComplete == OnePerSecond => (Spec => []RosterIsComplete)
<1> SUFFICES ASSUME OnePerSecond PROVE Spec => []RosterIsComplete
  OBVIOUS
<1>1. HubInv => RosterIsComplete
  BY DEF HubInv
<1> QED BY <1>1, HubInvHolds, PTL

(* While no two clients register in the same second, the names in the      *)
(* roster of an agent that follows the events are those that the clients   *)
(* declared last, or the agent knows that it has not been told.            *)
THEOREM NamesStayCurrent == OnePerSecond => (Spec => []NamesAreCurrent)
<1> SUFFICES ASSUME OnePerSecond PROVE Spec => []NamesAreCurrent
  OBVIOUS
<1>1. Init => NamesAreCurrent
  BY DEF Init, NamesAreCurrent, NotJoined
<1>2. HubInv /\ NamesAreCurrent /\ [Next]_vars => NamesAreCurrent'
  BY NamesStep DEF HubInv
<1> QED BY <1>1, <1>2, HubInvHolds, PTL DEF Spec
=============================================================================
