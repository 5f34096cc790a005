-------------------------- MODULE GVOSession_proof --------------------------
(***************************************************************************)
(* What holds of sessions with any number of applications, of hubs and of  *)
(* calls, in any of the circumstances: requests lost, late, or answered by *)
(* a hub that does not know who asks.                                      *)
(***************************************************************************)
EXTENDS GVOSession, Integers, FiniteSetTheorems, WellFoundedInduction,
        SequenceTheorems, TLAPS

-----------------------------------------------------------------------------
(* The inductive invariant                                                 *)

Leaving == {"unregister", "clear"}

Points == {"idle", "find", "launch", "look", "sleep"} \cup DOMAIN RequestAt

Entry   == [reference : Nat, private_key : Nat, owner : Clients]
Request == [method : {"ping", "register", "metadata", "unregister", "shutdown"},
            from   : Clients,
            key    : Nat,
            live   : BOOLEAN]
Hub     == [state   : {"absent", "launched", "opened", "filed", "listening", "ended"},
            clients : Seq(Entry),
            queue   : Seq(Request)]
Client  == [pc      : Points,
            try     : Nat,
            has_hub : BOOLEAN,
            host    : BOOLEAN,
            key     : Nat,
            id      : Nat,
            conn    : {"none", "wait", "yes", "no"},
            answer  : [key : Nat, id : Nat]]

TypeOK ==
    /\ setting \in Settings
    /\ lockfile \in {"absent", "empty", "written"}
    /\ hub \in [Hubs -> Hub]
    /\ client \in [Clients -> Client]
    /\ issued \in Nat

(* Only a request has an answer, and only that of register has a key.      *)
AnswersFit ==
    \A c \in Clients :
        /\ client[c].conn # "none" => client[c].pc \in DOMAIN RequestAt
        /\ client[c].answer.key # NoKey =>
              client[c].pc = "register" /\ client[c].conn = "yes"

(* A request that is live is the one its client waits for.                 *)
Awaited(r) ==
    /\ client[r.from].conn = "wait"
    /\ client[r.from].pc \in DOMAIN RequestAt
    /\ RequestAt[client[r.from].pc] = r.method
    /\ client[r.from].key = r.key

LiveIsAwaited ==
    \A h \in Hubs : \A i \in DOMAIN hub[h].queue :
        hub[h].queue[i].live => Awaited(hub[h].queue[i])

OneLiveRequest ==
    \A h, k \in Hubs : \A i \in DOMAIN hub[h].queue, j \in DOMAIN hub[k].queue :
        /\ hub[h].queue[i].live /\ hub[k].queue[j].live
        /\ hub[h].queue[i].from = hub[k].queue[j].from
        => h = k /\ i = j

(* Keys are given out once: no two entries of any tables share one, and no *)
(* two clients hold the same.                                              *)
Held(c) == {client[c].key, client[c].answer.key} \ {NoKey}

KeysIssuedOnce ==
    /\ \A h \in Hubs : \A i \in DOMAIN hub[h].clients :
          hub[h].clients[i].private_key \in 1..issued
    /\ \A h, k \in Hubs : \A i \in DOMAIN hub[h].clients, j \in DOMAIN hub[k].clients :
          hub[h].clients[i].private_key = hub[k].clients[j].private_key
          => h = k /\ i = j
    /\ \A c \in Clients : Held(c) \subseteq 1..issued
    /\ \A c, d \in Clients : Held(c) \cap Held(d) # {} => c = d

(* A key that a client has, or that is in an answer to it, is in a table.  *)
InTable(c, key, id) ==
    \E h \in Hubs : \E i \in DOMAIN hub[h].clients :
        /\ hub[h].clients[i].private_key = key
        /\ hub[h].clients[i].reference = id
        /\ hub[h].clients[i].owner = c

HeldIsRegistered ==
    \A c \in Clients :
        /\ Connected(c) /\ client[c].pc \notin Leaving =>
              InTable(c, client[c].key, client[c].id)
        /\ client[c].answer.key # NoKey =>
              InTable(c, client[c].answer.key, client[c].answer.id)

(* A request to unregister, which a hub may find long after it was sent,   *)
(* has a key that nobody holds but a client that is about to give it up.   *)
Forsaken(key) ==
    \A c \in Clients :
        /\ client[c].answer.key # key
        /\ client[c].key = key => client[c].pc \in Leaving

UnregisterForsaken ==
    \A h \in Hubs : \A i \in DOMAIN hub[h].queue :
        hub[h].queue[i].method = "unregister" =>
            hub[h].queue[i].key \in 1..issued /\ Forsaken(hub[h].queue[i].key)

SessionInv ==
    /\ TypeOK /\ AnswersFit /\ LiveIsAwaited /\ OneLiveRequest
    /\ KeysIssuedOnce /\ HeldIsRegistered /\ UnregisterForsaken

(* With SO_REUSEPORT nothing removes the lock file.                        *)
LockfileStays ==
    setting.reuse_port =>
        /\ lockfile = "absent" => \A h \in Hubs : hub[h].state \in {"absent", "launched"}
        /\ lockfile = "empty"  => \E h \in Hubs : hub[h].state = "opened"

(* In a steady session hub 1 is the only one, and every request reaches it *)
(* and is answered.                                                        *)
SteadyHub ==
    /\ lockfile = "written"
    /\ hub[1].state = "listening"
    /\ \A h \in Hubs \ {1} : hub[h].state = "absent"

SteadyClient(c) ==
    /\ client[c].pc \in {"idle", "find", "ping", "register", "metadata"} \cup Leaving
    /\ client[c].pc \in {"ping", "register", "metadata"} \/ Connected(c) => client[c].host
    /\ client[c].pc \in {"find", "ping", "register"} => ~Connected(c)
    /\ client[c].pc = "ping" => client[c].conn # "no"

(* A client is forgotten by its hub before it forgets its key.             *)
SteadyTable ==
    /\ \A i \in DOMAIN hub[1].queue : hub[1].queue[i].live
    /\ \A i \in DOMAIN hub[1].clients :
          LET e == hub[1].clients[i]
          IN  /\ e.private_key \in Held(e.owner)
              /\ client[e.owner].pc \in Leaving => client[e.owner].conn \in {"none", "wait"}

SteadyInv ==
    Steady => SteadyHub /\ (\A c \in Clients : SteadyClient(c)) /\ SteadyTable
-----------------------------------------------------------------------------
(* Tables and queues.  The first five are facts about the operators of     *)
(* GVOHubClients, as in GVOHub_proof.                                      *)

LEMMA LeastNatural ==
    ASSUME NEW M \in SUBSET Nat, M # {}
    PROVE  \E x \in M : \A y \in M : x <= y
<1>1. PICK x \in M : \A y \in M : ~ (<<y, x>> \in OpToRel(<, Nat))
  BY WFMin, NatLessThanWellFounded
<1>2. \A y \in M : ~ (y < x)
  BY <1>1 DEF OpToRel
<1> QED BY <1>2

(* A table of n clients leaves one of n+1 references free.                 *)
LEMMA SomeReferenceIsFree ==
    ASSUME NEW S, NEW clients \in Seq(S)
    PROVE  \E n \in 0..Len(clients) : n \notin References(clients)
<1> DEFINE L == Len(clients)
           holder == [n \in 0..L |-> CHOOSE i \in 1..L : clients[i].reference = n]
<1>1. L \in Nat /\ DOMAIN clients = 1..L
  BY LenProperties
<1>2. SUFFICES ASSUME \A n \in 0..L : n \in References(clients)
               PROVE  FALSE
  OBVIOUS
<1>3. \A n \in 0..L : \E i \in 1..L : clients[i].reference = n
  BY <1>1, <1>2 DEF References
<1>4. \A n \in 0..L : holder[n] \in 1..L /\ clients[holder[n]].reference = n
  BY <1>3
<1>5. holder \in [0..L -> 1..L]
  BY <1>4
<1>6. /\ IsFiniteSet(0..L) /\ Cardinality(0..L) = L + 1
      /\ IsFiniteSet(1..L) /\ Cardinality(1..L) = L
  <2>1. IsFiniteSet(0..L) /\ Cardinality(0..L) = IF 0 > L THEN 0 ELSE L - 0 + 1
    BY <1>1, FS_Interval
  <2>2. IsFiniteSet(1..L) /\ Cardinality(1..L) = IF 1 > L THEN 0 ELSE L - 1 + 1
    BY <1>1, FS_Interval
  <2> QED BY <1>1, <2>1, <2>2
<1>7. Cardinality(1..L) < Cardinality(0..L)
  BY <1>1, <1>6
<1>8. \E x, y \in 0..L : x # y /\ holder[x] = holder[y]
  <2> HIDE DEF holder
  <2> QED BY <1>5, <1>6, <1>7, FS_PigeonHole
<1> QED BY <1>4, <1>8

(* The reference that a new client gets is one that nobody has.            *)
LEMMA NewReference ==
    ASSUME NEW S, NEW clients \in Seq(S)
    PROVE  /\ FreeReference(clients) \in 0..Len(clients)
           /\ FreeReference(clients) \notin References(clients)
<1> DEFINE free == {n \in 0..Len(clients) : n \notin References(clients)}
<1>1. Len(clients) \in Nat
  BY LenProperties
<1>2. free # {} /\ free \subseteq Nat
  BY <1>1, SomeReferenceIsFree
<1>3. PICK x \in free : \A y \in free : x <= y
  <2> HIDE DEF free
  <2> QED BY <1>2, LeastNatural
<1>6. \A m \in 0..(x - 1) : m \in References(clients)
  BY <1>1, <1>2, <1>3
<1>7. \E n \in 0..Len(clients) :
        n \notin References(clients) /\ \A m \in 0..(n - 1) : m \in References(clients)
  BY <1>6
<1>8. FreeReference(clients) \in 0..Len(clients)
      /\ FreeReference(clients) \notin References(clients)
  BY <1>7 DEF FreeReference
<1> QED BY <1>1, <1>8

(* get_client_index() finds a client with the key if there is one.         *)
LEMMA FirstWithKey ==
    ASSUME NEW S, NEW clients \in Seq(S), NEW key
    PROVE  /\ IndexOfKey(clients, key) \in 0..Len(clients)
           /\ IndexOfKey(clients, key) # 0 =>
                clients[IndexOfKey(clients, key)].private_key = key
           /\ (\E i \in 1..Len(clients) : clients[i].private_key = key) =>
                IndexOfKey(clients, key) # 0
<1> DEFINE match == {i \in 1..Len(clients) : clients[i].private_key = key}
<1>1. Len(clients) \in Nat
  BY LenProperties
<1>2. match \subseteq Nat
  BY <1>1
<1>4. match # {} => Min(match) \in match
  <2> HIDE DEF match
  <2> QED BY <1>2, LeastNatural DEF Min
<1>5. IndexOfKey(clients, key) = IF match # {} THEN Min(match) ELSE 0
  BY DEF IndexOfKey, SelectInSeq
<1> HIDE DEF match
<1>6. CASE match = {}
  <2>1. ~ \E i \in 1..Len(clients) : clients[i].private_key = key
    BY <1>6 DEF match
  <2> QED BY <1>1, <1>5, <1>6, <2>1
<1>7. CASE match # {}
  <2>1. IndexOfKey(clients, key) \in match
    BY <1>4, <1>5, <1>7
  <2> QED BY <1>1, <2>1 DEF match
<1> QED BY <1>6, <1>7

(* What is left of a table when a client is erased.                        *)
LEMMA ErasedTable ==
    ASSUME NEW S, NEW clients \in Seq(S), NEW i \in 1..Len(clients)
    PROVE  /\ Erase(clients, i) \in Seq(S)
           /\ Len(Erase(clients, i)) = Len(clients) - 1
           /\ \A j \in 1..(Len(clients) - 1) :
                Erase(clients, i)[j] = clients[IF j < i THEN j ELSE j + 1]
<1> DEFINE L == Len(clients)
           front == SubSeq(clients, 1, i - 1)
           back  == SubSeq(clients, i + 1, L)
<1>1. L \in Nat /\ \A j \in 1..L : clients[j] \in S
  BY LenProperties, ElementOfSeq
<1>2. /\ front \in Seq(S) /\ Len(front) = i - 1
      /\ \A j \in 1..(i - 1) : front[j] = clients[j]
  <2>1. \A j \in 1..(i - 1) : clients[j] \in S
    BY <1>1
  <2>2. /\ front \in Seq(S)
        /\ Len(front) = IF 1 <= i - 1 THEN i - 1 - 1 + 1 ELSE 0
        /\ \A j \in 1..(i - 1 - 1 + 1) : front[j] = clients[1 + j - 1]
    BY <2>1, SubSeqProperties
  <2> QED BY <1>1, <2>2
<1>3. /\ back \in Seq(S) /\ Len(back) = L - i
      /\ \A j \in 1..(L - i) : back[j] = clients[i + j]
  <2>1. \A j \in (i + 1)..L : clients[j] \in S
    BY <1>1
  <2>2. /\ back \in Seq(S)
        /\ Len(back) = IF i + 1 <= L THEN L - (i + 1) + 1 ELSE 0
        /\ \A j \in 1..(L - (i + 1) + 1) : back[j] = clients[(i + 1) + j - 1]
    BY <1>1, <2>1, SubSeqProperties
  <2> QED BY <1>1, <2>2
<1>4. Erase(clients, i) = front \o back
  BY DEF Erase, RemoveAt
<1> HIDE DEF front, back
<1>5. /\ front \o back \in Seq(S)
      /\ Len(front \o back) = Len(front) + Len(back)
      /\ \A j \in 1..(Len(front) + Len(back)) : (front \o back)[j] =
            IF j <= Len(front) THEN front[j] ELSE back[j - Len(front)]
  BY <1>2, <1>3, ConcatProperties
<1>6. Len(front) + Len(back) = L - 1
  BY <1>1, <1>2, <1>3
<1>7. ASSUME NEW j \in 1..(L - 1)
      PROVE  (front \o back)[j] = clients[IF j < i THEN j ELSE j + 1]
  <2>1. CASE j < i
    <3>1. j \in 1..(i - 1)
      BY <1>1, <2>1
    <3> QED BY <1>1, <1>2, <1>5, <1>6, <2>1, <3>1
  <2>2. CASE ~(j < i)
    <3>1. j - (i - 1) \in 1..(L - i) /\ i + (j - (i - 1)) = j + 1 /\ ~(j <= i - 1)
      BY <1>1, <2>2
    <3>2. Len(front) = i - 1 /\ j \in 1..(Len(front) + Len(back))
      BY <1>1, <1>2, <1>6
    <3>3. (front \o back)[j] = back[j - (i - 1)]
      BY <1>5, <3>1, <3>2
    <3>4. back[j - (i - 1)] = clients[i + (j - (i - 1))]
      BY <1>3, <3>1
    <3> QED BY <2>2, <3>1, <3>3, <3>4
  <2> QED BY <2>1, <2>2
<1> QED BY <1>4, <1>5, <1>6, <1>7

LEMMA ShiftedQueue ==
    ASSUME NEW S, NEW q \in Seq(S), q # <<>>
    PROVE  /\ 1 \in DOMAIN q /\ Head(q) = q[1] /\ Head(q) \in S
           /\ Tail(q) \in Seq(S)
           /\ \A j \in DOMAIN Tail(q) :
                 /\ j + 1 \in DOMAIN q /\ j + 1 # 1 /\ j \in Nat
                 /\ Tail(q)[j] = q[j + 1]
<1>1. Len(q) \in Nat /\ DOMAIN q = 1..Len(q) /\ Len(q) # 0
  BY LenProperties, EmptySeq
<1>2. /\ Tail(q) \in Seq(S) /\ Len(Tail(q)) = Len(q) - 1
      /\ \A j \in 1..Len(Tail(q)) : Tail(q)[j] = q[j + 1]
  BY HeadTailProperties
<1>3. DOMAIN Tail(q) = 1..(Len(q) - 1)
  BY <1>2, LenProperties
<1>4. Head(q) = q[1] /\ Head(q) \in S
  BY <1>1, HeadTailProperties
<1> QED BY <1>1, <1>2, <1>3, <1>4

LEMMA LongerQueue ==
    ASSUME NEW S, NEW q \in Seq(S), NEW e \in S
    PROVE  /\ Append(q, e) \in Seq(S)
           /\ DOMAIN Append(q, e) = DOMAIN q \cup {Len(q) + 1}
           /\ Len(q) + 1 \notin DOMAIN q
           /\ \A j \in DOMAIN q : Append(q, e)[j] = q[j]
           /\ Append(q, e)[Len(q) + 1] = e
<1>1. Len(q) \in Nat /\ DOMAIN q = 1..Len(q)
  BY LenProperties
<1>2. /\ Append(q, e) \in Seq(S) /\ Len(Append(q, e)) = Len(q) + 1
      /\ \A j \in 1..Len(q) : Append(q, e)[j] = q[j]
      /\ Append(q, e)[Len(q) + 1] = e
  BY AppendProperties
<1>3. DOMAIN Append(q, e) = 1..(Len(q) + 1)
  BY <1>2, LenProperties
<1> QED BY <1>1, <1>2, <1>3

LEMMA AbandonedQueue ==
    ASSUME NEW q \in Seq(Request), NEW c \in Clients
    PROVE  /\ Abandoned(q, c) \in Seq(Request)
           /\ DOMAIN Abandoned(q, c) = DOMAIN q
           /\ \A i \in DOMAIN q :
                 LET r == Abandoned(q, c)[i]
                 IN  /\ r.method = q[i].method /\ r.from = q[i].from /\ r.key = q[i].key
                     /\ r.live <=> q[i].live /\ q[i].from # c
<1>1. Len(q) \in Nat /\ DOMAIN q = 1..Len(q) /\ \A i \in 1..Len(q) : q[i] \in Request
  BY LenProperties, ElementOfSeq
<1>2. \A i \in DOMAIN q : [q[i] EXCEPT !.live = @ /\ q[i].from # c] \in Request
  BY <1>1 DEF Request
<1>3. Abandoned(q, c) \in [1..Len(q) -> Request]
  BY <1>1, <1>2 DEF Abandoned
<1>4. Abandoned(q, c) \in Seq(Request)
  BY <1>1, <1>3, SeqDef
<1>5. \A i \in DOMAIN q :
          LET r == Abandoned(q, c)[i]
          IN  /\ r.method = q[i].method /\ r.from = q[i].from /\ r.key = q[i].key
              /\ r.live <=> q[i].live /\ q[i].from # c
  BY <1>1 DEF Abandoned, Request
<1> QED BY <1>3, <1>4, <1>5 DEF Abandoned

-----------------------------------------------------------------------------
(* The types                                                               *)

Asks == {"ping", "look_ping", "register", "metadata", "unregister", "clear", "shutdown"}

LEMMA Asking ==
    /\ DOMAIN RequestAt = Asks
    /\ \A at \in Asks : RequestAt[at] \in {"ping", "register", "metadata", "unregister", "shutdown"}
    /\ \A at \in Asks : RequestAt[at] = "register" <=> at = "register"
    /\ \A at \in Asks : RequestAt[at] = "unregister" <=> at \in Leaving
    /\ \A at \in Asks : RequestAt[at] = "shutdown" <=> at = "shutdown"
    /\ \A at \in Asks : RequestAt[at] = "metadata" <=> at = "metadata"
    /\ \A at \in Asks : RequestAt[at] = "ping" <=> at \in {"ping", "look_ping"}
BY DEF RequestAt, Asks, Leaving

(* What a step of a call does to its client.                               *)
LEMMA Gone ==
    ASSUME TypeOK, NEW c \in Clients, NEW pc \in Points
    PROVE  /\ GoTo(c, pc) \in Client
           /\ GoTo(c, pc).pc = pc /\ GoTo(c, pc).conn = "none"
           /\ GoTo(c, pc).answer = NoAnswer
           /\ GoTo(c, pc).key = client[c].key /\ GoTo(c, pc).id = client[c].id
           /\ GoTo(c, pc).host = client[c].host /\ GoTo(c, pc).has_hub = client[c].has_hub
           /\ GoTo(c, pc).try = client[c].try
BY DEF TypeOK, GoTo, Client, NoAnswer, NoKey

LEMMA Returned ==
    ASSUME TypeOK, NEW c \in Clients
    PROVE  /\ Return(c) \in Client
           /\ Return(c).pc = "idle" /\ Return(c).conn = "none"
           /\ Return(c).answer = NoAnswer
           /\ Return(c).key = client[c].key /\ Return(c).id = client[c].id
           /\ Return(c).host = client[c].host /\ Return(c).has_hub = client[c].has_hub
<1>1. "idle" \in Points
  BY DEF Points
<1> QED BY <1>1, Gone DEF Return, Client

LEMMA HasSeen ==
    ASSUME TypeOK, NEW c \in Clients, NEW pc \in Points
    PROVE  /\ Seen(c, pc) \in Client
           /\ Seen(c, pc).pc = pc /\ Seen(c, pc).conn = "none"
           /\ Seen(c, pc).answer = NoAnswer
           /\ Seen(c, pc).key = client[c].key /\ Seen(c, pc).id = client[c].id
           /\ lockfile = "written" => Seen(c, pc).host
<1> DEFINE g == GoTo(c, pc)
<1>1. /\ g \in Client
      /\ g.pc = pc /\ g.conn = "none" /\ g.answer = NoAnswer
      /\ g.key = client[c].key /\ g.id = client[c].id
  BY Gone
<1>2. Seen(c, pc) = [g EXCEPT !.has_hub = g.has_hub \/ lockfile = "written",
                              !.host    = g.host \/ lockfile = "written"]
  BY DEF Seen
<1> HIDE DEF g
<1>3. (g.has_hub \/ lockfile = "written") \in BOOLEAN /\ (g.host \/ lockfile = "written") \in BOOLEAN
  OBVIOUS
<1> DEFINE x == g.has_hub \/ lockfile = "written"
           y == g.host \/ lockfile = "written"
<1>4. x \in BOOLEAN /\ y \in BOOLEAN /\ (lockfile = "written" => y)
  OBVIOUS
<1>5. Seen(c, pc) = [g EXCEPT !.has_hub = x, !.host = y]
  BY <1>2
<1> HIDE DEF x, y
<1> QED BY <1>1, <1>4, <1>5 DEF Client

-----------------------------------------------------------------------------
(* What the steps do: a step in a call without a request under way, ...    *)

TablesKept    == \A h \in Hubs : hub'[h].clients = hub[h].clients
QueuesKept    == \A h \in Hubs : hub'[h].queue = hub[h].queue
OthersKept(c) == \A d \in Clients \ {c} : client'[d] = client[d]

Silent(c) ==
    \A h \in Hubs : \A i \in DOMAIN hub[h].queue :
        hub[h].queue[i].live => hub[h].queue[i].from # c

KeepsKey(c) ==
    /\ client[c].pc \notin Leaving
    /\ client[c].answer.key = NoKey
    /\ client'[c].key = client[c].key
    /\ client'[c].id = client[c].id

TakesKey(c) ==
    /\ client[c].pc = "register"
    /\ client'[c].key = client[c].answer.key
    /\ client'[c].id = client[c].answer.id

GivesKey(c) ==
    /\ client[c].pc \in Leaving
    /\ RequestOver(c)
    /\ client'[c].key = NoKey

Rests(c) ==
    /\ TablesKept /\ QueuesKept /\ issued' = issued /\ OthersKept(c)
    /\ Silent(c)
    /\ client'[c].conn = "none"
    /\ client'[c].answer = NoAnswer
    /\ KeepsKey(c) \/ TakesKey(c) \/ GivesKey(c)

LEMMA Silence ==
    ASSUME LiveIsAwaited, NEW c \in Clients, client[c].conn # "wait"
    PROVE  Silent(c)
BY DEF LiveIsAwaited, Awaited, Silent

Becomes(c, next) ==
    /\ client' = [client EXCEPT ![c] = next]
    /\ UNCHANGED <<lockfile, hub, issued>>

LEMMA StepsRest ==
    ASSUME TypeOK, setting' = setting, NEW c \in Clients, NEW next \in Client,
           Becomes(c, next), Silent(c), next.conn = "none", next.answer = NoAnswer,
           \/ /\ client[c].pc \notin Leaving /\ client[c].answer.key = NoKey
              /\ next.key = client[c].key /\ next.id = client[c].id
           \/ /\ client[c].pc = "register"
              /\ next.key = client[c].answer.key /\ next.id = client[c].answer.id
           \/ /\ client[c].pc \in Leaving /\ RequestOver(c)
              /\ next.key = NoKey
    PROVE  Rests(c) /\ TypeOK'
<1>1. client'[c] = next /\ OthersKept(c)
  BY DEF Becomes, TypeOK, OthersKept
<1>2. TablesKept /\ QueuesKept /\ issued' = issued
  BY DEF Becomes, TablesKept, QueuesKept
<1>3. TypeOK'
  BY DEF Becomes, TypeOK
<1> QED BY <1>1, <1>2, <1>3 DEF Rests, KeepsKey, TakesKey, GivesKey

(* The steps of a call that leave the registration alone.                  *)
Quiet(c) ==
    \/ Find(c) \/ Pinged(c) \/ ForkFails(c) \/ Look(c) \/ LookPinged(c)
    \/ Sleep(c) \/ GiveUp(c) \/ RegisterThrows(c) \/ MetadataSent(c) \/ ShutdownSent(c)

LEMMA QuietRests ==
    ASSUME TypeOK, AnswersFit, LiveIsAwaited, setting' = setting,
           NEW c \in Clients, Quiet(c)
    PROVE  Rests(c) /\ TypeOK'
<1>1. /\ client[c].conn # "wait"
      /\ client[c].pc \notin Leaving
      /\ client[c].answer.key = NoKey
  BY Asking DEF Quiet, Find, Pinged, ForkFails, Look, LookPinged, Sleep, GiveUp,
                RegisterThrows, MetadataSent, ShutdownSent, AnswersFit, Asks, Leaving
<1>2. Silent(c)
  BY <1>1, Silence
<1>3. ASSUME NEW next \in Client, Step(c, next),
             next.conn = "none", next.answer = NoAnswer,
             next.key = client[c].key, next.id = client[c].id
      PROVE  Rests(c) /\ TypeOK'
  BY <1>1, <1>2, <1>3, StepsRest DEF Step, Becomes
<1>4. {"idle", "find", "ping", "launch", "look", "look_ping", "sleep", "register"} \subseteq Points
  BY Asking DEF Points, Asks
<1>5. CASE Find(c)
  BY <1>3, <1>4, <1>5, HasSeen DEF Find
<1>6. CASE Pinged(c)
  BY <1>3, <1>4, <1>6, Gone DEF Pinged
<1>7. CASE ForkFails(c) \/ RegisterThrows(c) \/ MetadataSent(c) \/ ShutdownSent(c)
  BY <1>3, <1>7, Returned DEF ForkFails, RegisterThrows, MetadataSent, ShutdownSent
<1>8. CASE Look(c)
  BY <1>3, <1>4, <1>8, HasSeen DEF Look
<1>9. CASE LookPinged(c)
  BY <1>3, <1>4, <1>9, Gone DEF LookPinged
<1>10. CASE Sleep(c)
  <2> DEFINE g == GoTo(c, "look")
             n == [g EXCEPT !.try = IF setting.slow THEN @ + 1 ELSE @]
  <2>1. g \in Client /\ g.conn = "none" /\ g.answer = NoAnswer
        /\ g.key = client[c].key /\ g.id = client[c].id
    BY <1>4, Gone
  <2> HIDE DEF g
  <2>2. n \in Client /\ n.conn = "none" /\ n.answer = NoAnswer
        /\ n.key = client[c].key /\ n.id = client[c].id
    BY <2>1 DEF Client
  <2>3. Step(c, n)
    BY <1>10 DEF Sleep, g
  <2> HIDE DEF n
  <2> QED BY <1>3, <2>2, <2>3
<1>11. CASE GiveUp(c)
  <2> DEFINE g == Return(c)
             n == [g EXCEPT !.has_hub = FALSE]
  <2>1. g \in Client /\ g.conn = "none" /\ g.answer = NoAnswer
        /\ g.key = client[c].key /\ g.id = client[c].id
    BY Returned
  <2> HIDE DEF g
  <2>2. n \in Client /\ n.conn = "none" /\ n.answer = NoAnswer
        /\ n.key = client[c].key /\ n.id = client[c].id
    BY <2>1 DEF Client
  <2>3. Step(c, n)
    BY <1>11 DEF GiveUp, GivenUp, g
  <2> HIDE DEF n
  <2> QED BY <1>3, <2>2, <2>3
<1> QED BY <1>5, <1>6, <1>7, <1>8, <1>9, <1>10, <1>11 DEF Quiet

LEMMA CallRests ==
    ASSUME TypeOK, AnswersFit, LiveIsAwaited, setting' = setting,
           NEW c \in Clients, NEW method \in Methods, Call(c, method)
    PROVE  Rests(c) /\ TypeOK'
<1>1. /\ client[c].conn # "wait"
      /\ client[c].pc \notin Leaving
      /\ client[c].answer.key = NoKey
  BY Asking DEF Call, AnswersFit, Asks, Leaving
<1>2. Silent(c)
  BY <1>1, Silence
<1>3. {"find", "unregister", "clear", "shutdown"} \subseteq Points
  BY Asking DEF Points, Asks
<1>4. PICK next \in Client :
         /\ Becomes(c, next)
         /\ next.conn = "none" /\ next.answer = NoAnswer
         /\ next.key = client[c].key /\ next.id = client[c].id
  <2> DEFINE g(pc) == GoTo(c, pc)
             r == Return(c)
             n == CASE method = "connect"      -> g("find")
                    [] method = "disconnect"   -> IF client[c].has_hub THEN g("unregister") ELSE r
                    [] method = "clear"        -> g("clear")
                    [] method = "shutdown_hub" -> g("shutdown")
  <2>1. \A pc \in {"find", "unregister", "clear", "shutdown"} :
            g(pc) \in Client /\ g(pc).conn = "none" /\ g(pc).answer = NoAnswer
            /\ g(pc).key = client[c].key /\ g(pc).id = client[c].id
    BY <1>3, Gone
  <2>2. r \in Client /\ r.conn = "none" /\ r.answer = NoAnswer
        /\ r.key = client[c].key /\ r.id = client[c].id
    BY Returned
  <2>3. client' = [client EXCEPT ![c] = n] /\ UNCHANGED <<lockfile, hub, issued>>
    BY DEF Call, TypeOK
  <2> HIDE DEF g, r
  <2>4. n \in Client /\ n.conn = "none" /\ n.answer = NoAnswer
        /\ n.key = client[c].key /\ n.id = client[c].id
    BY <2>1, <2>2 DEF Methods
  <2> QED BY <2>3, <2>4 DEF Becomes
<1> QED BY <1>1, <1>2, <1>4, StepsRest

LEMMA UnbornHubs ==
    ASSUME TypeOK
    PROVE  Unborn \subseteq Hubs /\ Unborn \subseteq Nat
<1>1. setting.hubs \in 0..MaxHubs /\ MaxHubs \in Nat
  BY SettingAssumption DEF TypeOK, Setting
<1> QED BY <1>1 DEF Unborn, Hubs

LEMMA LaunchRests ==
    ASSUME TypeOK, AnswersFit, LiveIsAwaited, setting' = setting,
           NEW c \in Clients, Launch(c)
    PROVE  /\ Rests(c) /\ TypeOK'
           /\ UNCHANGED lockfile
           /\ \E h \in Unborn : hub' = [hub EXCEPT ![h].state = "launched"]
<1>1. /\ client[c].conn # "wait"
      /\ client[c].pc \notin Leaving
      /\ client[c].answer.key = NoKey
  BY Asking DEF Launch, AnswersFit, Asks, Leaving
<1>2. Silent(c)
  BY <1>1, Silence
<1> DEFINE h == CHOOSE k \in Unborn : \A j \in Unborn : k <= j
           g == GoTo(c, "look")
           n == [g EXCEPT !.try = 0]
<1>3. h \in Unborn
  <2>1. Unborn # {} /\ Unborn \in SUBSET Nat
    BY UnbornHubs DEF Launch
  <2>2. \E k \in Unborn : \A j \in Unborn : k <= j
    BY <2>1, LeastNatural
  <2> QED BY <2>2
<1>4. "look" \in Points
  BY DEF Points
<1>5. n \in Client /\ n.conn = "none" /\ n.answer = NoAnswer
      /\ n.key = client[c].key /\ n.id = client[c].id
  <2>1. g \in Client /\ g.conn = "none" /\ g.answer = NoAnswer
        /\ g.key = client[c].key /\ g.id = client[c].id
    BY <1>4, Gone
  <2> HIDE DEF g
  <2> QED BY <2>1 DEF Client
<1>6. /\ hub' = [hub EXCEPT ![h].state = "launched"]
      /\ client' = [client EXCEPT ![c] = n]
      /\ UNCHANGED <<lockfile, issued>>
  BY DEF Launch
<1> HIDE DEF h, n
<1>7. TypeOK'
  BY <1>5, <1>6 DEF TypeOK, Hub
<1>8. TablesKept /\ QueuesKept
  BY <1>6 DEF TypeOK, Hub, TablesKept, QueuesKept
<1>9. client'[c] = n /\ OthersKept(c)
  BY <1>6 DEF TypeOK, OthersKept
<1> QED BY <1>1, <1>2, <1>3, <1>5, <1>6, <1>7, <1>8, <1>9 DEF Rests, KeepsKey

LEMMA RegisteredRests ==
    ASSUME TypeOK, AnswersFit, LiveIsAwaited, setting' = setting,
           NEW c \in Clients, Registered(c)
    PROVE  Rests(c) /\ TypeOK'
<1>1. client[c].conn # "wait" /\ client[c].pc = "register"
  BY DEF Registered
<1>2. Silent(c)
  BY <1>1, Silence
<1> DEFINE g == GoTo(c, "metadata")
           a == client[c].answer
           n == [g EXCEPT !.key = a.key, !.id = a.id]
<1>3. "metadata" \in Points /\ a.key \in Nat /\ a.id \in Nat
  BY Asking DEF Points, Asks, TypeOK, Client
<1>4. n \in Client /\ n.conn = "none" /\ n.answer = NoAnswer
      /\ n.key = a.key /\ n.id = a.id
  <2>1. g \in Client /\ g.conn = "none" /\ g.answer = NoAnswer
    BY <1>3, Gone
  <2> HIDE DEF g, a
  <2> QED BY <1>3, <2>1 DEF Client
<1>5. Becomes(c, n)
  BY DEF Registered, Step, Becomes
<1> HIDE DEF n
<1> QED BY <1>1, <1>2, <1>4, <1>5, StepsRest

LEMMA LeavingRests ==
    ASSUME TypeOK, AnswersFit, LiveIsAwaited, UnregisterForsaken, setting' = setting,
           NEW c \in Clients, Unregistered(c) \/ Cleared(c)
    PROVE  Rests(c) /\ TypeOK'
<1>1. /\ client[c].pc \in Leaving /\ RequestOver(c)
      /\ Connected(c) => client[c].conn # "wait"
  BY DEF Unregistered, Cleared, RequestOver, Leaving
<1>2. Silent(c)
  <2>1. CASE client[c].conn # "wait"
    BY <2>1, Silence
  <2>2. CASE ~Connected(c)
    <3>1. SUFFICES ASSUME NEW h \in Hubs, NEW i \in DOMAIN hub[h].queue,
                          hub[h].queue[i].live, hub[h].queue[i].from = c
                   PROVE  FALSE
      BY DEF Silent
    <3>2. hub[h].queue[i].method = "unregister" /\ hub[h].queue[i].key = NoKey
      BY <1>1, <2>2, <3>1, Asking DEF LiveIsAwaited, Awaited, Connected
    <3> QED BY <3>2 DEF UnregisterForsaken, NoKey
  <2> QED BY <1>1, <2>1, <2>2
<1> DEFINE g == Return(c)
           u == [g EXCEPT !.key = NoKey, !.id = 0]
           v == [g EXCEPT !.key = NoKey, !.id = 0, !.has_hub = FALSE, !.host = FALSE]
<1>3. g \in Client /\ g.conn = "none" /\ g.answer = NoAnswer
  BY Returned
<1> HIDE DEF g
<1>4. /\ u \in Client /\ u.conn = "none" /\ u.answer = NoAnswer /\ u.key = NoKey
      /\ v \in Client /\ v.conn = "none" /\ v.answer = NoAnswer /\ v.key = NoKey
  BY <1>3 DEF Client, NoKey
<1>5. Becomes(c, u) \/ Becomes(c, v)
  BY DEF Unregistered, Cleared, Step, Becomes, g
<1> HIDE DEF u, v
<1> QED BY <1>1, <1>2, <1>4, <1>5, StepsRest

(* ... the request of a client, ...                                        *)
RequestOf(c) == [method |-> RequestAt[client[c].pc], from |-> c,
                 key |-> client[c].key, live |-> TRUE]

QueuedAt(h, r) ==
    /\ hub'[h].queue = Append(hub[h].queue, r)
    /\ \A k \in Hubs \ {h} : hub'[k].queue = hub[k].queue

OnlyConn(c) ==
    /\ client'[c].pc = client[c].pc /\ client'[c].answer = client[c].answer
    /\ client'[c].key = client[c].key /\ client'[c].id = client[c].id
    /\ client'[c].host = client[c].host

Posts(c) ==
    /\ TablesKept /\ issued' = issued /\ OthersKept(c) /\ OnlyConn(c)
    /\ client[c].pc \in Asks /\ client[c].conn = "none"
    /\ client[c].pc \in Leaving => Connected(c)
    /\ \/ /\ client'[c].conn = "no" /\ QueuesKept
          /\ ~client[c].host \/ Listening = {}
       \/ /\ client'[c].conn = "wait"
          /\ \E h \in Listening : QueuedAt(h, RequestOf(c))

LEMMA RequestPosts ==
    ASSUME TypeOK, setting' = setting, NEW c \in Clients, Post(c)
    PROVE  Posts(c) /\ TypeOK' /\ (\A h \in Hubs : hub'[h].state = hub[h].state)
<1>1. /\ client[c].pc \in Asks /\ client[c].conn = "none" /\ issued' = issued
      /\ client[c].pc \in Leaving => Connected(c)
  BY Asking DEF Post, Leaving
<1>2. client[c] \in Client
  BY DEF TypeOK
<1>3. CASE client[c].host /\ Listening # {}
  <2>1. PICK h \in Listening :
           /\ hub' = [hub EXCEPT ![h].queue = Append(@, RequestOf(c))]
           /\ client' = [client EXCEPT ![c].conn = "wait"]
    BY <1>3 DEF Post, RequestOf
  <2>2. h \in Hubs /\ hub[h] \in Hub /\ hub[h].queue \in Seq(Request)
    BY DEF Listening, TypeOK, Hub
  <2>3. RequestOf(c) \in Request
    BY <1>1, <1>2, Asking DEF RequestOf, Request, Client
  <2>4. Append(hub[h].queue, RequestOf(c)) \in Seq(Request)
    BY <2>2, <2>3, LongerQueue
  <2> DEFINE q == Append(hub[h].queue, RequestOf(c))
  <2>5. hub' = [hub EXCEPT ![h] = [hub[h] EXCEPT !.queue = q]]
    BY <2>1, <2>2 DEF TypeOK
  <2>6. [hub[h] EXCEPT !.queue = q] \in Hub
    BY <2>2, <2>4 DEF Hub
  <2>7. hub'[h].queue = q /\ hub'[h].clients = hub[h].clients /\ hub'[h].state = hub[h].state
        /\ \A k \in Hubs \ {h} : hub'[k] = hub[k]
    <3> HIDE DEF q
    <3> QED BY <2>2, <2>5 DEF TypeOK, Hub
  <2>8. client'[c] = [client[c] EXCEPT !.conn = "wait"] /\ OthersKept(c)
    BY <2>1 DEF TypeOK, OthersKept
  <2>9. client'[c].conn = "wait" /\ OnlyConn(c)
    BY <1>2, <2>8 DEF Client, OnlyConn
  <2>10. client' \in [Clients -> Client]
    BY <1>2, <2>1 DEF TypeOK, Client
  <2>11. hub' \in [Hubs -> Hub]
    <3> HIDE DEF q
    <3> QED BY <2>5, <2>6 DEF TypeOK
  <2>12. TypeOK'
    BY <1>1, <2>10, <2>11 DEF Post, TypeOK
  <2>13. TablesKept /\ QueuedAt(h, RequestOf(c)) /\ (\A k \in Hubs : hub'[k].state = hub[k].state)
    BY <2>7 DEF TablesKept, QueuedAt
  <2> QED BY <1>1, <2>8, <2>9, <2>12, <2>13 DEF Posts
<1>4. CASE ~(client[c].host /\ Listening # {})
  <2>1. client' = [client EXCEPT ![c].conn = "no"] /\ UNCHANGED <<hub, issued, lockfile>>
    BY <1>4 DEF Post
  <2>2. client'[c] = [client[c] EXCEPT !.conn = "no"] /\ OthersKept(c)
    BY <2>1 DEF TypeOK, OthersKept
  <2>3. client'[c].conn = "no" /\ OnlyConn(c)
    BY <1>2, <2>2 DEF Client, OnlyConn
  <2>4. client' \in [Clients -> Client]
    BY <1>2, <2>1 DEF TypeOK, Client
  <2>5. TypeOK'
    BY <2>1, <2>4 DEF TypeOK
  <2>6. TablesKept /\ QueuesKept /\ (\A k \in Hubs : hub'[k].state = hub[k].state)
    BY <2>1 DEF TablesKept, QueuesKept
  <2> QED BY <1>1, <1>4, <2>2, <2>3, <2>5, <2>6 DEF Posts
<1> QED BY <1>3, <1>4

(* ... the end of its patience, ...                                        *)
GivesUpWaiting(c) ==
    /\ TablesKept /\ issued' = issued /\ OthersKept(c) /\ OnlyConn(c)
    /\ client[c].conn = "wait" /\ client'[c].conn = "no"
    /\ \A h \in Hubs : hub'[h].queue = Abandoned(hub[h].queue, c)

LEMMA TimeOutGivesUp ==
    ASSUME TypeOK, setting' = setting, NEW c \in Clients, TimeOut(c)
    PROVE  /\ GivesUpWaiting(c) /\ TypeOK'
           /\ \A h \in Hubs : hub'[h].state = hub[h].state
<1>1. client[c] \in Client /\ client' = [client EXCEPT ![c].conn = "no"]
      /\ UNCHANGED <<issued, lockfile>> /\ client[c].conn = "wait"
  BY DEF TypeOK, TimeOut
<1>2. client'[c] = [client[c] EXCEPT !.conn = "no"] /\ OthersKept(c)
  BY <1>1 DEF TypeOK, OthersKept
<1>3. client'[c].conn = "no" /\ OnlyConn(c)
  BY <1>1, <1>2 DEF Client, OnlyConn
<1>4. client' \in [Clients -> Client]
  BY <1>1 DEF TypeOK, Client
<1>5. ASSUME NEW h \in Hubs
      PROVE  /\ hub'[h] \in Hub
             /\ hub'[h].queue = Abandoned(hub[h].queue, c)
             /\ hub'[h].clients = hub[h].clients
             /\ hub'[h].state = hub[h].state
  <2>1. hub[h] \in Hub /\ hub[h].queue \in Seq(Request)
    BY DEF TypeOK, Hub
  <2> DEFINE q == Abandoned(hub[h].queue, c)
  <2>2. q \in Seq(Request)
    BY <2>1, AbandonedQueue
  <2>3. hub'[h] = [hub[h] EXCEPT !.queue = q]
    BY DEF TimeOut
  <2> HIDE DEF q
  <2> QED BY <2>1, <2>2, <2>3 DEF Hub, q
<1>6. hub' \in [Hubs -> Hub]
  BY <1>5 DEF TimeOut
<1>7. TypeOK'
  BY <1>1, <1>4, <1>6 DEF TypeOK
<1> QED BY <1>1, <1>2, <1>3, <1>5, <1>7 DEF GivesUpWaiting, TablesKept

(* ... a hub that starts, ...                                              *)
Starts(h) == OpenLockfile(h) \/ WriteLockfile(h) \/ Listen(h) \/ BindFails(h)

LEMMA StartChangesState ==
    ASSUME TypeOK, setting' = setting, NEW h \in Hubs, Starts(h)
    PROVE  /\ TablesKept /\ QueuesKept /\ UNCHANGED <<client, issued>> /\ TypeOK'
           /\ \A k \in Hubs \ {h} : hub'[k].state = hub[k].state
           /\ \/ /\ hub[h].state = "launched" /\ hub'[h].state = "opened"
                 /\ lockfile' = "empty"
              \/ /\ hub[h].state = "opened" /\ hub'[h].state = "filed"
                 /\ lockfile' = "written"
              \/ /\ hub[h].state = "filed" /\ hub'[h].state = "listening"
                 /\ lockfile' = lockfile
              \/ /\ hub[h].state = "filed" /\ hub'[h].state = "ended"
                 /\ ~setting.reuse_port
<1>1. PICK state \in {"opened", "filed", "listening", "ended"} :
         hub' = [hub EXCEPT ![h].state = state]
  BY DEF Starts, OpenLockfile, WriteLockfile, Listen, BindFails
<1>2. UNCHANGED <<client, issued>> /\ lockfile' \in {lockfile, "empty", "written", "absent"}
  BY DEF Starts, OpenLockfile, WriteLockfile, Listen, BindFails
<1>3. hub[h] \in Hub
  BY DEF TypeOK
<1>4. /\ TablesKept /\ QueuesKept /\ hub'[h].state = state
      /\ \A k \in Hubs \ {h} : hub'[k].state = hub[k].state
  BY <1>1, <1>3 DEF TypeOK, Hub, TablesKept, QueuesKept
<1>5. TypeOK'
  BY <1>1, <1>2, <1>3 DEF TypeOK, Hub
<1>6. \/ /\ hub[h].state = "launched" /\ hub' = [hub EXCEPT ![h].state = "opened"]
         /\ lockfile' = "empty"
      \/ /\ hub[h].state = "opened" /\ hub' = [hub EXCEPT ![h].state = "filed"]
         /\ lockfile' = "written"
      \/ /\ hub[h].state = "filed" /\ hub' = [hub EXCEPT ![h].state = "listening"]
         /\ lockfile' = lockfile
      \/ /\ hub[h].state = "filed" /\ hub' = [hub EXCEPT ![h].state = "ended"]
         /\ ~setting.reuse_port
  BY DEF Starts, OpenLockfile, WriteLockfile, Listen, BindFails
<1>7. \A s : hub' = [hub EXCEPT ![h].state = s] => hub'[h].state = s
  BY <1>3 DEF TypeOK, Hub
<1> QED BY <1>2, <1>4, <1>5, <1>6, <1>7

(* ... a hub that serves, ...                                              *)
First(h) == Head(hub[h].queue)

Answered(r, d) ==
    /\ client'[d].pc = client[d].pc /\ client'[d].host = client[d].host
    /\ client'[d].key = client[d].key /\ client'[d].id = client[d].id
    /\ client'[d].conn \in {"yes", "no"}
    /\ r.method \in {"ping", "register"} => client'[d].conn = "yes"
    /\ r.method # "register" => client'[d].answer = NoAnswer

Service(h) ==
    /\ h \in Listening /\ hub[h].queue # <<>>
    /\ hub'[h].queue = Tail(hub[h].queue)
    /\ \A k \in Hubs \ {h} : hub'[k].queue = hub[k].queue /\ hub'[k].clients = hub[k].clients
    /\ \A d \in Clients :
          IF First(h).live /\ d = First(h).from THEN Answered(First(h), d)
          ELSE client'[d] = client[d]

NewEntry(h) == [reference   |-> FreeReference(hub[h].clients),
                private_key |-> issued + 1,
                owner       |-> First(h).from]

Registers(h) ==
    /\ First(h).method = "register"
    /\ issued' = issued + 1
    /\ hub'[h].clients = Append(hub[h].clients, NewEntry(h))
    /\ NewEntry(h) \in Entry
    /\ First(h).live => client'[First(h).from].answer =
                           [key |-> issued + 1, id |-> NewEntry(h).reference]

Unregisters(h) ==
    LET i == IndexOfKey(hub[h].clients, First(h).key)
    IN  /\ First(h).method = "unregister"
        /\ issued' = issued
        /\ hub'[h].clients = IF i = 0 THEN hub[h].clients ELSE Erase(hub[h].clients, i)

OnlyAnswers(h) ==
    /\ First(h).method \in {"ping", "metadata"}
    /\ issued' = issued
    /\ hub'[h].clients = hub[h].clients

LEMMA AnswerGiven ==
    ASSUME TypeOK, NEW r \in Request, NEW valid \in BOOLEAN, NEW a \in [key : Nat, id : Nat],
           client' = Answer(r, valid, a),
           r.method \in {"ping", "register"} => valid,
           r.method # "register" => a = NoAnswer
    PROVE  /\ client' \in [Clients -> Client]
           /\ \A d \in Clients :
                 IF r.live /\ d = r.from THEN Answered(r, d) /\ client'[d].answer = a
                 ELSE client'[d] = client[d]
<1> DEFINE v == IF valid THEN "yes" ELSE "no"
           n == [client[r.from] EXCEPT !.conn = v, !.answer = a]
<1>1. r.from \in Clients /\ client[r.from] \in Client /\ r.live \in BOOLEAN
  BY DEF TypeOK, Request
<1>2. v \in {"yes", "no"} /\ (r.method \in {"ping", "register"} => v = "yes")
  OBVIOUS
<1> HIDE DEF v
<1>3. /\ n \in Client
      /\ n.pc = client[r.from].pc /\ n.host = client[r.from].host
      /\ n.key = client[r.from].key /\ n.id = client[r.from].id
      /\ n.conn = v /\ n.answer = a
  BY <1>1, <1>2 DEF Client
<1>4. client' = IF r.live THEN [client EXCEPT ![r.from] = n] ELSE client
  BY <1>1 DEF Answer, TypeOK, v
<1> HIDE DEF n
<1>5. client' \in [Clients -> Client]
  BY <1>3, <1>4 DEF TypeOK
<1>6. \A d \in Clients : IF r.live /\ d = r.from THEN client'[d] = n
                         ELSE client'[d] = client[d]
  BY <1>1, <1>4 DEF TypeOK
<1> QED BY <1>2, <1>3, <1>5, <1>6 DEF Answered

LEMMA HubServed ==
    ASSUME TypeOK, NEW h \in Hubs, NEW q \in Seq(Request), NEW t \in Seq(Entry),
           \/ hub' = [hub EXCEPT ![h].queue = q, ![h].clients = t]
           \/ hub' = [hub EXCEPT ![h].queue = q] /\ t = hub[h].clients
    PROVE  /\ hub' \in [Hubs -> Hub]
           /\ hub'[h].queue = q /\ hub'[h].clients = t /\ hub'[h].state = hub[h].state
           /\ \A k \in Hubs \ {h} : hub'[k] = hub[k]
<1> DEFINE n == [hub[h] EXCEPT !.queue = q, !.clients = t]
<1>1. hub[h] \in Hub
  BY DEF TypeOK
<1>2. /\ n \in Hub /\ n.queue = q /\ n.clients = t /\ n.state = hub[h].state
  BY <1>1 DEF Hub
<1>3. hub' = [hub EXCEPT ![h] = n]
  <2>1. CASE hub' = [hub EXCEPT ![h].queue = q, ![h].clients = t]
    BY <2>1 DEF TypeOK
  <2>2. CASE hub' = [hub EXCEPT ![h].queue = q] /\ t = hub[h].clients
    <3>1. n = [hub[h] EXCEPT !.queue = q]
      BY <1>1, <2>2 DEF Hub
    <3> QED BY <2>2, <3>1 DEF TypeOK
  <2> QED BY <2>1, <2>2
<1> HIDE DEF n
<1> QED BY <1>2, <1>3 DEF TypeOK

Handles(h) == Ping(h) \/ Register(h) \/ DeclareMetadata(h) \/ Unregister(h)

LEMMA HandlersServe ==
    ASSUME TypeOK, setting' = setting, NEW h \in Hubs, Handles(h)
    PROVE  /\ Service(h)
           /\ Registers(h) \/ Unregisters(h) \/ OnlyAnswers(h)
           /\ TypeOK' /\ UNCHANGED lockfile
           /\ \A k \in Hubs : hub'[k].state = hub[k].state
<1> DEFINE r == First(h)
           q == Tail(hub[h].queue)
           t == hub[h].clients
<1>1. /\ h \in Listening /\ hub[h].queue # <<>>
      /\ UNCHANGED lockfile
  BY DEF Handles, Ping, Register, DeclareMetadata, Unregister, Serves, Listening
<1>2. hub[h].queue \in Seq(Request) /\ t \in Seq(Entry)
  BY DEF TypeOK, Hub
<1>3. r \in Request /\ q \in Seq(Request)
  BY <1>1, <1>2, ShiftedQueue DEF First
<1>4. NoAnswer \in [key : Nat, id : Nat]
  BY DEF NoAnswer, NoKey
<1> HIDE DEF r, q, t
<1>5. ASSUME NEW s \in Seq(Entry), NEW valid \in BOOLEAN, NEW a \in [key : Nat, id : Nat],
             issued' \in Nat, client' = Answer(r, valid, a),
             r.method \in {"ping", "register"} => valid,
             r.method # "register" => a = NoAnswer,
             \/ hub' = [hub EXCEPT ![h].queue = q, ![h].clients = s]
             \/ hub' = [hub EXCEPT ![h].queue = q] /\ s = hub[h].clients
      PROVE  /\ Service(h) /\ TypeOK'
             /\ hub'[h].clients = s
             /\ r.live => client'[r.from].answer = a
             /\ \A k \in Hubs : hub'[k].state = hub[k].state
  <2>1. /\ client' \in [Clients -> Client]
        /\ \A d \in Clients :
              IF r.live /\ d = r.from THEN Answered(r, d) /\ client'[d].answer = a
              ELSE client'[d] = client[d]
    BY <1>3, <1>5, AnswerGiven
  <2>2. /\ hub' \in [Hubs -> Hub]
        /\ hub'[h].queue = q /\ hub'[h].clients = s /\ hub'[h].state = hub[h].state
        /\ \A k \in Hubs \ {h} : hub'[k] = hub[k]
    BY <1>3, <1>5, HubServed
  <2>3. TypeOK'
    BY <1>1, <1>5, <2>1, <2>2 DEF TypeOK
  <2>4. Service(h)
    BY <1>1, <2>1, <2>2 DEF Service, q, r
  <2>5. r.live => client'[r.from].answer = a
    BY <1>3, <2>1 DEF Request
  <2> QED BY <2>2, <2>3, <2>4, <2>5
<1>6. CASE Ping(h)
  <2>1. /\ hub' = [hub EXCEPT ![h].queue = q] /\ client' = Answer(r, TRUE, NoAnswer)
        /\ issued' = issued /\ r.method = "ping"
    BY <1>6 DEF Ping, Serves, First, q, r
  <2>2. issued' \in Nat
    BY <2>1 DEF TypeOK
  <2>3. /\ Service(h) /\ TypeOK' /\ hub'[h].clients = t
        /\ \A k \in Hubs : hub'[k].state = hub[k].state
    BY <1>2, <1>4, <1>5, <2>1, <2>2 DEF t
  <2> QED BY <1>1, <2>1, <2>3 DEF OnlyAnswers, r, t
<1>7. CASE DeclareMetadata(h)
  <2> DEFINE valid == IndexOfKey(hub[h].clients, r.key) # 0
  <2>1. /\ hub' = [hub EXCEPT ![h].queue = q] /\ client' = Answer(r, valid, NoAnswer)
        /\ issued' = issued /\ r.method = "metadata"
    BY <1>7 DEF DeclareMetadata, Serves, First, q, r
  <2>2. issued' \in Nat /\ valid \in BOOLEAN
    BY <2>1 DEF TypeOK
  <2> HIDE DEF valid
  <2>3. /\ Service(h) /\ TypeOK' /\ hub'[h].clients = t
        /\ \A k \in Hubs : hub'[k].state = hub[k].state
    BY <1>2, <1>4, <1>5, <2>1, <2>2 DEF t
  <2> QED BY <1>1, <2>1, <2>3 DEF OnlyAnswers, r, t
<1>8. CASE Unregister(h)
  <2> DEFINE i == IndexOfKey(hub[h].clients, r.key)
             valid == i # 0
             s == IF i = 0 THEN t ELSE Erase(t, i)
  <2>1. /\ hub' = [hub EXCEPT ![h].queue = q, ![h].clients = s]
        /\ client' = Answer(r, valid, NoAnswer)
        /\ issued' = issued /\ r.method = "unregister"
    <3>1. /\ hub' = [hub EXCEPT ![h].queue = Tail(@), ![h].clients = IF i = 0 THEN @ ELSE Erase(@, i)]
          /\ client' = Answer(r, valid, NoAnswer)
          /\ issued' = issued /\ r.method = "unregister"
      BY <1>8 DEF Unregister, Serves, First, r
    <3> HIDE DEF i
    <3> QED BY <3>1 DEF q, t, TypeOK, Hub
  <2>2. issued' \in Nat /\ valid \in BOOLEAN
    BY <2>1 DEF TypeOK
  <2>3. i \in 0..Len(t)
    BY <1>2, FirstWithKey DEF t
  <2>4. s \in Seq(Entry)
    <3>1. Len(t) \in Nat
      BY <1>2, LenProperties
    <3>2. i # 0 => i \in 1..Len(t)
      BY <2>3, <3>1
    <3> HIDE DEF i
    <3> QED BY <1>2, <3>2, ErasedTable
  <2> HIDE DEF valid, s
  <2>5. /\ Service(h) /\ TypeOK' /\ hub'[h].clients = s
        /\ \A k \in Hubs : hub'[k].state = hub[k].state
    BY <1>4, <1>5, <2>1, <2>2, <2>4
  <2>6. Unregisters(h)
    BY <2>1, <2>5 DEF Unregisters, r, s, t
  <2> QED BY <1>1, <2>5, <2>6
<1>9. CASE Register(h)
  <2> DEFINE n == NewEntry(h)
             s == Append(t, n)
             a == [key |-> issued + 1, id |-> n.reference]
  <2>1. /\ hub' = [hub EXCEPT ![h].queue = q, ![h].clients = s]
        /\ client' = Answer(r, TRUE, a)
        /\ issued' = issued + 1 /\ r.method = "register"
    <3>1. /\ hub' = [hub EXCEPT ![h].queue = Tail(@), ![h].clients = Append(@, n)]
          /\ client' = Answer(r, TRUE, a)
          /\ issued' = issued + 1 /\ r.method = "register"
      BY <1>9 DEF Register, Serves, First, NewEntry, r
    <3> HIDE DEF n
    <3> QED BY <3>1 DEF q, t, TypeOK, Hub
  <2>2. n \in Entry /\ a \in [key : Nat, id : Nat]
    <3>1. FreeReference(t) \in 0..Len(t) /\ Len(t) \in Nat
      BY <1>2, NewReference, LenProperties
    <3>2. FreeReference(t) \in Nat /\ issued + 1 \in Nat /\ r.from \in Clients
      BY <1>3, <3>1 DEF Request, TypeOK
    <3> QED BY <3>2 DEF NewEntry, Entry, r, t
  <2>3. s \in Seq(Entry) /\ issued' \in Nat
    BY <1>2, <2>1, <2>2, LongerQueue DEF TypeOK
  <2> HIDE DEF s, a, n
  <2>4. /\ Service(h) /\ TypeOK' /\ hub'[h].clients = s
        /\ r.live => client'[r.from].answer = a
        /\ \A k \in Hubs : hub'[k].state = hub[k].state
    BY <1>5, <2>1, <2>2, <2>3
  <2>5. Registers(h)
    BY <2>1, <2>2, <2>4 DEF Registers, r, s, t, a, n
  <2> QED BY <1>1, <2>4, <2>5
<1> QED BY <1>6, <1>7, <1>8, <1>9 DEF Handles

(* ... and a hub that is shut down.                                        *)
Waits(h, c) == \E i \in DOMAIN hub[h].queue :
                  hub[h].queue[i].live /\ hub[h].queue[i].from = c

ShutsDown(h) ==
    /\ h \in Listening /\ hub[h].queue # <<>> /\ First(h).method = "shutdown"
    /\ hub'[h].state = "ended" /\ hub'[h].queue = <<>>
    /\ \A k \in Hubs \ {h} : hub'[k] = hub[k]
    /\ TablesKept /\ issued' = issued /\ lockfile' = lockfile
    /\ \A d \in Clients :
          IF Waits(h, d) THEN OnlyConn(d) /\ client'[d].conn \in {"yes", "no"}
          ELSE client'[d] = client[d]

LEMMA ShutdownEnds ==
    ASSUME TypeOK, setting' = setting, NEW h \in Hubs, Shutdown(h)
    PROVE  ShutsDown(h) /\ TypeOK'
<1>1. /\ h \in Listening /\ hub[h].queue # <<>> /\ First(h).method = "shutdown"
      /\ issued' = issued /\ lockfile' = lockfile
      /\ hub' = [hub EXCEPT ![h].state = "ended", ![h].queue = <<>>]
  BY DEF Shutdown, Serves, First, Listening, LockfileAtExit
<1>2. hub[h] \in Hub /\ <<>> \in Seq(Request)
  BY EmptySeq DEF TypeOK
<1> DEFINE n == [hub[h] EXCEPT !.state = "ended", !.queue = <<>>]
<1>3. n \in Hub /\ n.state = "ended" /\ n.queue = <<>> /\ n.clients = hub[h].clients
  BY <1>2 DEF Hub
<1>4. hub' = [hub EXCEPT ![h] = n]
  BY <1>1 DEF TypeOK
<1> HIDE DEF n
<1>5. /\ hub' \in [Hubs -> Hub] /\ hub'[h] = n
      /\ \A k \in Hubs \ {h} : hub'[k] = hub[k]
  BY <1>3, <1>4 DEF TypeOK
<1>6. TablesKept
  BY <1>3, <1>5 DEF TablesKept
<1>7. ASSUME NEW d \in Clients
      PROVE  /\ client'[d] \in Client
             /\ IF Waits(h, d) THEN OnlyConn(d) /\ client'[d].conn \in {"yes", "no"}
                ELSE client'[d] = client[d]
  <2>1. client[d] \in Client
    BY DEF TypeOK
  <2>2. PICK v \in {"yes", "no"} :
           client'[d] = IF Waits(h, d) THEN [client[d] EXCEPT !.conn = v] ELSE client[d]
    BY DEF Shutdown, Waits
  <2> QED BY <2>1, <2>2 DEF Client, OnlyConn
<1>8. client' \in [Clients -> Client]
  BY <1>7 DEF Shutdown
<1>9. TypeOK'
  BY <1>1, <1>5, <1>8 DEF TypeOK
<1> QED BY <1>1, <1>3, <1>5, <1>6, <1>7, <1>9 DEF ShutsDown

-----------------------------------------------------------------------------
(* The invariant, step by step                                             *)

SameSession == TablesKept /\ QueuesKept /\ UNCHANGED <<client, issued>>

Served(h) == Service(h) /\ (Registers(h) \/ Unregisters(h) \/ OnlyAnswers(h))

LEMMA Steps ==
    ASSUME TypeOK, AnswersFit, LiveIsAwaited, UnregisterForsaken, [Next]_vars
    PROVE  /\ TypeOK' /\ setting' = setting
           /\ \/ \E c \in Clients : Rests(c) \/ Posts(c) \/ GivesUpWaiting(c)
              \/ \E h \in Hubs : Served(h) \/ ShutsDown(h)
              \/ SameSession
<1>1. setting' = setting
  BY DEF Next, vars
<1>2. CASE UNCHANGED vars
  BY <1>2 DEF vars, TypeOK, SameSession, TablesKept, QueuesKept
<1>3. ASSUME NEW c \in Clients, InCall(c)
      PROVE  TypeOK' /\ (Rests(c) \/ Posts(c))
  BY <1>1, <1>3, QuietRests, LaunchRests, RegisteredRests, LeavingRests, RequestPosts
     DEF InCall, Quiet
<1>4. ASSUME NEW c \in Clients, TimeOut(c)
      PROVE  TypeOK' /\ GivesUpWaiting(c)
  BY <1>1, <1>4, TimeOutGivesUp
<1>5. ASSUME NEW c \in Clients, NEW method \in Methods, Call(c, method)
      PROVE  TypeOK' /\ Rests(c)
  BY <1>1, <1>5, CallRests
<1>6. ASSUME NEW h \in Hubs, InHub(h)
      PROVE  TypeOK' /\ (Served(h) \/ ShutsDown(h) \/ SameSession)
  BY <1>1, <1>6, StartChangesState, HandlersServe, ShutdownEnds
     DEF InHub, Starts, Handles, Served, SameSession
<1> QED BY <1>1, <1>2, <1>3, <1>4, <1>5, <1>6 DEF Next

(* The request that a hub takes from its queue, and what is left.          *)
LEMMA TakenRequest ==
    ASSUME TypeOK, NEW h \in Hubs, Service(h)
    PROVE  /\ 1 \in DOMAIN hub[h].queue /\ First(h) = hub[h].queue[1]
           /\ First(h) \in Request /\ First(h).from \in Clients
           /\ \A k \in Hubs : \A j \in DOMAIN hub'[k].queue :
                \E i \in DOMAIN hub[k].queue :
                    /\ hub'[k].queue[j] = hub[k].queue[i]
                    /\ k = h => i = j + 1 /\ i # 1 /\ j \in Nat
                    /\ k # h => i = j
<1>1. hub[h].queue \in Seq(Request) /\ hub[h].queue # <<>>
  BY DEF TypeOK, Hub, Service
<1>2. /\ 1 \in DOMAIN hub[h].queue /\ First(h) = hub[h].queue[1]
      /\ First(h) \in Request
  BY <1>1, ShiftedQueue DEF First
<1>3. \A j \in DOMAIN hub'[h].queue :
          /\ j + 1 \in DOMAIN hub[h].queue /\ j + 1 # 1 /\ j \in Nat
          /\ hub'[h].queue[j] = hub[h].queue[j + 1]
  BY <1>1, ShiftedQueue DEF Service
<1>4. \A k \in Hubs \ {h} : hub'[k].queue = hub[k].queue
  BY DEF Service
<1> QED BY <1>2, <1>3, <1>4 DEF Request

LEMMA PostedRequest ==
    ASSUME TypeOK, NEW c \in Clients, NEW h \in Hubs, client[c].pc \in Asks,
           QueuedAt(h, RequestOf(c))
    PROVE  \A k \in Hubs : \A j \in DOMAIN hub'[k].queue :
              \/ /\ j \in DOMAIN hub[k].queue
                 /\ hub'[k].queue[j] = hub[k].queue[j]
              \/ /\ k = h /\ j = Len(hub[h].queue) + 1
                 /\ hub'[k].queue[j] = RequestOf(c)
<1>1. hub[h].queue \in Seq(Request) /\ RequestOf(c) \in Request
  BY Asking DEF TypeOK, Hub, RequestOf, Request, Client
<1> QED BY <1>1, LongerQueue DEF QueuedAt

LEMMA AnswersStep ==
    TypeOK /\ AnswersFit /\ LiveIsAwaited /\ UnregisterForsaken /\ [Next]_vars
    => AnswersFit'
<1> SUFFICES ASSUME TypeOK, AnswersFit, LiveIsAwaited, UnregisterForsaken, [Next]_vars
             PROVE  AnswersFit'
  OBVIOUS
<1>1. ASSUME NEW c \in Clients, Rests(c)
      PROVE  AnswersFit'
  BY <1>1 DEF Rests, OthersKept, AnswersFit, NoAnswer
<1>2. ASSUME NEW c \in Clients, Posts(c)
      PROVE  AnswersFit'
  BY <1>2, Asking DEF Posts, OthersKept, OnlyConn, AnswersFit
<1>3. ASSUME NEW c \in Clients, GivesUpWaiting(c)
      PROVE  AnswersFit'
  BY <1>3 DEF GivesUpWaiting, OthersKept, OnlyConn, AnswersFit
<1>4. ASSUME NEW h \in Hubs, Served(h)
      PROVE  AnswersFit'
  <2> DEFINE r == First(h)
  <2>1. Service(h) /\ r \in Request /\ 1 \in DOMAIN hub[h].queue /\ r = hub[h].queue[1]
    BY <1>4, TakenRequest DEF Served
  <2>2. r.live => /\ client[r.from].pc \in DOMAIN RequestAt
                  /\ r.method = RequestAt[client[r.from].pc]
    BY <2>1 DEF LiveIsAwaited, Awaited
  <2>3. \A d \in Clients : IF r.live /\ d = r.from THEN Answered(r, d)
                           ELSE client'[d] = client[d]
    BY <2>1 DEF Service
  <2>4. r.method = "register" => (client[r.from].pc = "register") \/ ~r.live
    BY <2>2, Asking
  <2> HIDE DEF r
  <2> QED BY <2>1, <2>2, <2>3, <2>4 DEF Answered, AnswersFit, NoAnswer, NoKey, Request
<1>5. ASSUME NEW h \in Hubs, ShutsDown(h)
      PROVE  AnswersFit'
  <2>1. \A d \in Clients : Waits(h, d) => client[d].conn = "wait"
    BY DEF Waits, LiveIsAwaited, Awaited
  <2> QED BY <1>5, <2>1 DEF ShutsDown, OnlyConn, AnswersFit
<1>6. CASE SameSession
  BY <1>6 DEF SameSession, AnswersFit
<1> QED BY <1>1, <1>2, <1>3, <1>4, <1>5, <1>6, Steps

StillAwaited(r) ==
    /\ client'[r.from].conn = "wait"
    /\ client'[r.from].pc \in DOMAIN RequestAt
    /\ RequestAt[client'[r.from].pc] = r.method
    /\ client'[r.from].key = r.key

LEMMA LiveStep ==
    TypeOK /\ AnswersFit /\ LiveIsAwaited /\ OneLiveRequest /\ UnregisterForsaken
    /\ [Next]_vars => LiveIsAwaited' /\ OneLiveRequest'
<1> SUFFICES ASSUME TypeOK, AnswersFit, LiveIsAwaited, OneLiveRequest,
                    UnregisterForsaken, [Next]_vars
             PROVE  LiveIsAwaited' /\ OneLiveRequest'
  OBVIOUS
<1> DEFINE At(h, i) == hub[h].queue[i]
(* Queues in which each live request is one of before, whose client has    *)
(* not changed.                                                            *)
<1>1. ASSUME \A k \in Hubs : \A j \in DOMAIN hub'[k].queue : hub'[k].queue[j].live =>
                /\ j \in DOMAIN hub[k].queue
                /\ hub'[k].queue[j].from = hub[k].queue[j].from
                /\ hub'[k].queue[j].method = hub[k].queue[j].method
                /\ hub'[k].queue[j].key = hub[k].queue[j].key
                /\ hub[k].queue[j].live
                /\ client'[hub[k].queue[j].from] = client[hub[k].queue[j].from]
      PROVE  LiveIsAwaited' /\ OneLiveRequest'
  <2>1. LiveIsAwaited'
    <3>1. SUFFICES ASSUME NEW k \in Hubs, NEW j \in DOMAIN hub'[k].queue, hub'[k].queue[j].live
                   PROVE  StillAwaited(hub'[k].queue[j])
      BY DEF LiveIsAwaited, Awaited, StillAwaited
    <3>2. Awaited(hub[k].queue[j])
      BY <1>1, <3>1 DEF LiveIsAwaited
    <3>3. /\ hub'[k].queue[j].from = hub[k].queue[j].from
          /\ hub'[k].queue[j].method = hub[k].queue[j].method
          /\ hub'[k].queue[j].key = hub[k].queue[j].key
          /\ client'[hub[k].queue[j].from] = client[hub[k].queue[j].from]
      BY <1>1, <3>1
    <3> QED BY <3>2, <3>3 DEF Awaited, StillAwaited
  <2>2. OneLiveRequest'
    BY <1>1 DEF OneLiveRequest
  <2> QED BY <2>1, <2>2
<1>2. \A k \in Hubs : \A j \in DOMAIN hub[k].queue : hub[k].queue[j].from \in Clients
  <2>1. ASSUME NEW k \in Hubs, NEW j \in DOMAIN hub[k].queue
        PROVE  hub[k].queue[j].from \in Clients
    <3>1. hub[k].queue \in Seq(Request)
      BY DEF TypeOK, Hub
    <3>2. hub[k].queue[j] \in Request
      BY <3>1
    <3> QED BY <3>2 DEF Request
  <2> QED BY <2>1
<1>3. ASSUME NEW c \in Clients, Silent(c), QueuesKept, OthersKept(c)
      PROVE  LiveIsAwaited' /\ OneLiveRequest'
  BY <1>1, <1>2, <1>3 DEF Silent, QueuesKept, OthersKept
<1>4. ASSUME NEW c \in Clients, Rests(c)
      PROVE  LiveIsAwaited' /\ OneLiveRequest'
  BY <1>3, <1>4 DEF Rests
<1>5. ASSUME NEW c \in Clients, Posts(c)
      PROVE  LiveIsAwaited' /\ OneLiveRequest'
  <2>1. Silent(c)
    BY <1>5, Silence DEF Posts
  <2>2. CASE QueuesKept
    BY <1>3, <1>5, <2>1, <2>2 DEF Posts
  <2>3. CASE client'[c].conn = "wait" /\ \E h \in Listening : QueuedAt(h, RequestOf(c))
    <3>1. PICK h \in Hubs : QueuedAt(h, RequestOf(c))
      BY <2>3 DEF Listening
    <3>2. client[c].pc \in Asks /\ OthersKept(c) /\ OnlyConn(c)
      BY <1>5 DEF Posts
    <3>3. \A k \in Hubs : \A j \in DOMAIN hub'[k].queue :
              \/ /\ j \in DOMAIN hub[k].queue
                 /\ hub'[k].queue[j] = hub[k].queue[j]
              \/ /\ k = h /\ j = Len(hub[h].queue) + 1
                 /\ hub'[k].queue[j] = RequestOf(c)
      BY <3>1, <3>2, PostedRequest
    <3>4. /\ RequestOf(c).from = c /\ RequestOf(c).key = client[c].key
          /\ RequestOf(c).method = RequestAt[client[c].pc]
      BY DEF RequestOf
    <3>5. StillAwaited(RequestOf(c))
      BY <2>3, <3>2, <3>4, Asking DEF StillAwaited, OnlyConn
    <3>6. ASSUME NEW k \in Hubs, NEW j \in DOMAIN hub'[k].queue, hub'[k].queue[j].live
          PROVE  StillAwaited(hub'[k].queue[j])
      <4>1. CASE j \in DOMAIN hub[k].queue /\ hub'[k].queue[j] = hub[k].queue[j]
        <5>1. hub[k].queue[j].from # c /\ hub[k].queue[j].from \in Clients
          BY <1>2, <2>1, <3>6, <4>1 DEF Silent
        <5>2. client'[hub[k].queue[j].from] = client[hub[k].queue[j].from]
          BY <3>2, <5>1 DEF OthersKept
        <5>3. Awaited(hub[k].queue[j])
          BY <3>6, <4>1 DEF LiveIsAwaited
        <5>4. StillAwaited(hub[k].queue[j])
          BY <5>2, <5>3 DEF Awaited, StillAwaited
        <5> QED BY <4>1, <5>4
      <4>2. CASE hub'[k].queue[j] = RequestOf(c)
        BY <3>5, <4>2
      <4> QED BY <3>3, <4>1, <4>2
    <3>7. LiveIsAwaited'
      BY <3>6 DEF LiveIsAwaited, Awaited, StillAwaited
    <3>8. OneLiveRequest'
      <4>1. SUFFICES ASSUME NEW k \in Hubs, NEW l \in Hubs,
                            NEW i \in DOMAIN hub'[k].queue, NEW j \in DOMAIN hub'[l].queue,
                            hub'[k].queue[i].live, hub'[l].queue[j].live,
                            hub'[k].queue[i].from = hub'[l].queue[j].from
                     PROVE  k = l /\ i = j
        BY DEF OneLiveRequest
      <4>2. \/ /\ i \in DOMAIN hub[k].queue /\ hub'[k].queue[i] = hub[k].queue[i]
            \/ /\ k = h /\ i = Len(hub[h].queue) + 1
               /\ hub'[k].queue[i].from = c
        BY <3>3, <3>4
      <4>3. \/ /\ j \in DOMAIN hub[l].queue /\ hub'[l].queue[j] = hub[l].queue[j]
            \/ /\ l = h /\ j = Len(hub[h].queue) + 1
               /\ hub'[l].queue[j].from = c
        BY <3>3, <3>4
      <4> QED BY <2>1, <4>1, <4>2, <4>3 DEF OneLiveRequest, Silent
    <3> QED BY <3>7, <3>8
  <2> QED BY <1>5, <2>2, <2>3 DEF Posts
<1>6. ASSUME NEW c \in Clients, GivesUpWaiting(c)
      PROVE  LiveIsAwaited' /\ OneLiveRequest'
  <2>1. ASSUME NEW k \in Hubs, NEW j \in DOMAIN hub'[k].queue, hub'[k].queue[j].live
        PROVE  /\ j \in DOMAIN hub[k].queue
               /\ hub'[k].queue[j].from = hub[k].queue[j].from
               /\ hub'[k].queue[j].method = hub[k].queue[j].method
               /\ hub'[k].queue[j].key = hub[k].queue[j].key
               /\ hub[k].queue[j].live
               /\ client'[hub[k].queue[j].from] = client[hub[k].queue[j].from]
    <3>1. hub[k].queue \in Seq(Request) /\ hub'[k].queue = Abandoned(hub[k].queue, c)
      BY <1>6 DEF TypeOK, Hub, GivesUpWaiting
    <3>2. /\ j \in DOMAIN hub[k].queue
          /\ hub'[k].queue[j].method = hub[k].queue[j].method
          /\ hub'[k].queue[j].from = hub[k].queue[j].from
          /\ hub'[k].queue[j].key = hub[k].queue[j].key
          /\ hub[k].queue[j].live /\ hub[k].queue[j].from # c
      BY <2>1, <3>1, AbandonedQueue
    <3> QED BY <1>2, <1>6, <3>2 DEF GivesUpWaiting, OthersKept
  <2> QED BY <1>1, <2>1
<1>7. ASSUME NEW h \in Hubs, Served(h)
      PROVE  LiveIsAwaited' /\ OneLiveRequest'
  <2> DEFINE r == First(h)
  <2>1. /\ Service(h)
        /\ 1 \in DOMAIN hub[h].queue /\ r = hub[h].queue[1]
        /\ \A k \in Hubs : \A j \in DOMAIN hub'[k].queue :
                \E i \in DOMAIN hub[k].queue :
                    /\ hub'[k].queue[j] = hub[k].queue[i]
                    /\ k = h => i = j + 1 /\ i # 1 /\ j \in Nat
                    /\ k # h => i = j
    BY <1>7, TakenRequest DEF Served
  <2>2. \A d \in Clients : ~(r.live /\ d = r.from) => client'[d] = client[d]
    BY <2>1 DEF Service
  <2> HIDE DEF r
  <2>3. ASSUME NEW k \in Hubs, NEW j \in DOMAIN hub'[k].queue, hub'[k].queue[j].live
        PROVE  StillAwaited(hub'[k].queue[j])
    <3>1. PICK i \in DOMAIN hub[k].queue :
             hub'[k].queue[j] = hub[k].queue[i] /\ (k = h => i # 1)
      BY <2>1
    <3>2. ~(r.live /\ hub[k].queue[i].from = r.from)
      BY <2>1, <2>3, <3>1 DEF OneLiveRequest
    <3>3. hub[k].queue[i].live /\ hub[k].queue[i].from \in Clients
      BY <1>2, <2>3, <3>1
    <3>4. client'[hub[k].queue[i].from] = client[hub[k].queue[i].from]
      BY <2>2, <3>2, <3>3
    <3>5. Awaited(hub[k].queue[i])
      BY <3>3 DEF LiveIsAwaited
    <3>6. StillAwaited(hub[k].queue[i])
      BY <3>4, <3>5 DEF Awaited, StillAwaited
    <3> QED BY <3>1, <3>6
  <2>4. OneLiveRequest'
    <3>1. SUFFICES ASSUME NEW k \in Hubs, NEW l \in Hubs,
                          NEW i \in DOMAIN hub'[k].queue, NEW j \in DOMAIN hub'[l].queue,
                          hub'[k].queue[i].live, hub'[l].queue[j].live,
                          hub'[k].queue[i].from = hub'[l].queue[j].from
                   PROVE  k = l /\ i = j
      BY DEF OneLiveRequest
    <3>2. PICK m \in DOMAIN hub[k].queue :
             /\ hub'[k].queue[i] = hub[k].queue[m]
             /\ k = h => m = i + 1 /\ i \in Nat
             /\ k # h => m = i
      BY <2>1
    <3>3. PICK n \in DOMAIN hub[l].queue :
             /\ hub'[l].queue[j] = hub[l].queue[n]
             /\ l = h => n = j + 1 /\ j \in Nat
             /\ l # h => n = j
      BY <2>1
    <3>4. k = l /\ m = n
      BY <3>1, <3>2, <3>3 DEF OneLiveRequest
    <3> QED BY <3>2, <3>3, <3>4
  <2> QED BY <2>3, <2>4 DEF LiveIsAwaited, Awaited, StillAwaited
<1>8. ASSUME NEW h \in Hubs, ShutsDown(h)
      PROVE  LiveIsAwaited' /\ OneLiveRequest'
  <2>1. ASSUME NEW k \in Hubs, NEW j \in DOMAIN hub'[k].queue, hub'[k].queue[j].live
        PROVE  /\ k # h /\ hub'[k].queue = hub[k].queue
               /\ client'[hub[k].queue[j].from] = client[hub[k].queue[j].from]
    <3>1. k # h /\ hub'[k].queue = hub[k].queue
      BY <1>8, <2>1 DEF ShutsDown
    <3>2. ~Waits(h, hub[k].queue[j].from)
      BY <2>1, <3>1 DEF Waits, OneLiveRequest
    <3> QED BY <1>2, <1>8, <3>1, <3>2 DEF ShutsDown
  <2> QED BY <1>1, <2>1
<1>9. CASE SameSession
  BY <1>1, <1>9 DEF SameSession, QueuesKept
<1> QED BY <1>4, <1>5, <1>6, <1>7, <1>8, <1>9, Steps

(* A table from which a client is erased, or which is asked to erase one   *)
(* that it does not have.                                                  *)
LEMMA LeftEntries ==
    ASSUME TypeOK, KeysIssuedOnce, NEW h \in Hubs, Unregisters(h)
    PROVE  LET t == hub[h].clients
               u == hub'[h].clients
           IN  /\ \A j \in DOMAIN u : \E i \in DOMAIN t :
                     u[j] = t[i] /\ t[i].private_key # First(h).key
               /\ \A i \in DOMAIN t : t[i].private_key # First(h).key =>
                     \E j \in DOMAIN u : u[j] = t[i]
               /\ \A j, k \in DOMAIN u : u[j].private_key = u[k].private_key => j = k
<1> DEFINE t == hub[h].clients
           u == hub'[h].clients
           key == First(h).key
           i == IndexOfKey(t, key)
           L == Len(t)
<1>1. t \in Seq(Entry) /\ L \in Nat /\ DOMAIN t = 1..L
  BY LenProperties DEF TypeOK, Hub
<1>2. /\ i \in 0..L
      /\ i # 0 => t[i].private_key = key
      /\ (\E j \in 1..L : t[j].private_key = key) => i # 0
  BY <1>1, FirstWithKey
<1>3. u = IF i = 0 THEN t ELSE Erase(t, i)
  BY DEF Unregisters
<1>4. \A j, k \in DOMAIN t : t[j].private_key = t[k].private_key => j = k
  BY DEF KeysIssuedOnce
<1> HIDE DEF t, u, key, i, L
<1>5. CASE i = 0
  <2>1. u = t /\ \A j \in DOMAIN t : t[j].private_key # key
    BY <1>1, <1>2, <1>3, <1>5
  <2> QED BY <1>4, <2>1 DEF t, u, key
<1>6. CASE i # 0
  <2> DEFINE old(j) == IF j < i THEN j ELSE j + 1
  <2>1. i \in 1..L
    BY <1>1, <1>2, <1>6
  <2>2. i \in 1..Len(t)
    BY <2>1 DEF L
  <2>3. /\ u \in Seq(Entry) /\ Len(u) = L - 1
        /\ \A j \in 1..(L - 1) : u[j] = t[IF j < i THEN j ELSE j + 1]
    BY <1>1, <1>3, <1>6, <2>2, ErasedTable DEF L
  <2>4. DOMAIN u = 1..(L - 1)
    BY <2>3, LenProperties
  <2>5. \A j \in DOMAIN u : old(j) \in DOMAIN t /\ old(j) # i /\ u[j] = t[old(j)]
    BY <1>1, <2>1, <2>3, <2>4
  <2>6. \A j, k \in DOMAIN u : old(j) = old(k) => j = k
    BY <1>1, <2>1, <2>4
  <2>7. \A k \in DOMAIN t : k # i => \E j \in DOMAIN u : k = old(j)
    <3>1. ASSUME NEW k \in DOMAIN t, k # i
          PROVE  \E j \in DOMAIN u : k = old(j)
      <4>1. CASE k < i
        <5>1. k \in DOMAIN u
          BY <1>1, <2>1, <2>4, <4>1
        <5> QED BY <4>1, <5>1
      <4>2. CASE k > i
        <5>1. k - 1 \in DOMAIN u /\ ~(k - 1 < i) /\ (k - 1) + 1 = k
          BY <1>1, <2>1, <2>4, <4>2
        <5> QED BY <5>1
      <4> QED BY <1>1, <2>1, <3>1, <4>1, <4>2
    <3> QED BY <3>1
  <2> HIDE DEF old
  <2>8. \A k \in DOMAIN t : t[k].private_key = key => k = i
    BY <1>1, <1>2, <1>4, <1>6, <2>1
  <2>9. t[i].private_key = key
    BY <1>2, <1>6
  <2>10. \A j \in DOMAIN u : \E k \in DOMAIN t : u[j] = t[k] /\ t[k].private_key # key
    BY <2>5, <2>8
  <2>11. \A k \in DOMAIN t : t[k].private_key # key => \E j \in DOMAIN u : u[j] = t[k]
    BY <2>5, <2>7, <2>9
  <2>12. \A j, k \in DOMAIN u : u[j].private_key = u[k].private_key => j = k
    BY <1>4, <2>5, <2>6
  <2> QED BY <2>10, <2>11, <2>12 DEF t, u, key
<1> QED BY <1>5, <1>6

(* Each step but the answer to register leaves a client what keys it had.  *)
LEMMA HeldStep ==
    ASSUME TypeOK, AnswersFit, LiveIsAwaited, UnregisterForsaken, [Next]_vars
    PROVE  \/ /\ \A c \in Clients : Held(c)' \subseteq Held(c)
              /\ issued' = issued
              /\ TablesKept \/ \E h \in Hubs : Service(h) /\ Unregisters(h)
           \/ \E h \in Hubs : Service(h) /\ Registers(h)
<1>1. ASSUME NEW c \in Clients, Rests(c)
      PROVE  /\ \A d \in Clients : Held(d)' \subseteq Held(d)
             /\ issued' = issued /\ TablesKept
  BY <1>1 DEF Rests, KeepsKey, TakesKey, GivesKey, OthersKept, Held, NoAnswer
<1>2. ASSUME NEW c \in Clients, Posts(c) \/ GivesUpWaiting(c)
      PROVE  /\ \A d \in Clients : Held(d)' \subseteq Held(d)
             /\ issued' = issued /\ TablesKept
  BY <1>2 DEF Posts, GivesUpWaiting, OnlyConn, OthersKept, Held
<1>3. ASSUME NEW h \in Hubs, ShutsDown(h)
      PROVE  /\ \A d \in Clients : Held(d)' \subseteq Held(d)
             /\ issued' = issued /\ TablesKept
  BY <1>3 DEF ShutsDown, OnlyConn, Held
<1>4. ASSUME NEW h \in Hubs, Service(h), Unregisters(h) \/ OnlyAnswers(h)
      PROVE  /\ \A d \in Clients : Held(d)' \subseteq Held(d)
             /\ issued' = issued
             /\ TablesKept \/ Unregisters(h)
  <2>1. \A d \in Clients : \/ client'[d] = client[d]
                           \/ /\ client'[d].key = client[d].key
                              /\ client'[d].answer = NoAnswer
    BY <1>4 DEF Service, Answered, Unregisters, OnlyAnswers
  <2>2. \A d \in Clients : Held(d)' \subseteq Held(d)
    BY <2>1 DEF Held, NoAnswer
  <2>3. TablesKept \/ Unregisters(h)
    BY <1>4 DEF Service, OnlyAnswers, TablesKept
  <2> QED BY <1>4, <2>2, <2>3 DEF Unregisters, OnlyAnswers
<1>5. CASE SameSession
  BY <1>5 DEF SameSession, Held
<1> QED BY <1>1, <1>2, <1>3, <1>4, <1>5, Steps DEF Served

(* The table and the keys after a registration.                            *)
LEMMA NewRegistration ==
    ASSUME TypeOK, NEW h \in Hubs, Service(h), Registers(h)
    PROVE  LET t == hub[h].clients
               u == hub'[h].clients
               n == Len(t) + 1
           IN  /\ DOMAIN u = DOMAIN t \cup {n} /\ n \notin DOMAIN t
               /\ \A i \in DOMAIN t : u[i] = t[i]
               /\ u[n] = NewEntry(h)
               /\ NewEntry(h).private_key = issued + 1
               /\ \A c \in Clients :
                     \/ Held(c)' \subseteq Held(c)
                     \/ /\ c = First(h).from /\ First(h).live
                        /\ Held(c)' \subseteq Held(c) \cup {issued + 1}
<1>1. hub[h].clients \in Seq(Entry) /\ NewEntry(h) \in Entry
  BY DEF TypeOK, Hub, Registers
<1>2. \A c \in Clients :
         \/ Held(c)' \subseteq Held(c)
         \/ /\ c = First(h).from /\ First(h).live
            /\ Held(c)' \subseteq Held(c) \cup {issued + 1}
  BY DEF Service, Registers, Answered, Held
<1>3. NewEntry(h).private_key = issued + 1
  BY DEF NewEntry
<1> QED BY <1>1, <1>2, <1>3, LongerQueue DEF Registers

LEMMA KeysStep ==
    TypeOK /\ AnswersFit /\ LiveIsAwaited /\ UnregisterForsaken /\ KeysIssuedOnce
    /\ [Next]_vars => KeysIssuedOnce'
<1> SUFFICES ASSUME TypeOK, AnswersFit, LiveIsAwaited, UnregisterForsaken,
                    KeysIssuedOnce, [Next]_vars
             PROVE  KeysIssuedOnce'
  OBVIOUS
<1>1. CASE /\ \A c \in Clients : Held(c)' \subseteq Held(c)
           /\ issued' = issued
           /\ TablesKept \/ \E h \in Hubs : Service(h) /\ Unregisters(h)
  <2>1. /\ \A c \in Clients : Held(c)' \subseteq 1..issued'
        /\ \A c, d \in Clients : Held(c)' \cap Held(d)' # {} => c = d
    <3> QED BY <1>1 DEF KeysIssuedOnce
  <2>2. CASE TablesKept
    BY <1>1, <2>1, <2>2 DEF KeysIssuedOnce, TablesKept
  <2>3. ASSUME NEW h \in Hubs, Service(h), Unregisters(h)
        PROVE  KeysIssuedOnce'
    <3>1. \A k \in Hubs \ {h} : hub'[k].clients = hub[k].clients
      BY <2>3 DEF Service
    <3>2. /\ \A j \in DOMAIN hub'[h].clients : \E i \in DOMAIN hub[h].clients :
                hub'[h].clients[j] = hub[h].clients[i]
          /\ \A j, k \in DOMAIN hub'[h].clients :
                hub'[h].clients[j].private_key = hub'[h].clients[k].private_key => j = k
      BY <2>3, LeftEntries
    <3>3. \A k \in Hubs : \A j \in DOMAIN hub'[k].clients : \E i \in DOMAIN hub[k].clients :
                hub'[k].clients[j] = hub[k].clients[i]
      BY <3>1, <3>2
    <3>4. \A k \in Hubs : \A j \in DOMAIN hub'[k].clients :
             hub'[k].clients[j].private_key \in 1..issued'
      BY <1>1, <3>3 DEF KeysIssuedOnce
    <3>5. ASSUME NEW k \in Hubs, NEW l \in Hubs,
                 NEW i \in DOMAIN hub'[k].clients, NEW j \in DOMAIN hub'[l].clients,
                 hub'[k].clients[i].private_key = hub'[l].clients[j].private_key
          PROVE  k = l /\ i = j
      <4>1. k = l
        BY <3>3, <3>5 DEF KeysIssuedOnce
      <4>2. CASE k = h
        BY <3>2, <3>5, <4>1, <4>2
      <4>3. CASE k # h
        BY <3>1, <3>5, <4>1, <4>3 DEF KeysIssuedOnce
      <4> QED BY <4>1, <4>2, <4>3
    <3> QED BY <2>1, <3>4, <3>5 DEF KeysIssuedOnce
  <2> QED BY <1>1, <2>2, <2>3
<1>2. ASSUME NEW h \in Hubs, Service(h), Registers(h)
      PROVE  KeysIssuedOnce'
  <2> DEFINE n == Len(hub[h].clients) + 1
  <2>1. issued' = issued + 1 /\ issued \in Nat
    BY <1>2 DEF Registers, TypeOK
  <2>2. /\ DOMAIN hub'[h].clients = DOMAIN hub[h].clients \cup {n}
        /\ \A i \in DOMAIN hub[h].clients : hub'[h].clients[i] = hub[h].clients[i]
        /\ hub'[h].clients[n].private_key = issued + 1
    BY <1>2, NewRegistration
  <2>3. \A c \in Clients :
           \/ Held(c)' \subseteq Held(c)
           \/ c = First(h).from /\ Held(c)' \subseteq Held(c) \cup {issued + 1}
    BY <1>2, NewRegistration
  <2>4. \A k \in Hubs \ {h} : hub'[k].clients = hub[k].clients
    BY <1>2 DEF Service
  <2> HIDE DEF n
  <2>5. \A c \in Clients : Held(c) \subseteq 1..issued
    BY DEF KeysIssuedOnce
  <2>6. \A c \in Clients : Held(c)' \subseteq 1..issued'
    <3> QED BY <2>1, <2>3, <2>5
  <2>7. \A c, d \in Clients : Held(c)' \cap Held(d)' # {} => c = d
    <3>1. SUFFICES ASSUME NEW c \in Clients, NEW d \in Clients, NEW x,
                          x \in Held(c)', x \in Held(d)'
                   PROVE  c = d
      OBVIOUS
    <3>2. CASE x = issued + 1
      <4>1. \A e \in Clients : x \notin Held(e)
        BY <2>1, <2>5, <3>2
      <4> QED BY <2>3, <3>1, <4>1
    <3>3. CASE x # issued + 1
      <4>1. x \in Held(c) /\ x \in Held(d)
        BY <2>3, <3>1, <3>3
      <4> QED BY <4>1 DEF KeysIssuedOnce
    <3> QED BY <3>2, <3>3
  <2>8. \A k \in Hubs : \A j \in DOMAIN hub'[k].clients :
           \/ /\ j \in DOMAIN hub[k].clients
              /\ hub'[k].clients[j] = hub[k].clients[j]
              /\ hub'[k].clients[j].private_key \in 1..issued
           \/ k = h /\ j = n /\ hub'[k].clients[j].private_key = issued + 1
    BY <2>2, <2>4 DEF KeysIssuedOnce
  <2>9. \A k \in Hubs : \A j \in DOMAIN hub'[k].clients :
             hub'[k].clients[j].private_key \in 1..issued'
    BY <2>1, <2>8
  <2>10. ASSUME NEW k \in Hubs, NEW l \in Hubs,
                NEW i \in DOMAIN hub'[k].clients, NEW j \in DOMAIN hub'[l].clients,
                hub'[k].clients[i].private_key = hub'[l].clients[j].private_key
         PROVE  k = l /\ i = j
    <3>1. issued + 1 \notin 1..issued
      BY <2>1
    <3> QED BY <2>8, <2>10, <3>1 DEF KeysIssuedOnce
  <2> QED BY <2>6, <2>7, <2>9, <2>10 DEF KeysIssuedOnce
<1> QED BY <1>1, <1>2, HeldStep

LEMMA ForsakenStep ==
    TypeOK /\ AnswersFit /\ LiveIsAwaited /\ KeysIssuedOnce /\ UnregisterForsaken
    /\ [Next]_vars => UnregisterForsaken'
<1> SUFFICES ASSUME TypeOK, AnswersFit, LiveIsAwaited, KeysIssuedOnce,
                    UnregisterForsaken, [Next]_vars
             PROVE  UnregisterForsaken'
  OBVIOUS
<1>1. issued \in Nat /\ issued' \in Nat /\ 1..issued \subseteq 1..issued'
  <2>1. issued \in Nat /\ issued' \in {issued, issued + 1}
    BY HeldStep DEF TypeOK, Registers
  <2> QED BY <2>1
(* A key that nobody holds stays so.                                       *)
<1>2. ASSUME NEW key \in 1..issued, Forsaken(key)
      PROVE  Forsaken(key)'
  <2>1. key # NoKey
    BY <1>1 DEF NoKey
  <2>2. ASSUME NEW c \in Clients, Rests(c)
        PROVE  Forsaken(key)'
    BY <1>2, <2>1, <2>2
       DEF Rests, KeepsKey, TakesKey, GivesKey, OthersKept, NoAnswer, Forsaken
  <2>3. ASSUME NEW c \in Clients, Posts(c) \/ GivesUpWaiting(c)
        PROVE  Forsaken(key)'
    BY <1>2, <2>3 DEF Posts, GivesUpWaiting, OnlyConn, OthersKept, Forsaken
  <2>4. ASSUME NEW h \in Hubs, Served(h)
        PROVE  Forsaken(key)'
    <3>1. \A d \in Clients :
             \/ client'[d] = client[d]
             \/ /\ client'[d].key = client[d].key /\ client'[d].pc = client[d].pc
                /\ client'[d].answer.key \in {NoKey, issued + 1}
      BY <2>4 DEF Served, Service, Answered, Registers, Unregisters, OnlyAnswers, NoAnswer
    <3>2. key # issued + 1
      BY <1>1
    <3> QED BY <1>2, <2>1, <3>1, <3>2 DEF Forsaken
  <2>5. ASSUME NEW h \in Hubs, ShutsDown(h)
        PROVE  Forsaken(key)'
    BY <1>2, <2>5 DEF ShutsDown, OnlyConn, Forsaken
  <2>6. CASE SameSession
    BY <1>2, <2>6 DEF SameSession, Forsaken
  <2> QED BY <2>2, <2>3, <2>4, <2>5, <2>6, Steps
(* So it is enough that the requests are those of before, and a new one.   *)
<1>3. ASSUME \A k \in Hubs : \A j \in DOMAIN hub'[k].queue :
                \/ \E i \in DOMAIN hub[k].queue :
                      /\ hub'[k].queue[j].method = hub[k].queue[i].method
                      /\ hub'[k].queue[j].key = hub[k].queue[i].key
                \/ hub'[k].queue[j].method = "unregister" =>
                      /\ hub'[k].queue[j].key \in 1..issued
                      /\ Forsaken(hub'[k].queue[j].key)
      PROVE  UnregisterForsaken'
  <2>1. ASSUME NEW k \in Hubs, NEW j \in DOMAIN hub'[k].queue,
               hub'[k].queue[j].method = "unregister"
        PROVE  /\ hub'[k].queue[j].key \in 1..issued
               /\ Forsaken(hub'[k].queue[j].key)
    BY <1>3, <2>1 DEF UnregisterForsaken
  <2>2. ASSUME NEW k \in Hubs, NEW j \in DOMAIN hub'[k].queue,
               hub'[k].queue[j].method = "unregister", NEW key, key = hub'[k].queue[j].key
        PROVE  key \in 1..issued' /\ Forsaken(key)'
    BY <1>1, <1>2, <2>1, <2>2
  <2> QED BY <2>2 DEF UnregisterForsaken, Forsaken
<1>4. CASE QueuesKept
  BY <1>3, <1>4 DEF QueuesKept
<1>5. ASSUME NEW c \in Clients, Posts(c), NEW h \in Hubs, QueuedAt(h, RequestOf(c))
      PROVE  UnregisterForsaken'
  <2>1. client[c].pc \in Asks /\ client[c].conn = "none"
        /\ (client[c].pc \in Leaving => Connected(c))
    BY <1>5 DEF Posts
  <2>2. ASSUME RequestOf(c).method = "unregister"
        PROVE  RequestOf(c).key \in 1..issued /\ Forsaken(RequestOf(c).key)
    <3>1. client[c].pc \in Leaving /\ RequestOf(c).key = client[c].key
      BY <2>1, <2>2, Asking DEF RequestOf
    <3>2. client[c].key \in Held(c)
      BY <2>1, <3>1 DEF Held, Connected
    <3>3. \A d \in Clients : client[c].key \in Held(d) => d = c
      BY <3>2 DEF KeysIssuedOnce
    <3>4. client[c].answer.key = NoKey /\ client[c].key # NoKey
      BY <2>1, <3>1 DEF AnswersFit, Connected
    <3>5. Forsaken(client[c].key)
      BY <3>1, <3>3, <3>4 DEF Forsaken, Held
    <3> QED BY <3>1, <3>2, <3>5 DEF KeysIssuedOnce
  <2>3. \A k \in Hubs : \A j \in DOMAIN hub'[k].queue :
           \/ j \in DOMAIN hub[k].queue /\ hub'[k].queue[j] = hub[k].queue[j]
           \/ hub'[k].queue[j] = RequestOf(c)
    BY <1>5, <2>1, PostedRequest
  <2> QED BY <1>3, <2>2, <2>3
<1>6. ASSUME NEW c \in Clients, GivesUpWaiting(c)
      PROVE  UnregisterForsaken'
  <2>1. \A k \in Hubs : hub[k].queue \in Seq(Request)
                        /\ hub'[k].queue = Abandoned(hub[k].queue, c)
    BY <1>6 DEF TypeOK, Hub, GivesUpWaiting
  <2>2. \A k \in Hubs : \A j \in DOMAIN hub'[k].queue :
           /\ j \in DOMAIN hub[k].queue
           /\ hub'[k].queue[j].method = hub[k].queue[j].method
           /\ hub'[k].queue[j].key = hub[k].queue[j].key
    BY <1>6, <2>1, AbandonedQueue
  <2> QED BY <1>3, <2>2
<1>7. ASSUME NEW h \in Hubs, Served(h)
      PROVE  UnregisterForsaken'
  <2>1. \A k \in Hubs : \A j \in DOMAIN hub'[k].queue :
           \E i \in DOMAIN hub[k].queue : hub'[k].queue[j] = hub[k].queue[i]
    BY <1>7, TakenRequest DEF Served
  <2> QED BY <1>3, <2>1
<1>8. ASSUME NEW h \in Hubs, ShutsDown(h)
      PROVE  UnregisterForsaken'
  <2>1. \A k \in Hubs : \A j \in DOMAIN hub'[k].queue :
           j \in DOMAIN hub[k].queue /\ hub'[k].queue[j] = hub[k].queue[j]
    BY <1>8 DEF ShutsDown
  <2> QED BY <1>3, <2>1
<1>9. QueuesKept \/ (\E c \in Clients : Posts(c) /\ \E h \in Hubs : QueuedAt(h, RequestOf(c)))
      \/ (\E c \in Clients : GivesUpWaiting(c)) \/ (\E h \in Hubs : Served(h) \/ ShutsDown(h))
  BY Steps DEF Rests, Posts, SameSession, Listening
<1> QED BY <1>4, <1>5, <1>6, <1>7, <1>8, <1>9

InTableThen(c, key, id) ==
    \E h \in Hubs : \E i \in DOMAIN hub'[h].clients :
        /\ hub'[h].clients[i].private_key = key
        /\ hub'[h].clients[i].reference = id
        /\ hub'[h].clients[i].owner = c

LEMMA HeldRegisteredStep ==
    TypeOK /\ AnswersFit /\ LiveIsAwaited /\ KeysIssuedOnce /\ UnregisterForsaken
    /\ HeldIsRegistered /\ [Next]_vars => HeldIsRegistered'
<1> SUFFICES ASSUME TypeOK, AnswersFit, LiveIsAwaited, KeysIssuedOnce,
                    UnregisterForsaken, HeldIsRegistered, [Next]_vars
             PROVE  HeldIsRegistered'
  OBVIOUS
<1>1. ASSUME \A c \in Clients :
                /\ client'[c].key # NoKey /\ client'[c].pc \notin Leaving =>
                      InTableThen(c, client'[c].key, client'[c].id)
                /\ client'[c].answer.key # NoKey =>
                      InTableThen(c, client'[c].answer.key, client'[c].answer.id)
      PROVE  HeldIsRegistered'
  BY <1>1 DEF HeldIsRegistered, InTable, InTableThen, Connected
<1>2. ASSUME TablesKept,
             \A c \in Clients :
                /\ client'[c].key = client[c].key /\ client'[c].id = client[c].id
                /\ client'[c].pc = client[c].pc
                /\ client'[c].answer \in {client[c].answer, NoAnswer}
      PROVE  HeldIsRegistered'
  BY <1>2 DEF TablesKept, HeldIsRegistered, InTable, Connected, NoAnswer
<1>3. ASSUME NEW c \in Clients, Rests(c)
      PROVE  HeldIsRegistered'
  <2>1. TablesKept /\ OthersKept(c) /\ client'[c].answer = NoAnswer
    BY <1>3 DEF Rests
  <2>2. client'[c].key # NoKey =>
           \E h \in Hubs : \E i \in DOMAIN hub[h].clients :
                /\ hub[h].clients[i].private_key = client'[c].key
                /\ hub[h].clients[i].reference = client'[c].id
                /\ hub[h].clients[i].owner = c
    BY <1>3 DEF Rests, KeepsKey, TakesKey, GivesKey, HeldIsRegistered, Connected, InTable
  <2> QED BY <2>1, <2>2
          DEF HeldIsRegistered, InTable, TablesKept, OthersKept, Connected, NoAnswer
<1>4. ASSUME NEW c \in Clients, Posts(c) \/ GivesUpWaiting(c)
      PROVE  HeldIsRegistered'
  BY <1>2, <1>4 DEF Posts, GivesUpWaiting, OthersKept, OnlyConn
<1>5. ASSUME NEW h \in Hubs, ShutsDown(h)
      PROVE  HeldIsRegistered'
  BY <1>2, <1>5 DEF ShutsDown, OnlyConn
<1>6. ASSUME NEW h \in Hubs, Service(h), OnlyAnswers(h)
      PROVE  HeldIsRegistered'
  <2>1. TablesKept
    BY <1>6 DEF Service, OnlyAnswers, TablesKept
  <2> QED BY <1>2, <1>6, <2>1 DEF Service, OnlyAnswers, Answered
<1>7. ASSUME NEW h \in Hubs, Service(h), Unregisters(h)
      PROVE  HeldIsRegistered'
  <2> DEFINE key == First(h).key
  <2>1. 1 \in DOMAIN hub[h].queue /\ First(h) = hub[h].queue[1]
    BY <1>7, TakenRequest
  <2>2. Forsaken(key)
    BY <1>7, <2>1 DEF Unregisters, UnregisterForsaken
  <2>3. \A i \in DOMAIN hub[h].clients : hub[h].clients[i].private_key # key =>
           \E j \in DOMAIN hub'[h].clients : hub'[h].clients[j] = hub[h].clients[i]
    BY <1>7, LeftEntries
  <2>4. \A k \in Hubs \ {h} : hub'[k].clients = hub[k].clients
    BY <1>7 DEF Service
  <2> HIDE DEF key
  <2>5. \A k \in Hubs : \A i \in DOMAIN hub[k].clients :
           hub[k].clients[i].private_key # key =>
             \E j \in DOMAIN hub'[k].clients : hub'[k].clients[j] = hub[k].clients[i]
    BY <2>3, <2>4
  <2>6. \A c \in Clients :
           /\ client'[c].key = client[c].key /\ client'[c].id = client[c].id
           /\ client'[c].pc = client[c].pc
           /\ client'[c].answer \in {client[c].answer, NoAnswer}
    BY <1>7 DEF Service, Unregisters, Answered
  <2>7. ASSUME NEW c \in Clients, NEW k, NEW id, k # key, InTable(c, k, id)
        PROVE  InTableThen(c, k, id)
    BY <2>5, <2>7 DEF InTable, InTableThen
  <2>8. ASSUME NEW c \in Clients, client'[c].key # NoKey, client'[c].pc \notin Leaving
        PROVE  InTableThen(c, client'[c].key, client'[c].id)
    <3>1. InTable(c, client[c].key, client[c].id) /\ client[c].key # key
      BY <2>2, <2>6, <2>8 DEF HeldIsRegistered, Connected, Forsaken
    <3> QED BY <2>6, <2>7, <3>1
  <2>9. ASSUME NEW c \in Clients, client'[c].answer.key # NoKey
        PROVE  InTableThen(c, client'[c].answer.key, client'[c].answer.id)
    <3>1. client'[c].answer = client[c].answer
      BY <2>6, <2>9 DEF NoAnswer
    <3>2. InTable(c, client[c].answer.key, client[c].answer.id) /\ client[c].answer.key # key
      BY <2>2, <2>9, <3>1 DEF HeldIsRegistered, Forsaken
    <3> QED BY <2>7, <3>1, <3>2
  <2> QED BY <1>1, <2>8, <2>9
<1>8. ASSUME NEW h \in Hubs, Service(h), Registers(h)
      PROVE  HeldIsRegistered'
  <2> DEFINE n == Len(hub[h].clients) + 1
  <2>1. /\ n \in DOMAIN hub'[h].clients /\ hub'[h].clients[n] = NewEntry(h)
        /\ \A i \in DOMAIN hub[h].clients :
              i \in DOMAIN hub'[h].clients /\ hub'[h].clients[i] = hub[h].clients[i]
    BY <1>8, NewRegistration
  <2>2. \A k \in Hubs \ {h} : hub'[k].clients = hub[k].clients
    BY <1>8 DEF Service
  <2> HIDE DEF n
  <2>3. \A k \in Hubs : \A i \in DOMAIN hub[k].clients :
           i \in DOMAIN hub'[k].clients /\ hub'[k].clients[i] = hub[k].clients[i]
    BY <2>1, <2>2
  <2>4. ASSUME NEW c \in Clients, NEW k, NEW id, InTable(c, k, id)
        PROVE  InTableThen(c, k, id)
    BY <2>3, <2>4 DEF InTable, InTableThen
  <2>5. \A c \in Clients :
           /\ client'[c].key = client[c].key /\ client'[c].id = client[c].id
           /\ client'[c].pc = client[c].pc
           /\ \/ client'[c].answer = client[c].answer
              \/ /\ c = First(h).from
                 /\ client'[c].answer = [key |-> issued + 1, id |-> NewEntry(h).reference]
    BY <1>8 DEF Service, Registers, Answered
  <2>6. /\ NewEntry(h).private_key = issued + 1 /\ NewEntry(h).owner = First(h).from
    BY DEF NewEntry
  <2>7. ASSUME NEW c \in Clients, client'[c].key # NoKey, client'[c].pc \notin Leaving
        PROVE  InTable(c, client[c].key, client[c].id)
    BY <2>5, <2>7 DEF HeldIsRegistered, Connected
  <2>8. ASSUME NEW c \in Clients, client'[c].answer.key # NoKey
        PROVE  InTableThen(c, client'[c].answer.key, client'[c].answer.id)
    <3>1. CASE client'[c].answer = client[c].answer
      BY <2>4, <2>8, <3>1 DEF HeldIsRegistered
    <3>2. CASE /\ c = First(h).from
               /\ client'[c].answer = [key |-> issued + 1, id |-> NewEntry(h).reference]
      BY <2>1, <2>6, <3>2 DEF InTableThen
    <3> QED BY <2>5, <3>1, <3>2
  <2>9. ASSUME NEW c \in Clients, client'[c].key # NoKey, client'[c].pc \notin Leaving
        PROVE  InTableThen(c, client'[c].key, client'[c].id)
    BY <2>4, <2>5, <2>7, <2>9
  <2> QED BY <1>1, <2>8, <2>9
<1>9. CASE SameSession
  BY <1>2, <1>9 DEF SameSession
<1> QED BY <1>3, <1>4, <1>5, <1>6, <1>7, <1>8, <1>9, Steps DEF Served

(* The invariant of a session, in all circumstances.                       *)
THEOREM SessionInvHolds == Spec => []SessionInv
<1>1. Init => SessionInv
  <2> SUFFICES ASSUME Init PROVE SessionInv
    OBVIOUS
  <2>1. setting \in Setting
    BY SettingAssumption DEF Init
  <2>2. \A h \in Hubs : hub[h] \in Hub /\ hub[h].clients = <<>> /\ hub[h].queue = <<>>
    BY <2>1, EmptySeq DEF Init, Hub, Setting
  <2>3. \A c \in Clients : /\ client[c] \in Client
                           /\ client[c].key = NoKey /\ client[c].answer = NoAnswer
                           /\ client[c].conn = "none"
    <3>1. NoAnswer \in [key : Nat, id : Nat] /\ NoKey \in Nat /\ "idle" \in Points
      BY DEF NoAnswer, NoKey, Points
    <3>2. (lockfile = "written") \in BOOLEAN
      OBVIOUS
    <3> DEFINE w == lockfile = "written"
    <3>3. ASSUME NEW c \in Clients
          PROVE  client[c] = [pc |-> "idle", try |-> 0, has_hub |-> w, host |-> w,
                              key |-> NoKey, id |-> 0, conn |-> "none", answer |-> NoAnswer]
      BY DEF Init
    <3>4. w \in BOOLEAN
      OBVIOUS
    <3> HIDE DEF w
    <3> QED BY <3>1, <3>3, <3>4 DEF Client
  <2>4. TypeOK
    BY <2>2, <2>3 DEF Init, TypeOK
  <2>5. KeysIssuedOnce
    BY <2>2, <2>3 DEF KeysIssuedOnce, Held, NoAnswer
  <2>6. AnswersFit /\ LiveIsAwaited /\ OneLiveRequest /\ HeldIsRegistered /\ UnregisterForsaken
    BY <2>2, <2>3 DEF AnswersFit, LiveIsAwaited, OneLiveRequest, HeldIsRegistered,
                      UnregisterForsaken, Connected, NoAnswer
  <2> QED BY <2>4, <2>5, <2>6 DEF SessionInv
<1>2. SessionInv /\ [Next]_vars => SessionInv'
  BY Steps, AnswersStep, LiveStep, KeysStep, ForsakenStep, HeldRegisteredStep
     DEF SessionInv
<1> QED BY <1>1, <1>2, PTL DEF Spec

(* The key that a client has is registered at some hub, as this client's   *)
(* and with the identity it was told, until the client gives it up:        *)
(* whatever is lost, late, or sent to the wrong hub.                       *)
THEOREM KeysAreRegistered == Spec => []KeyIsRegistered
<1>1. SessionInv => KeyIsRegistered
  BY DEF SessionInv, HeldIsRegistered, InTable, KeyIsRegistered, Leaving
<1> QED BY <1>1, SessionInvHolds, PTL

-----------------------------------------------------------------------------
(* The lock file                                                           *)

StatesKept == \A h \in Hubs : hub'[h].state = hub[h].state

(* What happens to the lock file and to the states of the hubs.            *)
LEMMA StateSteps ==
    ASSUME SessionInv, [Next]_vars
    PROVE  \/ UNCHANGED lockfile /\ StatesKept
           \/ /\ UNCHANGED lockfile
              /\ \E c \in Clients : client[c].pc = "launch"
              /\ \E h \in Unborn : /\ hub'[h].state = "launched"
                                   /\ \A k \in Hubs \ {h} : hub'[k].state = hub[k].state
           \/ \E h \in Hubs : Starts(h)
           \/ \E h \in Hubs : ShutsDown(h)
<1>1. setting' = setting /\ TypeOK /\ AnswersFit /\ LiveIsAwaited
  BY DEF Next, vars, SessionInv
<1>2. CASE UNCHANGED vars
  BY <1>2 DEF vars, StatesKept
<1>3. ASSUME NEW c \in Clients, Launch(c)
      PROVE  /\ UNCHANGED lockfile
             /\ client[c].pc = "launch"
             /\ \E h \in Unborn : /\ hub'[h].state = "launched"
                                  /\ \A k \in Hubs \ {h} : hub'[k].state = hub[k].state
  <2>1. PICK h \in Unborn : hub' = [hub EXCEPT ![h].state = "launched"]
    BY <1>1, <1>3, LaunchRests
  <2>2. h \in Hubs
    BY <1>1, UnbornHubs
  <2>3. UNCHANGED lockfile /\ client[c].pc = "launch"
    BY <1>3 DEF Launch
  <2>4. hub \in [Hubs -> Hub]
    BY <1>1 DEF TypeOK
  <2>5. /\ hub'[h].state = "launched"
        /\ \A k \in Hubs \ {h} : hub'[k].state = hub[k].state
    BY <2>1, <2>2, <2>4 DEF Hub
  <2> QED BY <2>1, <2>3, <2>5
<1>4. ASSUME NEW c \in Clients, InCall(c), ~Launch(c), ~Post(c)
      PROVE  UNCHANGED lockfile /\ StatesKept
  BY <1>4 DEF InCall, Find, Pinged, ForkFails, Look, LookPinged, Sleep, GiveUp,
              Registered, RegisterThrows, MetadataSent, Unregistered, Cleared,
              ShutdownSent, Step, StatesKept
<1>5. ASSUME NEW c \in Clients, Post(c) \/ TimeOut(c)
      PROVE  UNCHANGED lockfile /\ StatesKept
  <2>1. UNCHANGED lockfile
    BY <1>5 DEF Post, TimeOut
  <2> QED BY <1>1, <1>5, <2>1, RequestPosts, TimeOutGivesUp DEF StatesKept
<1>6. ASSUME NEW c \in Clients, NEW method \in Methods, Call(c, method)
      PROVE  UNCHANGED lockfile /\ StatesKept
  BY <1>6 DEF Call, StatesKept
<1>7. ASSUME NEW h \in Hubs, InHub(h)
      PROVE  \/ UNCHANGED lockfile /\ StatesKept
             \/ Starts(h) \/ ShutsDown(h)
  BY <1>1, <1>7, HandlersServe, ShutdownEnds DEF InHub, Handles, Starts, StatesKept
<1> QED BY <1>2, <1>3, <1>4, <1>5, <1>6, <1>7 DEF Next

LEMMA LockfileStep ==
    SessionInv /\ LockfileStays /\ [Next]_vars => LockfileStays'
<1> SUFFICES ASSUME SessionInv, LockfileStays, [Next]_vars, setting.reuse_port
             PROVE  /\ lockfile' = "absent" =>
                          \A h \in Hubs : hub'[h].state \in {"absent", "launched"}
                    /\ lockfile' = "empty" => \E h \in Hubs : hub'[h].state = "opened"
  BY DEF LockfileStays, Next, vars
<1>1. TypeOK /\ setting' = setting
  BY DEF SessionInv, Next, vars
<1>2. CASE UNCHANGED lockfile /\ StatesKept
  BY <1>2 DEF LockfileStays, StatesKept
<1>3. ASSUME UNCHANGED lockfile, NEW h \in Unborn, hub'[h].state = "launched",
             \A k \in Hubs \ {h} : hub'[k].state = hub[k].state
      PROVE  /\ lockfile' = "absent" =>
                   \A k \in Hubs : hub'[k].state \in {"absent", "launched"}
             /\ lockfile' = "empty" => \E k \in Hubs : hub'[k].state = "opened"
  <2>1. h \in Hubs /\ hub[h].state = "absent"
    BY <1>1, <1>3, UnbornHubs DEF Unborn
  <2> QED BY <1>3, <2>1 DEF LockfileStays
<1>4. ASSUME NEW h \in Hubs, Starts(h)
      PROVE  /\ lockfile' = "absent" =>
                   \A k \in Hubs : hub'[k].state \in {"absent", "launched"}
             /\ lockfile' = "empty" => \E k \in Hubs : hub'[k].state = "opened"
  <2>1. CASE /\ hub[h].state = "launched" /\ hub'[h].state = "opened"
             /\ lockfile' = "empty"
    BY <2>1
  <2>2. CASE lockfile' = "written"
    BY <2>2
  <2>3. CASE /\ hub[h].state = "filed" /\ hub'[h].state = "listening"
             /\ lockfile' = lockfile
    BY <1>1, <1>4, <2>3, StartChangesState DEF LockfileStays
  <2> QED BY <1>1, <1>4, <2>1, <2>2, <2>3, StartChangesState
<1>5. ASSUME NEW h \in Hubs, ShutsDown(h)
      PROVE  /\ lockfile' = "absent" =>
                   \A k \in Hubs : hub'[k].state \in {"absent", "launched"}
             /\ lockfile' = "empty" => \E k \in Hubs : hub'[k].state = "opened"
  <2>1. hub[h].state = "listening" /\ lockfile' = lockfile
        /\ \A k \in Hubs \ {h} : hub'[k] = hub[k]
    BY <1>5 DEF ShutsDown, Listening
  <2> QED BY <1>5, <2>1 DEF LockfileStays
<1> QED BY <1>2, <1>3, <1>4, <1>5, StateSteps

(* With SO_REUSEPORT a hub that listens can be found: the lock file that   *)
(* the first hub writes is never removed, only written again.              *)
THEOREM ListeningStaysFindable == Spec => []ListeningIsFindable
<1>1. Init => LockfileStays
  <2> SUFFICES ASSUME Init, lockfile = "absent", NEW h \in Hubs
               PROVE  hub[h].state \in {"absent", "launched"}
    BY DEF LockfileStays, Init
  <2>1. setting.first_hub \in {"absent", "launched", "listening"}
    BY SettingAssumption DEF Init, Setting
  <2> QED BY <2>1 DEF Init
<1>2. SessionInv /\ LockfileStays => ListeningIsFindable
  <2>1. TypeOK => lockfile \in {"absent", "empty", "written"}
    BY DEF TypeOK
  <2> QED BY <2>1 DEF SessionInv, LockfileStays, ListeningIsFindable, Listening
<1> QED BY <1>1, <1>2, LockfileStep, SessionInvHolds, PTL DEF Spec

-----------------------------------------------------------------------------
(* Steady sessions                                                         *)

SteadyState == SteadyHub /\ (\A c \in Clients : SteadyClient(c)) /\ SteadyTable

(* Nobody launches a hub or shuts it down, and no request is given up.     *)
LEMMA SteadySteps ==
    ASSUME SessionInv, Steady, SteadyState, [Next]_vars
    PROVE  /\ 1 \in Hubs /\ Listening = {1}
           /\ UNCHANGED lockfile /\ StatesKept
           /\ \/ \E c \in Clients : Rests(c) \/ Posts(c)
              \/ Served(1)
              \/ SameSession
<1>1. 1 \in Hubs /\ Listening = {1}
  <2>1. 1 \in Hubs
    BY SettingAssumption DEF Hubs
  <2> QED BY <2>1 DEF SteadyState, SteadyHub, Listening
<1>2. ~ \E h \in Hubs : Starts(h)
  BY DEF SteadyState, SteadyHub, Starts, OpenLockfile, WriteLockfile, Listen, BindFails
<1>3. ASSUME NEW h \in Hubs, ShutsDown(h)
      PROVE  FALSE
  <2>1. h = 1 /\ hub[h].queue # <<>> /\ First(h).method = "shutdown"
    BY <1>1, <1>3 DEF ShutsDown
  <2>2. hub[h].queue \in Seq(Request)
    BY DEF SessionInv, TypeOK, Hub
  <2>3. 1 \in DOMAIN hub[h].queue /\ First(h) = hub[h].queue[1] /\ First(h) \in Request
    BY <2>1, <2>2, ShiftedQueue DEF First
  <2>4. First(h).live /\ First(h).from \in Clients
    BY <2>1, <2>3 DEF SteadyState, SteadyTable, Request
  <2>5. Awaited(First(h))
    BY <2>3, <2>4 DEF SessionInv, LiveIsAwaited
  <2>6. client[First(h).from].pc = "shutdown"
    BY <2>1, <2>5, Asking DEF Awaited
  <2> QED BY <2>4, <2>6 DEF SteadyState, SteadyClient, Leaving
<1>4. ~ \E c \in Clients : client[c].pc = "launch"
  BY DEF SteadyState, SteadyClient, Leaving
<1>5. UNCHANGED lockfile /\ StatesKept
  BY <1>2, <1>3, <1>4, StateSteps
<1>6. ASSUME NEW h \in Hubs, Served(h)
      PROVE  h = 1
  BY <1>1, <1>6 DEF Served, Service
<1>7. ~ \E c \in Clients : TimeOut(c)
  BY DEF Steady, TimeOut
<1>8. ASSUME NEW c \in Clients, InCall(c)
      PROVE  Rests(c) \/ Posts(c)
  BY <1>8, QuietRests, LaunchRests, RegisteredRests, LeavingRests, RequestPosts
     DEF InCall, Quiet, SessionInv, Next, vars
<1>9. ASSUME NEW c \in Clients, NEW method \in Methods, Call(c, method)
      PROVE  Rests(c)
  BY <1>9, CallRests DEF SessionInv, Next, vars
<1>10. ASSUME NEW h \in Hubs, InHub(h)
       PROVE  Served(1)
  <2>1. setting' = setting /\ TypeOK
    BY DEF SessionInv, Next, vars
  <2>2. Served(h)
    BY <1>2, <1>3, <1>10, <2>1, HandlersServe, ShutdownEnds
       DEF InHub, Starts, Handles, Served
  <2> QED BY <1>6, <2>2
<1>11. CASE UNCHANGED vars
  BY <1>1, <1>5, <1>11 DEF vars, SameSession, TablesKept, QueuesKept
<1> QED BY <1>1, <1>5, <1>7, <1>8, <1>9, <1>10, <1>11 DEF Next

LEMMA SteadyClientStep ==
    ASSUME SessionInv, Steady, SteadyState, [Next]_vars, NEW d \in Clients
    PROVE  SteadyClient(d)'
<1>1. /\ TypeOK /\ AnswersFit /\ setting' = setting
      /\ lockfile = "written" /\ Listening = {1}
      /\ SteadyClient(d)
  BY SteadySteps DEF SessionInv, Next, vars, SteadyState, SteadyHub
<1>2. client[d] \in Client
  BY <1>1 DEF TypeOK
<1>3. CASE client'[d] = client[d]
  BY <1>1, <1>3 DEF SteadyClient, Connected
<1>4. CASE Find(d)
  <2>1. "ping" \in Points /\ client[d].pc = "find" /\ Found(d)
    BY <1>1, <1>4, Asking DEF Points, Asks, Find, Found
  <2>2. client'[d] = Seen(d, "ping")
    BY <1>1, <1>4, <2>1 DEF Find, Step, TypeOK
  <2>3. /\ client'[d].pc = "ping" /\ client'[d].conn = "none" /\ client'[d].host
        /\ client'[d].key = client[d].key
    BY <1>1, <2>1, <2>2, HasSeen
  <2> QED BY <1>1, <2>1, <2>3 DEF SteadyClient, Connected, Leaving
<1>5. CASE Pinged(d)
  <2>1. "register" \in Points /\ client[d].pc = "ping" /\ client[d].conn = "yes"
    BY <1>1, <1>5, Asking DEF Points, Asks, Pinged, SteadyClient
  <2>2. client'[d] = GoTo(d, "register")
    BY <1>1, <1>5, <2>1 DEF Pinged, Step, TypeOK
  <2>3. /\ client'[d].pc = "register" /\ client'[d].host = client[d].host
        /\ client'[d].key = client[d].key
    BY <1>1, <2>1, <2>2, Gone
  <2> QED BY <1>1, <2>1, <2>3 DEF SteadyClient, Connected, Leaving
<1>6. CASE RegisterThrows(d) \/ MetadataSent(d)
  <2>1. client'[d] = Return(d)
    BY <1>1, <1>6 DEF RegisterThrows, MetadataSent, Step, TypeOK
  <2>2. /\ client'[d].pc = "idle" /\ client'[d].host = client[d].host
        /\ client'[d].key = client[d].key
    BY <1>1, <2>1, Returned
  <2> QED BY <1>1, <2>2 DEF SteadyClient, Connected, Leaving
<1>7. CASE Registered(d)
  <2> DEFINE g == GoTo(d, "metadata")
  <2>1. "metadata" \in Points /\ client[d].pc = "register"
    BY <1>7, Asking DEF Points, Asks, Registered
  <2>2. g \in Client /\ g.pc = "metadata" /\ g.host = client[d].host
    BY <1>1, <2>1, Gone
  <2>3. client'[d] = [g EXCEPT !.key = client[d].answer.key, !.id = client[d].answer.id]
    BY <1>1, <1>7 DEF Registered, Step, TypeOK
  <2> HIDE DEF g
  <2>4. client'[d].pc = "metadata" /\ client'[d].host = client[d].host
    BY <2>2, <2>3 DEF Client
  <2> QED BY <1>1, <2>1, <2>4 DEF SteadyClient, Leaving
<1>8. CASE Unregistered(d) \/ Cleared(d)
  <2> DEFINE g == Return(d)
  <2>1. g \in Client /\ g.pc = "idle"
    BY <1>1, Returned
  <2>2. \/ client'[d] = [g EXCEPT !.key = NoKey, !.id = 0]
        \/ client'[d] = [g EXCEPT !.key = NoKey, !.id = 0, !.has_hub = FALSE, !.host = FALSE]
    BY <1>1, <1>8 DEF Unregistered, Cleared, Step, TypeOK
  <2> HIDE DEF g
  <2>3. client'[d].pc = "idle" /\ client'[d].key = NoKey
    BY <2>1, <2>2 DEF Client
  <2> QED BY <2>3 DEF SteadyClient, Connected, Leaving
<1>9. ASSUME NEW method \in Methods, Call(d, method),
             ConnectAgain(d, method) => setting.again
      PROVE  SteadyClient(d)'
  <2>1. {"find", "unregister", "clear"} \subseteq Points
    BY Asking DEF Points, Asks
  <2>2. \/ client'[d] = GoTo(d, "find") /\ ~Connected(d)
        \/ client'[d] = GoTo(d, "unregister") \/ client'[d] = GoTo(d, "clear")
        \/ client'[d] = Return(d)
    BY <1>1, <1>9 DEF Call, Methods, ConnectAgain, Steady, TypeOK
  <2>3. /\ client'[d].pc \in {"find", "unregister", "clear", "idle"}
        /\ client'[d].pc = "find" => ~Connected(d)
        /\ client'[d].host = client[d].host /\ client'[d].key = client[d].key
    BY <1>1, <2>1, <2>2, Gone, Returned
  <2> QED BY <1>1, <2>3 DEF SteadyClient, Connected, Leaving
<1>10. CASE Post(d)
  <2>1. Posts(d)
    BY <1>1, <1>10, RequestPosts
  <2>2. OnlyConn(d) /\ (client[d].pc = "ping" => client'[d].conn # "no")
    BY <1>1, <2>1 DEF Posts, SteadyClient
  <2> QED BY <1>1, <2>2 DEF SteadyClient, OnlyConn, Connected
<1>11. ASSUME NEW h \in Hubs, Served(h)
       PROVE  SteadyClient(d)'
  <2> DEFINE r == First(h)
  <2>1. /\ Service(h) /\ r = hub[h].queue[1] /\ 1 \in DOMAIN hub[h].queue
    BY <1>1, <1>11, TakenRequest DEF Served
  <2>2. r.live => Awaited(r)
    BY <2>1 DEF SessionInv, LiveIsAwaited
  <2>3. CASE r.live /\ d = r.from
    <3>1. Answered(r, d)
      BY <2>1, <2>3 DEF Service
    <3>2. client[d].pc = "ping" => r.method = "ping"
      BY <2>2, <2>3, Asking DEF Awaited, Asks
    <3> HIDE DEF r
    <3> QED BY <1>1, <3>1, <3>2 DEF Answered, SteadyClient, Connected
  <2>4. CASE ~(r.live /\ d = r.from)
    BY <1>3, <2>1, <2>4 DEF Service
  <2> QED BY <2>3, <2>4
<1>12. ASSUME NEW c \in Clients, c # d,
              Rests(c) \/ Posts(c)
       PROVE  SteadyClient(d)'
  BY <1>3, <1>12 DEF Rests, Posts, OthersKept
<1>13. ASSUME NEW c \in Clients, InCall(c)
       PROVE  SteadyClient(d)'
  <2>1. Rests(c) \/ Posts(c)
    BY <1>1, <1>13, QuietRests, LaunchRests, RegisteredRests, LeavingRests, RequestPosts
       DEF InCall, Quiet, SessionInv
  <2>2. CASE c = d
    <3>1. client[d].pc \notin {"launch", "look", "look_ping", "sleep", "shutdown"}
      BY <1>1 DEF SteadyClient, Leaving
    <3> QED BY <1>4, <1>5, <1>6, <1>7, <1>8, <1>10, <1>13, <2>2, <3>1
            DEF InCall, Launch, ForkFails, Look, LookPinged, Sleep, GiveUp, ShutdownSent
  <2> QED BY <1>12, <2>1, <2>2
<1>14. ASSUME NEW c \in Clients, NEW method \in Methods, Call(c, method),
              ConnectAgain(c, method) => setting.again
       PROVE  SteadyClient(d)'
  <2>1. Rests(c)
    BY <1>1, <1>14, CallRests DEF SessionInv
  <2> QED BY <1>9, <1>12, <1>14, <2>1
<1>15. ASSUME NEW h \in Hubs, InHub(h)
       PROVE  SteadyClient(d)'
  <2>1. (~Starts(h) /\ ~ShutsDown(h)) \/ client'[d] = client[d]
    BY <1>1, <1>15, SteadySteps, StartChangesState DEF ShutsDown, StatesKept, Listening
  <2> QED BY <1>1, <1>3, <1>11, <1>15, <2>1, HandlersServe, ShutdownEnds
          DEF InHub, Starts, Handles, Served
<1>16. ~ \E c \in Clients : TimeOut(c)
  BY DEF Steady, TimeOut
<1> QED BY <1>3, <1>13, <1>14, <1>15, <1>16 DEF Next, vars

(* Nothing is entered in a table without the client learning of it, and a  *)
(* client does not forget a key before its hub has.                        *)
LEMMA SteadyTableStep ==
    ASSUME SessionInv, Steady, SteadyState, [Next]_vars
    PROVE  SteadyTable'
<1> DEFINE E(i) == hub[1].clients[i]
<1>1. /\ TypeOK /\ AnswersFit /\ LiveIsAwaited /\ KeysIssuedOnce
      /\ 1 \in Hubs /\ Listening = {1}
      /\ \A c \in Clients : SteadyClient(c)
      /\ SteadyTable
  BY SteadySteps DEF SessionInv, SteadyState
<1>2. \A i \in DOMAIN hub[1].clients :
         E(i).owner \in Clients /\ E(i).private_key \in 1..issued
  <2>1. hub[1].clients \in Seq(Entry)
    BY <1>1 DEF TypeOK, Hub
  <2>2. \A i \in DOMAIN hub[1].clients : E(i) \in Entry
    BY <2>1
  <2> QED BY <1>1, <2>2 DEF Entry, KeysIssuedOnce
(* With the tables kept, what counts is what becomes of the owners.        *)
<1>3. ASSUME NEW c \in Clients, Rests(c)
      PROVE  SteadyTable'
  <2>1. TablesKept /\ QueuesKept /\ OthersKept(c) /\ client'[c].conn = "none"
    BY <1>3 DEF Rests
  <2>2. ASSUME NEW i \in DOMAIN hub[1].clients, E(i).owner = c
        PROVE  E(i).private_key = client'[c].key /\ E(i).private_key # NoKey
    <3>1. E(i).private_key \in {client[c].key, client[c].answer.key}
          /\ E(i).private_key # NoKey
      BY <1>1, <2>2 DEF SteadyTable, Held
    <3>2. CASE KeepsKey(c)
      BY <3>1, <3>2 DEF KeepsKey
    <3>3. CASE TakesKey(c)
      BY <1>1, <3>1, <3>3 DEF TakesKey, SteadyClient, Connected
    <3>4. CASE GivesKey(c)
      <4>1. client[c].conn \in {"none", "wait"} /\ client[c].pc \in Leaving
        BY <1>1, <2>2, <3>4 DEF GivesKey, SteadyTable
      <4>2. client[c].key = NoKey
        BY <3>4, <4>1 DEF GivesKey, RequestOver, Connected
      <4>3. client[c].answer.key = NoKey
        BY <1>1, <4>1 DEF AnswersFit, Leaving
      <4> QED BY <3>1, <4>2, <4>3
    <3> QED BY <1>3, <3>1, <3>2, <3>3, <3>4 DEF Rests
  <2>3. ASSUME NEW i \in DOMAIN hub[1].clients, E(i).owner # c
        PROVE  client'[E(i).owner] = client[E(i).owner]
    BY <1>2, <2>1, <2>3 DEF OthersKept
  <2>4. ASSUME NEW i \in DOMAIN hub'[1].clients
        PROVE  /\ E(i)' = E(i) /\ i \in DOMAIN hub[1].clients
               /\ E(i).private_key \in Held(E(i).owner)'
               /\ client'[E(i).owner].pc \in Leaving =>
                     client'[E(i).owner].conn \in {"none", "wait"}
    <3>1. E(i)' = E(i) /\ i \in DOMAIN hub[1].clients
      BY <1>1, <2>1 DEF TablesKept
    <3>2. CASE E(i).owner = c
      BY <2>1, <2>2, <3>1, <3>2 DEF Held
    <3>3. CASE E(i).owner # c
      BY <1>1, <2>3, <3>1, <3>3 DEF SteadyTable, Held
    <3> QED BY <3>1, <3>2, <3>3
  <2>5. \A i \in DOMAIN hub'[1].queue : hub'[1].queue[i].live
    BY <1>1, <2>1 DEF SteadyTable, QueuesKept
  <2> QED BY <2>4, <2>5 DEF SteadyTable
<1>4. ASSUME NEW c \in Clients, Posts(c)
      PROVE  SteadyTable'
  <2>1. TablesKept /\ OthersKept(c) /\ OnlyConn(c) /\ client[c].pc \in Asks
    BY <1>4 DEF Posts
  <2>2. client[c].pc \in Leaving => client'[c].conn = "wait"
    BY <1>1, <1>4 DEF Posts, SteadyClient
  <2>3. \A j \in DOMAIN hub'[1].queue : hub'[1].queue[j].live
    <3>1. CASE QueuesKept
      BY <1>1, <3>1 DEF QueuesKept, SteadyTable
    <3>2. CASE QueuedAt(1, RequestOf(c))
      <4>1. RequestOf(c).live
        BY DEF RequestOf
      <4>2. \A j \in DOMAIN hub'[1].queue :
               \/ j \in DOMAIN hub[1].queue /\ hub'[1].queue[j] = hub[1].queue[j]
               \/ hub'[1].queue[j] = RequestOf(c)
        BY <1>1, <2>1, <3>2, PostedRequest
      <4> QED BY <1>1, <4>1, <4>2 DEF SteadyTable
    <3> QED BY <1>1, <1>4, <3>1, <3>2 DEF Posts
  <2>4. ASSUME NEW i \in DOMAIN hub'[1].clients
        PROVE  LET e == hub'[1].clients[i]
               IN  /\ e.private_key \in Held(e.owner)
                   /\ e = E(i) /\ i \in DOMAIN hub[1].clients
                   /\ client[e.owner].pc \in Leaving => client[e.owner].conn \in {"none", "wait"}
    BY <1>1, <2>1, <2>4 DEF TablesKept, SteadyTable
  <2>5. \A d \in Clients : /\ client'[d].key = client[d].key
                           /\ client'[d].answer = client[d].answer
                           /\ client'[d].pc = client[d].pc
                           /\ d # c => client'[d].conn = client[d].conn
    BY <2>1 DEF OthersKept, OnlyConn
  <2>6. ASSUME NEW i \in DOMAIN hub'[1].clients
        PROVE  LET e == hub'[1].clients[i]
               IN  /\ e.private_key \in {client'[e.owner].key, client'[e.owner].answer.key} \ {NoKey}
                   /\ client'[e.owner].pc \in Leaving => client'[e.owner].conn \in {"none", "wait"}
    <3>1. hub'[1].clients[i].owner \in Clients
      BY <1>2, <2>4
    <3> DEFINE d == hub'[1].clients[i].owner
    <3>2. /\ client'[d].key = client[d].key /\ client'[d].answer = client[d].answer
          /\ client'[d].pc = client[d].pc
          /\ d # c => client'[d].conn = client[d].conn
      BY <2>5, <3>1
    <3>3. hub'[1].clients[i].private_key \in {client'[d].key, client'[d].answer.key} \ {NoKey}
      BY <2>4, <3>2 DEF Held
    <3>4. client'[d].pc \in Leaving => client'[d].conn \in {"none", "wait"}
      BY <2>2, <2>4, <3>2
    <3> QED BY <3>3, <3>4
  <2> QED BY <2>3, <2>6 DEF SteadyTable, Held
<1>5. ASSUME Served(1)
      PROVE  SteadyTable'
  <2> DEFINE r == First(1)
  <2>1. /\ Service(1) /\ 1 \in DOMAIN hub[1].queue /\ r = hub[1].queue[1]
        /\ r \in Request /\ r.from \in Clients
        /\ \A j \in DOMAIN hub'[1].queue :
              \E i \in DOMAIN hub[1].queue : hub'[1].queue[j] = hub[1].queue[i]
    BY <1>1, <1>5, TakenRequest DEF Served
  <2>2. \A j \in DOMAIN hub'[1].queue : hub'[1].queue[j].live
    BY <1>1, <2>1 DEF SteadyTable
  <2>3. r.live /\ Awaited(r)
    BY <1>1, <2>1 DEF SteadyTable, LiveIsAwaited
  <2>4. client[r.from].answer.key = NoKey /\ client[r.from].key = r.key
    BY <1>1, <2>1, <2>3 DEF Awaited, AnswersFit
  <2>5. /\ Answered(r, r.from)
        /\ \A d \in Clients \ {r.from} : client'[d] = client[d]
    BY <2>1, <2>3 DEF Service
  <2> HIDE DEF r
  <2>6. ASSUME \A j \in DOMAIN hub'[1].clients :
                  LET e == hub'[1].clients[j]
                  IN  \/ /\ \E i \in DOMAIN hub[1].clients : e = E(i)
                         /\ e.owner # r.from
                      \/ /\ e.owner = r.from
                         /\ e.private_key # NoKey
                         /\ e.private_key \in {client'[r.from].key, client'[r.from].answer.key}
                         /\ client'[r.from].pc \notin Leaving
        PROVE  SteadyTable'
    <3>1. ASSUME NEW j \in DOMAIN hub'[1].clients
          PROVE  LET e == hub'[1].clients[j]
                 IN  /\ e.private_key \in {client'[e.owner].key, client'[e.owner].answer.key} \ {NoKey}
                     /\ client'[e.owner].pc \in Leaving => client'[e.owner].conn \in {"none", "wait"}
      <4> DEFINE e == hub'[1].clients[j]
      <4>1. CASE (\E i \in DOMAIN hub[1].clients : e = E(i)) /\ e.owner # r.from
        <5>1. PICK i \in DOMAIN hub[1].clients : e = E(i)
          BY <4>1
        <5>2. client'[e.owner] = client[e.owner]
          BY <1>2, <2>5, <4>1, <5>1
        <5>3. /\ E(i).private_key \in Held(E(i).owner)
              /\ client[E(i).owner].pc \in Leaving => client[E(i).owner].conn \in {"none", "wait"}
          BY <1>1 DEF SteadyTable
        <5> QED BY <5>1, <5>2, <5>3 DEF Held
      <4>2. CASE /\ e.owner = r.from
                 /\ e.private_key # NoKey
                 /\ e.private_key \in {client'[r.from].key, client'[r.from].answer.key}
                 /\ client'[r.from].pc \notin Leaving
        BY <4>2
      <4> QED BY <2>6, <4>1, <4>2
    <3> QED BY <2>2, <3>1 DEF SteadyTable, Held
  <2>7. \A i \in DOMAIN hub[1].clients : E(i).owner = r.from =>
           E(i).private_key = client[r.from].key /\ E(i).private_key # NoKey
    BY <1>1, <2>4 DEF SteadyTable, Held
  <2>8. CASE OnlyAnswers(1)
    <3>1. hub'[1].clients = hub[1].clients /\ r.method \in {"ping", "metadata"}
      BY <2>8 DEF OnlyAnswers, r
    <3>2. client[r.from].pc \notin Leaving
      BY <2>3, <3>1, Asking DEF Awaited
    <3> QED BY <2>5, <2>6, <2>7, <3>1, <3>2 DEF Answered
  <2>9. CASE Unregisters(1)
    <3>1. \A j \in DOMAIN hub'[1].clients : \E i \in DOMAIN hub[1].clients :
             hub'[1].clients[j] = E(i) /\ E(i).private_key # r.key
      BY <1>1, <2>9, LeftEntries DEF r
    <3> QED BY <2>4, <2>6, <2>7, <3>1
  <2>10. CASE Registers(1)
    <3> DEFINE n == Len(hub[1].clients) + 1
    <3>1. /\ DOMAIN hub'[1].clients = DOMAIN hub[1].clients \cup {n}
          /\ \A i \in DOMAIN hub[1].clients : hub'[1].clients[i] = E(i)
          /\ hub'[1].clients[n] = NewEntry(1)
          /\ NewEntry(1).private_key = issued + 1
      BY <1>1, <2>1, <2>10, NewRegistration
    <3> HIDE DEF n
    <3>2. client[r.from].pc = "register"
      BY <2>3, <2>10, Asking DEF Awaited, Registers, r
    <3>3. client[r.from].key = NoKey /\ client'[r.from].pc \notin Leaving
      BY <1>1, <2>1, <2>5, <3>2 DEF SteadyClient, Connected, Answered, Leaving
    <3>4. NewEntry(1).owner = r.from /\ client'[r.from].answer.key = issued + 1
      BY <2>3, <2>10 DEF NewEntry, Registers, r
    <3>5. issued + 1 # NoKey
      BY <1>1 DEF TypeOK, NoKey
    <3> QED BY <2>6, <2>7, <3>1, <3>3, <3>4, <3>5
  <2> QED BY <1>5, <2>8, <2>9, <2>10 DEF Served
<1>6. CASE SameSession
  BY <1>1, <1>6 DEF SameSession, TablesKept, QueuesKept, SteadyTable, Held
<1> QED BY <1>3, <1>4, <1>5, <1>6, SteadySteps

THEOREM SteadyInvHolds == Spec => []SteadyInv
<1>1. Init => SteadyInv
  <2> SUFFICES ASSUME Init, Steady PROVE SteadyState
    BY DEF SteadyInv, SteadyState
  <2>1. 1 \in Hubs
    BY SettingAssumption DEF Hubs
  <2> QED BY <2>1 DEF Init, Steady, SteadyState, SteadyHub, SteadyClient, SteadyTable,
                      Connected, Leaving
<1>2. SessionInv /\ SteadyInv /\ [Next]_vars => SteadyInv'
  <2> SUFFICES ASSUME SessionInv, SteadyInv, [Next]_vars, Steady'
               PROVE  SteadyHub' /\ (\A c \in Clients : SteadyClient(c)') /\ SteadyTable'
    BY DEF SteadyInv
  <2>1. Steady /\ SteadyState
    BY DEF SteadyInv, SteadyState, Steady, Next, vars
  <2>2. SteadyHub'
    BY <2>1, SteadySteps DEF SteadyState, SteadyHub, StatesKept
  <2> QED BY <2>1, <2>2, SteadyClientStep, SteadyTableStep
<1> QED BY <1>1, <1>2, SessionInvHolds, PTL DEF Spec

(* In a steady session the clients keep to the hub that is there.          *)
THEOREM OnlyOneHub == Spec => []OneHub
<1>1. SessionInv /\ SteadyInv => OneHub
  <2> SUFFICES ASSUME SteadyInv, Steady PROVE Cardinality(AtWork) <= 1
    BY DEF OneHub
  <2>1. 1 \in Hubs
    BY SettingAssumption DEF Hubs
  <2>2. AtWork = {1}
    BY <2>1 DEF SteadyInv, SteadyHub, AtWork
  <2>3. Cardinality({1}) = 1
    BY FS_Singleton
  <2> QED BY <2>2, <2>3
<1> QED BY <1>1, SessionInvHolds, SteadyInvHolds, PTL

(* In a steady session every entry of a hub belongs to a client that has   *)
(* its key or is about to get it.                                          *)
THEOREM NoEntryIsLeft == Spec => []NoStrayEntry
<1>1. SteadyInv => NoStrayEntry
  <2> SUFFICES ASSUME SteadyInv, Steady, NEW h \in Listening, NEW i \in DOMAIN hub[h].clients
               PROVE  LET e == hub[h].clients[i]
                      IN  \/ client[e.owner].key = e.private_key
                          \/ client[e.owner].answer.key = e.private_key
    BY DEF NoStrayEntry
  <2>1. h = 1
    BY DEF SteadyInv, SteadyHub, Listening
  <2> QED BY <2>1 DEF SteadyInv, SteadyTable, Held
<1> QED BY <1>1, SteadyInvHolds, PTL
=============================================================================
