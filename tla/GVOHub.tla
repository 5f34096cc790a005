------------------------------- MODULE GVOHub -------------------------------
(***************************************************************************)
(* One running SAMP hub (src/src/vo/GVOHub.cpp) and the SAMP programs, the *)
(* agents, that talk to it.  The hub serves one connection after the       *)
(* other, so a handler with its answer and its notifications is one        *)
(* action.  Agents are not part of the library: of what they do, the model *)
(* has the requests that change the hub, and what an agent that follows    *)
(* the hub's events believes about the other clients.                      *)
(*                                                                         *)
(* Private keys come from random_string(), which seeds the generator with  *)
(* the time in seconds: the key is a function of the second, and is        *)
(* modelled as that second.                                                *)
(***************************************************************************)
EXTENDS GVOHubClients

CONSTANTS
    Agents,        \* the programs, each with a callback URL of its own
    Names,         \* the metadata an agent may declare
    Declarations,  \* the sets of events an agent may subscribe to at once
    MaxTime,       \* bound: last second in which clients register
    MaxClients,    \* bound: length of the table of clients
    OnePerSecond   \* no client registers in the second of another one

Events == {"register", "unregister", "metadata"}

ASSUME TimeAssumption ==
    /\ MaxTime \in Nat \ {0}
    /\ MaxClients \in Nat
    /\ Declarations \subseteq SUBSET Events
    /\ OnePerSecond \in BOOLEAN

NoUrl   == "127.0.0.1:2525"     \* where notify() goes without a callback URL
NoName  == ""
NoKey   == 0
Unknown == "unknown"            \* a name the agent has not been told

ASSUME NameAssumption ==
    /\ NoUrl \notin Agents
    /\ {Unknown, NoName} \cap Names = {}

VARIABLES
    m_clients,     \* the table of clients
    m_shutdown,    \* a shutdown was requested: the event loop is left
    now,           \* time(0)
    agent          \* what the agents hold and believe

vars == <<m_clients, m_shutdown, now, agent>>

(* What an agent has: the key and identity of its registration, the part   *)
(* of the event protocol that the hub has acknowledged, and its roster of  *)
(* the other clients with their names, or none.                            *)
NotJoined == [key |-> NoKey, id |-> 0, heard |-> {}, calls |-> FALSE,
              follows |-> FALSE, roster |-> <<>>]

Ids     == 0..MaxClients
Rosters == UNION {[R -> Names \cup {NoName, Unknown}] : R \in SUBSET Ids}
Client  == [reference     : Ids,
            private_key   : 1..MaxTime,
            subscriptions : SUBSET Events,
            url           : Agents \cup {NoUrl},
            name          : Names \cup {NoName}]
Agent   == [key     : 0..MaxTime,
            id      : Ids,
            heard   : SUBSET Events,
            calls   : BOOLEAN,
            follows : BOOLEAN,
            roster  : Rosters]

TypeOK ==
    /\ m_clients \in Seq(Client)
    /\ m_shutdown \in BOOLEAN
    /\ now \in 1..MaxTime
    /\ agent \in [Agents -> Agent]

Init ==
    /\ m_clients = <<>>
    /\ m_shutdown = FALSE
    /\ now = 1
    /\ agent = [a \in Agents |-> NotJoined]

-----------------------------------------------------------------------------
(* Notifications: send_notifications() and notify()                        *)

(* Where a notification goes, and the key it carries: to every client that *)
(* subscribed to the event, the client it is about included.  A client     *)
(* that subscribed twice gets it twice, which the set does not show.       *)
MutantFirstSubscriber(clients, event) ==
    LET i == SelectInSeq(clients, LAMBDA c : event \in c.subscriptions)
    IN  IF i = 0 THEN {}
        ELSE {[url |-> clients[i].url, key |-> clients[i].private_key]}

Recipients(clients, event) ==
    {[url |-> clients[i].url, key |-> clients[i].private_key] :
        i \in {k \in DOMAIN clients : event \in clients[k].subscriptions}}

(* An agent listens at its own URL to notifications that carry its key.    *)
Hears(b, clients, event) ==
    /\ agent[b].follows
    /\ [url |-> b, key |-> agent[b].key] \in Recipients(clients, event)

WithName(roster, id, name) == [r \in DOMAIN roster \cup {id} |->
                                  IF r = id THEN name ELSE roster[r]]
Without(roster, id) == [r \in DOMAIN roster \ {id} |-> roster[r]]

(* What the agents other than a do with an event about client id.          *)
Told(a, b, clients, event, id, name) ==
    IF b = a \/ ~Hears(b, clients, event) THEN agent[b]
    ELSE [agent[b] EXCEPT !.roster =
             CASE event = "register"   -> WithName(@, id, Unknown)
               [] event = "unregister" -> Without(@, id)
               [] event = "metadata"   -> IF id \in DOMAIN @
                                          THEN WithName(@, id, name) ELSE @]

-----------------------------------------------------------------------------
(* Requests: a is the agent that sends one                                 *)

random_string == now

(* request_register: the secret in the request is not looked at.           *)
Register(a) ==
    LET new == [reference     |-> FreeReference(m_clients),
                private_key   |-> random_string,
                subscriptions |-> {},
                url           |-> NoUrl,
                name          |-> NoName]
    IN  /\ ~m_shutdown
        /\ Len(m_clients) < MaxClients
        /\ OnePerSecond => \A i \in DOMAIN m_clients :
                              m_clients[i].private_key # random_string
        /\ m_clients' = Append(m_clients, new)
        /\ agent' = [b \in Agents |->
              IF b = a
              THEN [NotJoined EXCEPT !.key = new.private_key,
                                     !.id = new.reference]
              ELSE Told(a, b, m_clients', "register", new.reference, Unknown)]
        /\ UNCHANGED <<m_shutdown, now>>

Own(a) == IndexOfKey(m_clients, agent[a].key)

Joined(a) == agent[a].key # NoKey

(* request_unregister: the notifications are sent before the client is     *)
(* erased.  An unknown client gets no answer; the agent gives up its key   *)
(* all the same.                                                           *)
ToldOfLeave(a, i) ==
    [b \in Agents |->
        IF b = a THEN NotJoined
        ELSE Told(a, b, m_clients, "unregister", m_clients[i].reference, NoName)]

Unregister(a) ==
    /\ ~m_shutdown
    /\ Joined(a)
    /\ IF Own(a) # 0
       THEN /\ m_clients' = Erase(m_clients, Own(a))
            /\ agent' = ToldOfLeave(a, Own(a))
       ELSE /\ agent' = [agent EXCEPT ![a] = NotJoined]
            /\ UNCHANGED m_clients
    /\ UNCHANGED <<m_shutdown, now>>

(* request_declare_metadata: stored, then told.                            *)
MutantToldBeforeStored(a, clients, i) ==
    [b \in Agents |->
        Told(a, b, clients, "metadata", m_clients[i].reference, m_clients[i].name)]

ToldOfName(a, clients, i) ==
    [b \in Agents |->
        Told(a, b, clients, "metadata", clients[i].reference, clients[i].name)]

DeclareMetadata(a, name) ==
    /\ ~m_shutdown
    /\ Joined(a)
    /\ Own(a) # 0
    /\ m_clients' = [m_clients EXCEPT ![Own(a)].name = name]
    /\ agent' = ToldOfName(a, m_clients', Own(a))
    /\ UNCHANGED <<m_shutdown, now>>

(* request_declare_subscriptions: added to those the client has.           *)
MutantReplacesSubscriptions(old, new) == new

AddSubscriptions(old, new) == old \cup new

DeclareSubscriptions(a, events) ==
    /\ ~m_shutdown
    /\ Joined(a)
    /\ Own(a) # 0
    /\ m_clients' = [m_clients EXCEPT ![Own(a)].subscriptions =
                        AddSubscriptions(@, events)]
    /\ agent' = [agent EXCEPT ![a].heard = @ \cup events]
    /\ UNCHANGED <<m_shutdown, now>>

(* request_set_xml_rpc_callback *)
SetCallback(a) ==
    /\ ~m_shutdown
    /\ Joined(a)
    /\ Own(a) # 0
    /\ m_clients' = [m_clients EXCEPT ![Own(a)].url = a]
    /\ agent' = [agent EXCEPT ![a].calls = TRUE]
    /\ UNCHANGED <<m_shutdown, now>>

(* request_get_registered_clients: all but those that have the key of the  *)
(* request.  An agent that follows the events keeps the answer.            *)
OtherClients(key) ==
    {m_clients[i].reference :
        i \in {k \in DOMAIN m_clients : m_clients[k].private_key # key}}

Subscribed(a) == agent[a].heard = Events /\ agent[a].calls

GetRegisteredClients(a) ==
    /\ ~m_shutdown
    /\ Joined(a)
    /\ Subscribed(a)
    /\ agent' = [agent EXCEPT
          ![a].follows = TRUE,
          ![a].roster  = [r \in OtherClients(agent[a].key) |-> Unknown]]
    /\ UNCHANGED <<m_clients, m_shutdown, now>>

(* request_get_metadata, by reference *)
GetMetadata(a, id) ==
    LET i == IndexOfReference(m_clients, id)
    IN  /\ ~m_shutdown
        /\ i # 0
        /\ agent' = [agent EXCEPT ![a].roster = WithName(@, id, m_clients[i].name)]
        /\ UNCHANGED <<m_clients, m_shutdown, now>>

(* request_shutdown: answered, then start_hub() leaves the event loop.     *)
Shutdown ==
    /\ ~m_shutdown
    /\ m_shutdown' = TRUE
    /\ UNCHANGED <<m_clients, now, agent>>

Tick ==
    /\ now < MaxTime
    /\ now' = now + 1
    /\ UNCHANGED <<m_clients, m_shutdown, agent>>

Next ==
    \/ \E a \in Agents :
          \/ Register(a)
          \/ Unregister(a)
          \/ \E name \in Names : DeclareMetadata(a, name)
          \/ \E events \in Declarations : DeclareSubscriptions(a, events)
          \/ SetCallback(a)
          \/ GetRegisteredClients(a)
          \/ agent[a].follows
                /\ \E id \in DOMAIN agent[a].roster : GetMetadata(a, id)
    \/ Shutdown
    \/ Tick

Spec == Init /\ [][Next]_vars

-----------------------------------------------------------------------------
(* Properties                                                              *)

(* No two clients of the table share a reference, however clients come and *)
(* go: request_register() gives the references of departed clients again.  *)
ReferencesUnique ==
    \A i, j \in DOMAIN m_clients :
        m_clients[i].reference = m_clients[j].reference => i = j

(* The private key of an agent leads every handler to the client that      *)
(* register gave this agent (get_client_index), if no two clients have     *)
(* registered in the same second.                                          *)
KeyLeadsHome ==
    \A a \in Agents :
        Joined(a) =>
            /\ Own(a) # 0
            /\ m_clients[Own(a)].reference = agent[a].id

(* An agent that has a callback, hears all events and has then asked once  *)
(* for the registered clients knows at any time who is registered: it      *)
(* misses nobody that came after, and keeps nobody that left.              *)
RosterIsComplete ==
    \A a \in Agents :
        agent[a].follows =>
            DOMAIN agent[a].roster = References(m_clients) \ {agent[a].id}

(* The names it holds are those the clients have declared last, although   *)
(* references are given to new clients again.                              *)
NamesAreCurrent ==
    \A a \in Agents :
        agent[a].follows =>
            \A i \in DOMAIN m_clients :
                m_clients[i].reference \in DOMAIN agent[a].roster =>
                    agent[a].roster[m_clients[i].reference]
                        \in {m_clients[i].name, Unknown}

(* What the hub holds of a client is what this client has declared and the *)
(* hub has acknowledged: no request of another client has changed it.      *)
DeclaredIsHeld ==
    \A a \in Agents :
        Joined(a) =>
            /\ m_clients[Own(a)].subscriptions = agent[a].heard
            /\ m_clients[Own(a)].url = IF agent[a].calls THEN a ELSE NoUrl

(* The strengthening under which these are inductive.  An agent that has   *)
(* joined has an entry that is its own in every field, no two entries and  *)
(* no two agents share a key, and an agent that follows the events has     *)
(* declared what it takes to hear them.                                    *)
Home(a, i) ==
    /\ m_clients[i].private_key = agent[a].key
    /\ m_clients[i].reference = agent[a].id
    /\ m_clients[i].subscriptions = agent[a].heard
    /\ m_clients[i].url = IF agent[a].calls THEN a ELSE NoUrl

EveryoneHasAHome ==
    \A a \in Agents : Joined(a) => \E i \in DOMAIN m_clients : Home(a, i)

KeysApart ==
    /\ \A i, j \in DOMAIN m_clients :
          m_clients[i].private_key = m_clients[j].private_key => i = j
    /\ \A a, b \in Agents : Joined(a) /\ agent[a].key = agent[b].key => a = b

FollowersListen ==
    \A a \in Agents : agent[a].follows => Joined(a) /\ Subscribed(a)

HubInv ==
    /\ TypeOK
    /\ ReferencesUnique
    /\ FollowersListen
    /\ OnePerSecond => KeysApart /\ EveryoneHasAHome /\ RosterIsComplete
=============================================================================
