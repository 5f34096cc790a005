----------------------------- MODULE GVOSession -----------------------------
(***************************************************************************)
(* Clients of the Virtual Observatory (src/src/vo/GVOClient.cpp), the hub  *)
(* processes they launch, and the lock file through which they find a hub. *)
(* Every client is an application of its own; its calls run to their end   *)
(* in steps that interleave with the steps of other clients and of hubs.   *)
(* The hubs all have the same address, so that the lock file only says     *)
(* whether there is one; they keep the table of GVOHubClients.  The keys   *)
(* of this module differ: what equal keys do is the subject of GVOHub.     *)
(***************************************************************************)
EXTENDS GVOHubClients, FiniteSets

CONSTANTS
    Clients,       \* the applications
    MaxHubs,       \* bound: number of hub processes
    Tries,         \* how often require_hub() looks for the hub it has launched
    Settings       \* the circumstances to consider

Methods == {"connect", "disconnect", "shutdown_hub", "clear"}

(* The circumstances of a session, which do not change.                    *)
Setting ==
    [users      : SUBSET Clients,   \* the applications that call something
     methods    : SUBSET Methods,   \* what they call
     max_calls  : Nat,              \* bound: number of calls
     hubs       : 0..MaxHubs,       \* hubs that can be launched; then fork fails
     first_hub  : {"absent", "launched", "listening"},   \* hub 1 at the start
     late       : BOOLEAN,  \* a request may get no answer within the two seconds
     slow       : BOOLEAN,  \* a launched hub may need longer than the tries last
     again      : BOOLEAN,  \* a connected client may call connect() again
     reuse_port : BOOLEAN]  \* the system has SO_REUSEPORT: several hubs may listen

ASSUME SettingAssumption ==
    /\ MaxHubs \in Nat \ {0} /\ Tries \in Nat \ {0}
    /\ \A s \in Settings : s \in Setting

Hubs  == 1..MaxHubs
NoKey == 0

VARIABLES
    setting,       \* the circumstances
    lockfile,      \* ~/.samp: absent, opened for writing (empty), or written
    hub,           \* the hub processes
    client,        \* the GVOClient objects, one per application
    issued,        \* number of keys the hubs have given out
    calls          \* number of calls of the applications

vars == <<setting, lockfile, hub, client, issued, calls>>

(* hub[h].state: "absent", "launched", "opened" (its lock file), "filed",  *)
(* "listening", "ended"; hub[h].clients: the table of registrations, with  *)
(* an owner that is not in the code, the client that asked for it;         *)
(* hub[h].queue: the requests at its socket, each with its method, the     *)
(* client it comes from and that client's key, and live until the client   *)
(* gives up waiting.                                                       *)
(* client[c].pc and try: where its call is; has_hub and host: what it      *)
(* knows of a hub; key and id: its registration; conn and answer: what its *)
(* last request has come to.                                               *)

(* The requests a client waits for, by where it is in its call.            *)
RequestAt ==
    [ping       |-> "ping",
     look_ping  |-> "ping",
     register   |-> "register",
     metadata   |-> "metadata",
     unregister |-> "unregister",
     clear      |-> "unregister",
     shutdown   |-> "shutdown"]

NoAnswer == [key |-> NoKey, id |-> 0]

(* The constructor looks for a hub at once.                                *)
Init ==
    /\ setting \in Settings
    /\ lockfile \in IF setting.first_hub = "listening" THEN {"written"}
                    ELSE {"absent", "written"}
    /\ hub = [h \in Hubs |-> [state   |-> IF h = 1 THEN setting.first_hub ELSE "absent",
                              clients |-> <<>>,
                              queue   |-> <<>>]]
    /\ client = [c \in Clients |->
                    [pc |-> "idle", try |-> 0,
                     has_hub |-> lockfile = "written",
                     host |-> lockfile = "written",
                     key |-> NoKey, id |-> 0,
                     conn |-> "none", answer |-> NoAnswer]]
    /\ issued = 0
    /\ calls = 0

Listening == {h \in Hubs : hub[h].state = "listening"}
Connected(c) == client[c].key # NoKey           \* is_connected()

-----------------------------------------------------------------------------
(* Requests of a client: execute()                                         *)

(* connect_to_hub() and post_string(): with SO_REUSEPORT the system passes *)
(* the connection to any of the hubs that listen.                          *)
Post(c) ==
    LET at == client[c].pc
    IN  /\ at \in DOMAIN RequestAt
        /\ client[c].conn = "none"
        /\ at \in {"unregister", "clear"} => Connected(c)
        /\ IF client[c].host /\ Listening # {}
           THEN \E h \in Listening :
                  /\ hub' = [hub EXCEPT ![h].queue = Append(@,
                        [method |-> RequestAt[at], from |-> c,
                         key |-> client[c].key, live |-> TRUE])]
                  /\ client' = [client EXCEPT ![c].conn = "wait"]
           ELSE /\ client' = [client EXCEPT ![c].conn = "no"]
                /\ UNCHANGED hub
        /\ UNCHANGED <<lockfile, issued, calls>>

(* receive_string() waits two seconds, then the socket is closed.  The     *)
(* hub will find the request in its queue all the same.                    *)
Abandoned(queue, c) ==
    [i \in DOMAIN queue |-> [queue[i] EXCEPT !.live = @ /\ queue[i].from # c]]

TimeOut(c) ==
    /\ setting.late
    /\ client[c].conn = "wait"
    /\ client' = [client EXCEPT ![c].conn = "no"]
    /\ hub' = [h \in Hubs |-> [hub[h] EXCEPT !.queue = Abandoned(@, c)]]
    /\ UNCHANGED <<lockfile, issued, calls>>

(* The call goes on at pc, without a request under way.                    *)
GoTo(c, pc) == [client[c] EXCEPT !.pc = pc, !.conn = "none", !.answer = NoAnswer]

Return(c) == [GoTo(c, "idle") EXCEPT !.try = 0]

Step(c, next) == /\ client' = [client EXCEPT ![c] = next]
                 /\ UNCHANGED <<lockfile, hub, issued, calls>>

-----------------------------------------------------------------------------
(* connect()                                                               *)

(* find_hub() sets its members from what the lock file has; an empty file  *)
(* leaves them, and the hub that was known before counts as found.         *)
MutantNeverFound(c) == FALSE

Found(c) == \/ lockfile = "written"
            \/ lockfile = "empty" /\ client[c].has_hub

MutantNoHost(c, pc) ==
    [GoTo(c, pc) EXCEPT !.has_hub = @ \/ lockfile = "written"]

Seen(c, pc) == [GoTo(c, pc) EXCEPT !.has_hub = @ \/ lockfile = "written",
                                   !.host    = @ \/ lockfile = "written"]

Find(c) ==
    /\ client[c].pc = "find"
    /\ Step(c, Seen(c, IF Found(c) THEN "ping" ELSE "launch"))

(* The answer of the first ping.                                           *)
Pinged(c) ==
    /\ client[c].pc = "ping"
    /\ client[c].conn \in {"yes", "no"}
    /\ Step(c, GoTo(c, IF client[c].conn = "yes" THEN "register" ELSE "launch"))

Unborn == {h \in 1..setting.hubs : hub[h].state = "absent"}

Launch(c) ==
    /\ client[c].pc = "launch"
    /\ Unborn # {}
    /\ LET h == CHOOSE k \in Unborn : \A j \in Unborn : k <= j
       IN  hub' = [hub EXCEPT ![h].state = "launched"]
    /\ client' = [client EXCEPT ![c] = [GoTo(c, "look") EXCEPT !.try = 0]]
    /\ UNCHANGED <<lockfile, issued, calls>>

ForkFails(c) ==
    /\ client[c].pc = "launch"
    /\ Unborn = {}
    /\ Step(c, Return(c))

(* The parent looks for the hub: find_hub() && ping_hub(), else sleep(1).  *)
Look(c) ==
    /\ client[c].pc = "look"
    /\ Step(c, Seen(c, IF Found(c) THEN "look_ping" ELSE "sleep"))

LookPinged(c) ==
    /\ client[c].pc = "look_ping"
    /\ client[c].conn \in {"yes", "no"}
    /\ Step(c, GoTo(c, IF client[c].conn = "yes" THEN "register" ELSE "sleep"))

MoreTries(c) == client[c].try + 1 < Tries

Sleep(c) ==
    /\ client[c].pc = "sleep"
    /\ setting.slow => MoreTries(c)
    /\ Step(c, [GoTo(c, "look") EXCEPT !.try = IF setting.slow THEN @ + 1 ELSE @])

(* No hub after the last try: its secret, URL and version are cleared,     *)
(* its host and the client's own key are not; connect() then does nothing. *)
MutantKeepsLooking(c) == [GoTo(c, "look") EXCEPT !.try = 0]

GivenUp(c) == [Return(c) EXCEPT !.has_hub = FALSE]

GiveUp(c) ==
    /\ client[c].pc = "sleep"
    /\ setting.slow
    /\ ~MoreTries(c)
    /\ Step(c, GivenUp(c))

(* register_to_hub() throws when there is no valid answer.                 *)
Registered(c) ==
    /\ client[c].pc = "register"
    /\ client[c].conn = "yes"
    /\ Step(c, [GoTo(c, "metadata") EXCEPT !.key = client[c].answer.key,
                                           !.id  = client[c].answer.id])

RegisterThrows(c) ==
    /\ client[c].pc = "register"
    /\ client[c].conn = "no"
    /\ Step(c, Return(c))

(* send_metadata() does not look at the answer.                            *)
MetadataSent(c) ==
    /\ client[c].pc = "metadata"
    /\ client[c].conn \in {"yes", "no"}
    /\ Step(c, Return(c))

-----------------------------------------------------------------------------
(* disconnect(), clear(), shutdown_hub()                                   *)

(* unregister_from_hub() forgets the key whatever the hub answers, and     *)
(* sends nothing when there is none.                                       *)
MutantForgetsFirst(c) == TRUE

RequestOver(c) ==
    Connected(c) => client[c].conn \in {"yes", "no"}

Unregistered(c) ==
    /\ client[c].pc = "unregister"
    /\ RequestOver(c)
    /\ Step(c, [Return(c) EXCEPT !.key = NoKey,
                                               !.id  = 0])

(* free_members() and init_members()                                       *)
Cleared(c) ==
    /\ client[c].pc = "clear"
    /\ RequestOver(c)
    /\ Step(c, [Return(c) EXCEPT !.key = NoKey, !.id = 0,
                                          !.has_hub = FALSE, !.host = FALSE])

ShutdownSent(c) ==
    /\ client[c].pc = "shutdown"
    /\ client[c].conn \in {"yes", "no"}
    /\ Step(c, Return(c))

(* The application calls a method.  Without hub information disconnect()   *)
(* does nothing.                                                           *)
Call(c, method) ==
    /\ client[c].pc = "idle"
    /\ c \in setting.users /\ calls < setting.max_calls
    /\ method \in setting.methods
    /\ calls' = calls + 1
    /\ client' = [client EXCEPT ![c] =
          CASE method = "connect"      -> GoTo(c, "find")
            [] method = "disconnect"   -> IF @.has_hub THEN GoTo(c, "unregister")
                                          ELSE Return(c)
            [] method = "clear"        -> GoTo(c, "clear")
            [] method = "shutdown_hub" -> GoTo(c, "shutdown")]
    /\ UNCHANGED <<lockfile, hub, issued>>

ConnectAgain(c, method) == method = "connect" /\ Connected(c)

-----------------------------------------------------------------------------
(* Hub processes: start()                                                  *)

(* create_samp_file(): the file is truncated when it is opened, and the    *)
(* tokens are in it when it is closed.                                     *)
OpenLockfile(h) ==
    /\ hub[h].state = "launched"
    /\ hub' = [hub EXCEPT ![h].state = "opened"]
    /\ lockfile' = "empty"
    /\ UNCHANGED <<client, issued, calls>>

WriteLockfile(h) ==
    /\ hub[h].state = "opened"
    /\ hub' = [hub EXCEPT ![h].state = "filed"]
    /\ lockfile' = "written"
    /\ UNCHANGED <<client, issued, calls>>

(* start_hub(): bind() and listen()                                        *)
Listen(h) ==
    /\ hub[h].state = "filed"
    /\ setting.reuse_port \/ Listening = {}
    /\ hub' = [hub EXCEPT ![h].state = "listening"]
    /\ UNCHANGED <<lockfile, client, issued, calls>>

(* bind() fails: the exception destroys the hub, which removes the file.   *)
BindFails(h) ==
    /\ hub[h].state = "filed"
    /\ ~setting.reuse_port /\ Listening # {}
    /\ hub' = [hub EXCEPT ![h].state = "ended"]
    /\ lockfile' = "absent"
    /\ UNCHANGED <<client, issued, calls>>

(* The oldest request of a hub that serves, and the answer to it.          *)
Serves(h, method) ==
    /\ hub[h].state = "listening"
    /\ hub[h].queue # <<>>
    /\ Head(hub[h].queue).method = method

Answer(r, valid, answer) ==
    IF r.live
    THEN [client EXCEPT ![r.from].conn = IF valid THEN "yes" ELSE "no",
                        ![r.from].answer = answer]
    ELSE client

Ping(h) ==
    LET r == Head(hub[h].queue)
    IN  /\ Serves(h, "ping")
        /\ hub' = [hub EXCEPT ![h].queue = Tail(@)]
        /\ client' = Answer(r, TRUE, NoAnswer)
        /\ UNCHANGED <<lockfile, issued, calls>>

Register(h) ==
    LET r   == Head(hub[h].queue)
        new == [reference   |-> FreeReference(hub[h].clients),
                private_key |-> issued + 1,
                owner       |-> r.from]
    IN  /\ Serves(h, "register")
        /\ hub' = [hub EXCEPT ![h].queue = Tail(@),
                              ![h].clients = Append(@, new)]
        /\ client' = Answer(r, TRUE, [key |-> new.private_key,
                                      id |-> new.reference])
        /\ issued' = issued + 1
        /\ UNCHANGED <<lockfile, calls>>

(* declareMetadata: a client that this hub does not know gets no answer.   *)
DeclareMetadata(h) ==
    LET r == Head(hub[h].queue)
    IN  /\ Serves(h, "metadata")
        /\ hub' = [hub EXCEPT ![h].queue = Tail(@)]
        /\ client' = Answer(r, IndexOfKey(hub[h].clients, r.key) # 0, NoAnswer)
        /\ UNCHANGED <<lockfile, issued, calls>>

Unregister(h) ==
    LET r == Head(hub[h].queue)
        i == IndexOfKey(hub[h].clients, r.key)
    IN  /\ Serves(h, "unregister")
        /\ hub' = [hub EXCEPT ![h].queue = Tail(@),
                              ![h].clients = IF i = 0 THEN @ ELSE Erase(@, i)]
        /\ client' = Answer(r, i # 0, NoAnswer)
        /\ UNCHANGED <<lockfile, issued, calls>>

(* shutdown: the hub answers, leaves its loop, closes the socket with the  *)
(* connections that wait on it, and exits without destroying the GVOHub    *)
(* object, so that the lock file stays.                                    *)
MutantLockfileAtExit == "absent"

LockfileAtExit == lockfile

Shutdown(h) ==
    LET q == hub[h].queue
        waits(c) == \E i \in DOMAIN q : q[i].live /\ q[i].from = c
    IN  /\ Serves(h, "shutdown")
        /\ hub' = [hub EXCEPT ![h].state = "ended", ![h].queue = <<>>]
        /\ client' = [c \in Clients |->
              IF ~waits(c) THEN client[c]
              ELSE [client[c] EXCEPT !.conn =
                       IF Head(q).live /\ Head(q).from = c THEN "yes" ELSE "no"]]
        /\ lockfile' = LockfileAtExit
        /\ UNCHANGED <<issued, calls>>

-----------------------------------------------------------------------------
InCall(c) ==
    \/ Post(c) \/ Find(c) \/ Pinged(c) \/ Launch(c) \/ ForkFails(c)
    \/ Look(c) \/ LookPinged(c) \/ Sleep(c) \/ GiveUp(c)
    \/ Registered(c) \/ RegisterThrows(c) \/ MetadataSent(c)
    \/ Unregistered(c) \/ Cleared(c) \/ ShutdownSent(c)

InHub(h) ==
    \/ OpenLockfile(h) \/ WriteLockfile(h) \/ Listen(h) \/ BindFails(h)
    \/ Ping(h) \/ Register(h) \/ DeclareMetadata(h) \/ Unregister(h) \/ Shutdown(h)

Next ==
    /\ \/ \E c \in Clients :
             \/ InCall(c)
             \/ TimeOut(c)
             \/ \E method \in Methods :
                   (ConnectAgain(c, method) => setting.again) /\ Call(c, method)
       \/ \E h \in Hubs : InHub(h)
    /\ UNCHANGED setting

Spec == Init /\ [][Next]_vars

(* A call that was made runs on, and a hub process runs on.                *)
FairSpec == /\ Spec
            /\ \A c \in Clients : WF_vars(InCall(c) /\ UNCHANGED setting)
            /\ \A h \in Hubs : WF_vars(InHub(h) /\ UNCHANGED setting)

-----------------------------------------------------------------------------
(* Properties                                                              *)

(* The key of a client is in the table of some hub, in an entry that this  *)
(* client has asked for and with the identity it was told, until the       *)
(* client itself gives the key up: whatever gets lost, comes late or is    *)
(* sent to the wrong hub.                                                  *)
KeyIsRegistered ==
    \A c \in Clients :
        Connected(c) /\ client[c].pc \notin {"unregister", "clear"} =>
            \E h \in Hubs : \E i \in DOMAIN hub[h].clients :
                /\ hub[h].clients[i].private_key = client[c].key
                /\ hub[h].clients[i].reference = client[c].id
                /\ hub[h].clients[i].owner = c

(* With SO_REUSEPORT, a hub that listens can be found: the lock file is    *)
(* there, or being written by another hub.                                 *)
ListeningIsFindable ==
    setting.reuse_port /\ Listening # {} =>
        \/ lockfile = "written"
        \/ \E h \in Hubs : hub[h].state = "opened"

(* A hub listens at the start, is not shut down, and answers in time; no   *)
(* client connects twice.                                                  *)
Steady ==
    /\ setting.first_hub = "listening" /\ "shutdown_hub" \notin setting.methods
    /\ ~setting.late /\ ~setting.again

(* In a steady session, nobody launches another hub.                       *)
AtWork == {h \in Hubs : hub[h].state \notin {"absent", "ended"}}
OneHub == Steady => Cardinality(AtWork) <= 1

(* In a steady session, no entry is left behind: an entry on a hub that    *)
(* listens belongs to a client that has its key or is about to get it.     *)
NoStrayEntry ==
    Steady => \A h \in Listening : \A i \in DOMAIN hub[h].clients :
        LET e == hub[h].clients[i]
        IN  \/ client[e.owner].key = e.private_key
            \/ client[e.owner].answer.key = e.private_key

(* connect() comes to an end, however slow the hubs are and whatever is    *)
(* lost.                                                                   *)
ConnectReturns ==
    \A c \in Clients : client[c].pc = "find" ~> client[c].pc = "idle"

(* An application alone with hubs that start and answer in time: connect() *)
(* registers it at a hub, which it launches if need be.                    *)
AloneInTime ==
    /\ Cardinality(setting.users) = 1
    /\ ~setting.late /\ ~setting.slow /\ ~setting.again

ConnectSucceeds ==
    \A c \in Clients :
        AloneInTime /\ client[c].pc = "find" ~> client[c].pc = "idle" /\ Connected(c)
=============================================================================
