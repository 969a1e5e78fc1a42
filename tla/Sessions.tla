------------------------------ MODULE Sessions ------------------------------
(***************************************************************************)
(* The life of the Snakechat clients of one Python process: from NewClient *)
(* through NewClient.connect or PairPhone, the exported Go function        *)
(* snakechat that both call and that only returns when the blocking        *)
(* function does, and the events whatsmeow raises, each of which crosses   *)
(* from the Go event handler to a Python handler on a goroutine of its     *)
(* own.                                                                    *)
(*                                                                         *)
(* A connect call is a thread; phase[c] is where that thread is:           *)
(*   idle       connect has not been called                                *)
(*   entered    ctypes arguments built, in snakechat, no device yet        *)
(*   writing    inside the assignment clients[uuid] = client               *)
(*   ready      event handler installed, about to test client.Store.ID     *)
(*   qr         ranging over the QR channel                                *)
(*   pair       connected to ask for a pairing code                        *)
(*   wait       ranging over loginStateChan                                *)
(*   blocking   in the Python blocking function                            *)
(*   returned   connect returned: the ctypes callbacks it created are freed*)
(***************************************************************************)
EXTENDS EventTable

CONSTANTS
    Clients,    \* the NewClient objects of the program
    Given,      \* for every client, the user, uuid and name it is built with
    Unset,      \* an argument left out
    HasJid,     \* clients built with the JID of a device of the database
    Pairers,    \* clients started with PairPhone, the others with connect
    Custom,     \* clients given a blocking function of their own
    Main,       \* the client whose connect runs on the main thread...
    NoClient,   \* ... or NoClient: the main thread is in ClientFactory.run
    Events,     \* occurrences of events; their number is TLC's only bound
    Kinds,      \* the kinds of whatsmeow events that occur
    Classes     \* the classes handlers are registered for

ASSUME NoClientAssumption == NoClient \notin Clients
ASSUME MainAssumption == Main \in Clients \cup {NoClient}
ASSUME KindsAssumption == Kinds \subseteq EventKinds
ASSUME ClassesAssumption == Classes \subseteq DOMAIN EventToInt

VARIABLES
    listFunc,   \* client.event.list_func: the codes that have a handler
    subs,       \* the subscribers snapshot taken when connect is called
    phase,      \* where the connect thread of each client is
    device,     \* the store.Device found or created for each client
    clients,    \* the Go map clients: uuid -> whatsmeow client
    online,     \* clients whose whatsmeow connection may raise events
    trip,       \* how far each event got on its way to a Python handler
    reached,    \* <<c, d>>: a method called on c acted on d's connection
    event,      \* events.event, the threading.Event every default blocking waits for
    sigint,     \* a SIGINT the interpreter has not handled yet
    process     \* running, exited, or why the process was aborted

vars == <<listFunc, subs, phase, device, clients, online, trip, reached,
          event, sigint, process>>
session == <<listFunc, subs, phase, device, clients, online>>
program == <<reached, event, sigint, process>>

\* Mutant of Key: the name of the database instead of the uuid.
KeyByName(c) == Given[c].name

\* NewClient.__init__: the key of a client in the Go map.
Key(c) ==
    IF Given[c].user # Unset THEN Given[c].user
    ELSE IF Given[c].uuid # Unset THEN Given[c].uuid
    ELSE Given[c].name

Keys == {Key(c) : c \in Clients}
Phases == {"idle", "entered", "writing", "ready", "qr", "pair", "wait",
           "blocking", "returned"}
Devices == {"none", "fresh", "stored", "missing"}
Aborts == {"nilClient", "nilDevice", "mapRace", "freedCallback", "loginError"}

\* The two callbacks of the QR login carry no event code.
CallbackKinds == {"qrCode", "loginStatus"}
Stages == {"unborn", "parked", "ignored", "panicked", "flying",
           "handled", "misread", "keyError", "dangling"}
Unborn == [client |-> NoClient, kind |-> "none", stage |-> "unborn"]
Trips == [client: Clients \cup {NoClient},
          kind: Kinds \cup CallbackKinds \cup {"none"},
          stage: Stages]

TypeOK ==
    /\ listFunc \in [Clients -> SUBSET Codes]
    /\ subs \in [Clients -> SUBSET Codes]
    /\ phase \in [Clients -> Phases]
    /\ device \in [Clients -> Devices]
    /\ clients \in [Keys -> Clients \cup {NoClient}]
    /\ online \in SUBSET Clients
    /\ trip \in [Events -> Trips]
    /\ reached \in SUBSET (Clients \X Clients)
    /\ event \in BOOLEAN
    /\ sigint \in BOOLEAN
    /\ process \in {"running", "exited"} \cup Aborts

Init ==
    /\ listFunc = [c \in Clients |-> {}]
    /\ subs = [c \in Clients |-> {}]
    /\ phase = [c \in Clients |-> "idle"]
    /\ device = [c \in Clients |-> "none"]
    /\ clients = [k \in Keys |-> NoClient]
    /\ online = {}
    /\ trip = [e \in Events |-> Unborn]
    /\ reached = {}
    /\ event = FALSE
    /\ sigint = FALSE
    /\ process = "running"

Running == process = "running"
Abort(why) == process' = why

-----------------------------------------------------------------------------
(* The Python side before and during a session.                            *)

\* Event.__call__ and EventsManager.__call__: one handler per class, filed
\* under the code of the class.  Nothing stops a program from doing it late.
RegisterHandler(c, class) ==
    /\ Running
    /\ listFunc' = [listFunc EXCEPT ![c] = @ \cup {EventToInt[class]}]
    /\ UNCHANGED <<subs, phase, device, clients, online, trip, program>>

\* Mutant of EnterConnect: the terminator of the byte string counts as a code.
EnterConnectTerminated(c) ==
    /\ Running
    /\ phase[c] = "idle"
    /\ phase' = [phase EXCEPT ![c] = "entered"]
    /\ subs' = [subs EXCEPT ![c] = listFunc[c] \cup {0}]
    /\ UNCHANGED <<listFunc, device, clients, online, trip, program>>

\* Mutant of EnterConnect: every code is subscribed to.
EnterConnectGreedy(c) ==
    /\ Running
    /\ phase[c] = "idle"
    /\ phase' = [phase EXCEPT ![c] = "entered"]
    /\ subs' = [subs EXCEPT ![c] = Codes]
    /\ UNCHANGED <<listFunc, device, clients, online, trip, program>>

\* connect and PairPhone: the codes registered so far become the subscribers.
EnterConnect(c) ==
    /\ Running
    /\ phase[c] = "idle"
    /\ phase' = [phase EXCEPT ![c] = "entered"]
    /\ subs' = [subs EXCEPT ![c] = listFunc[c]]
    /\ UNCHANGED <<listFunc, device, clients, online, trip, program>>

-----------------------------------------------------------------------------
(* snakechat: one action per step of the connect thread.                   *)

\* sqlstore.New, then GetDevice for a given JID (nil when the database does
\* not have it) or NewDevice, which never has a session.
OpenDevice(c) ==
    /\ Running
    /\ phase[c] = "entered"
    /\ phase' = [phase EXCEPT ![c] = "writing"]
    /\ \E d \in IF c \in HasJid THEN {"stored", "missing"} ELSE {"fresh"} :
          device' = [device EXCEPT ![c] = d]
    /\ UNCHANGED <<listFunc, subs, clients, online, trip, program>>

\* clients[uuid] = client without a lock.  A second thread in the same
\* assignment may be caught by the Go runtime, which kills the process.
StoreClient(c) ==
    /\ Running
    /\ phase[c] = "writing"
    /\ \/ /\ phase' = [phase EXCEPT ![c] = "ready"]
          /\ clients' = [clients EXCEPT ![Key(c)] = c]
          /\ UNCHANGED process
       \/ /\ \E d \in Clients \ {c} : phase[d] = "writing"
          /\ Abort("mapRace")
          /\ UNCHANGED <<phase, clients>>
    /\ UNCHANGED <<listFunc, subs, device, online, trip, reached, event, sigint>>

\* client.Connect, whose error is a panic except before PairPhone.
Login(c, next) ==
    \/ /\ phase' = [phase EXCEPT ![c] = next]
       /\ online' = online \cup {c}
       /\ UNCHANGED process
    \/ /\ Abort("loginError")
       /\ UNCHANGED <<phase, online>>

StartLogin(c) ==
    /\ Running
    /\ phase[c] = "ready"
    /\ \/ /\ device[c] = "missing"
          /\ Abort("nilDevice")
          /\ UNCHANGED <<phase, online>>
       \/ /\ device[c] = "stored"
          /\ Login(c, "blocking")
       \/ /\ device[c] = "fresh"
          /\ c \notin Pairers
          /\ Login(c, "qr")
       \/ /\ device[c] = "fresh"
          /\ c \in Pairers
          /\ phase' = [phase EXCEPT ![c] = "pair"]
          /\ online' \in {online, online \cup {c}}
          /\ UNCHANGED process
    /\ UNCHANGED <<listFunc, subs, device, clients, trip, reached, event, sigint>>

\* Mutant of RequestPairCode: does not wait for the code to be confirmed.
RequestPairCodeOnly(c) ==
    /\ Running
    /\ phase[c] = "pair"
    /\ \/ /\ c \in online
          /\ phase' = [phase EXCEPT ![c] = "blocking"]
          /\ UNCHANGED process
       \/ /\ Abort("loginError")
          /\ UNCHANGED phase
    /\ UNCHANGED <<listFunc, subs, device, clients, online, trip, reached, event, sigint>>

\* client.PairPhone, whose error is a panic; it needs the connection.
RequestPairCode(c) ==
    /\ Running
    /\ phase[c] = "pair"
    /\ \/ /\ c \in online
          /\ phase' = [phase EXCEPT ![c] = "wait"]
          /\ UNCHANGED process
       \/ /\ Abort("loginError")
          /\ UNCHANGED phase
    /\ UNCHANGED <<listFunc, subs, device, clients, online, trip, reached, event, sigint>>

\* Mutant of Routes: no look at the subscribers.
RoutesAll(c, kind) ==
    {IF o = "bytes" THEN "flying" ELSE "panicked" : o \in Encodings(kind)}

\* The stages an event can be in once its case has run for client c.
Routes(c, kind) ==
    IF Checks[kind] \notin subs[c] THEN {"ignored"}
    ELSE {IF o = "bytes" THEN "flying" ELSE "panicked" : o \in Encodings(kind)}

\* Mutant of ReceiveLogin: the loop goes on after a login.
ReceiveLoginForever(c, e) ==
    /\ Running
    /\ phase[c] = "wait"
    /\ trip[e].client = c
    /\ trip[e].stage = "parked"
    /\ \E s \in Routes(c, trip[e].kind) : trip' = [trip EXCEPT ![e].stage = s]
    /\ UNCHANGED <<session, program>>

\* for stat := range loginStateChan: takes one value from one blocked sender,
\* which then goes on to deliver its Connected event.
ReceiveLogin(c, e) ==
    /\ Running
    /\ phase[c] = "wait"
    /\ trip[e].client = c
    /\ trip[e].stage = "parked"
    /\ phase' = [phase EXCEPT ![c] = "blocking"]
    /\ \E s \in Routes(c, trip[e].kind) : trip' = [trip EXCEPT ![e].stage = s]
    /\ UNCHANGED <<listFunc, subs, device, clients, online, program>>

\* An item of the QR channel: go qrFuncCb or go logStatusCb.
QrItem(c, e, kind) ==
    /\ Running
    /\ phase[c] = "qr"
    /\ trip[e] = Unborn
    /\ trip' = [trip EXCEPT ![e] = [client |-> c, kind |-> kind, stage |-> "flying"]]
    /\ UNCHANGED <<session, program>>

\* The QR channel is closed after success, timeout or error alike.
QrClosed(c) ==
    /\ Running
    /\ phase[c] = "qr"
    /\ phase' = [phase EXCEPT ![c] = "blocking"]
    /\ UNCHANGED <<listFunc, subs, device, clients, online, trip, program>>

\* Mutant of ReturnFromConnect: the blocking function does not block.
ReturnAtOnce(c) ==
    /\ Running
    /\ phase[c] = "blocking"
    /\ phase' = [phase EXCEPT ![c] = "returned"]
    /\ UNCHANGED <<listFunc, subs, device, clients, online, trip, program>>

\* Mutant of ReturnFromConnect: event is cleared by the first thread it wakes.
ReturnAndClear(c) ==
    /\ Running
    /\ phase[c] = "blocking"
    /\ event \/ c \in Custom
    /\ phase' = [phase EXCEPT ![c] = "returned"]
    /\ event' = FALSE
    /\ UNCHANGED <<listFunc, subs, device, clients, online, trip, reached,
                   sigint, process>>

\* The blocking function returns, snakechat and connect return after it and
\* the callback objects go out of scope; whatsmeow stays connected.
ReturnFromConnect(c) ==
    /\ Running
    /\ phase[c] = "blocking"
    /\ event \/ c \in Custom
    /\ phase' = [phase EXCEPT ![c] = "returned"]
    /\ UNCHANGED <<listFunc, subs, device, clients, online, trip, program>>

-----------------------------------------------------------------------------
(* Events.                                                                 *)

\* Mutant of HandleEvent: a loginStateChan that never blocks its sender.
HandleEventUnparked(c, e, kind) ==
    /\ Running
    /\ c \in online
    /\ trip[e] = Unborn
    /\ \E s \in Routes(c, kind) :
          trip' = [trip EXCEPT ![e] = [client |-> c, kind |-> kind, stage |-> s]]
    /\ UNCHANGED <<session, program>>

\* whatsmeow runs eventHandler.  With a pairing phone, the Connected case
\* first sends on the unbuffered loginStateChan; only a wait loop receives.
HandleEvent(c, e, kind) ==
    /\ Running
    /\ c \in online
    /\ trip[e] = Unborn
    /\ \E s \in IF kind = "Connected" /\ c \in Pairers THEN {"parked"}
                ELSE Routes(c, kind) :
          trip' = [trip EXCEPT ![e] = [client |-> c, kind |-> kind, stage |-> s]]
    /\ UNCHANGED <<session, program>>

\* What Event.execute does with the code it is given.
Executed(c, kind) ==
    IF kind \in CallbackKinds THEN "handled"
    ELSE IF Sends[kind] \notin listFunc[c] THEN "keyError"
    ELSE IF Sends[kind] = EventToInt[ClassOf(kind)] THEN "handled"
    ELSE "misread"

\* Mutant of RunCallback: Python is entered only while the session blocks.
RunCallbackWhenBlocking(e) ==
    /\ Running
    /\ trip[e].stage = "flying"
    /\ LET c == trip[e].client IN
          /\ phase[c] = "blocking"
          /\ trip' = [trip EXCEPT ![e].stage = Executed(c, trip[e].kind)]
    /\ UNCHANGED <<session, program>>

\* The goroutine calls into Python.  After connect returned the callback is
\* freed memory: the call may kill the process or go nowhere.
RunCallback(e) ==
    /\ Running
    /\ trip[e].stage = "flying"
    /\ LET c == trip[e].client IN
          \/ /\ phase[c] # "returned"
             /\ trip' = [trip EXCEPT ![e].stage = Executed(c, trip[e].kind)]
             /\ UNCHANGED process
          \/ /\ phase[c] = "returned"
             /\ trip' = [trip EXCEPT ![e].stage = "dangling"]
             /\ Abort("freedCallback") \/ UNCHANGED process
    /\ UNCHANGED <<session, reached, event, sigint>>

-----------------------------------------------------------------------------
(* Methods of NewClient: clients[C.GoString(id)] and a call on the result. *)

\* The lookup of any exported operation, on the way to client d.
Lookup(c, d) ==
    \/ /\ clients[Key(c)] = d
       /\ reached' = reached \cup {<<c, d>>}
       /\ UNCHANGED process
    \/ /\ \E w \in Clients : phase[w] = "writing"
       /\ Abort("mapRace")
       /\ UNCHANGED reached

CallMethod(c) ==
    /\ Running
    /\ \/ \E d \in Clients : Lookup(c, d)
       \/ /\ clients[Key(c)] = NoClient
          /\ Abort("nilClient")
          /\ UNCHANGED reached
    /\ UNCHANGED <<session, trip, event, sigint>>

\* Mutant of Disconnect: it also takes the client out of the map.
DisconnectForget(c) ==
    /\ Running
    /\ \E d \in Clients :
          /\ Lookup(c, d)
          /\ online' = online \ {d}
    /\ clients' = [clients EXCEPT ![Key(c)] = NoClient]
    /\ UNCHANGED <<listFunc, subs, phase, device, trip, event, sigint>>

\* NewClient.disconnect.
Disconnect(c) ==
    /\ Running
    /\ \E d \in Clients :
          /\ Lookup(c, d)
          /\ online' = IF process' = "running" THEN online \ {d} ELSE online
    /\ UNCHANGED <<listFunc, subs, phase, device, clients, trip, event, sigint>>

-----------------------------------------------------------------------------
(* Shutdown: the examples set event in a SIGINT handler.                   *)

Interrupt ==
    /\ Running
    /\ sigint' = TRUE
    /\ UNCHANGED <<session, trip, reached, event, process>>

\* Mutant of MainInPython: the blocking function is not interruptible.
MainBetweenCalls ==
    \/ Main = NoClient
    \/ \E c \in Clients : c = Main /\ phase[c] \in {"idle", "returned"}

\* Python runs signal handlers on the main thread, between bytecodes: not
\* while that thread is inside snakechat and outside the blocking function.
MainInPython ==
    \/ Main = NoClient
    \/ \E c \in Clients : c = Main /\ phase[c] \in {"idle", "blocking", "returned"}

HandleInterrupt ==
    /\ Running
    /\ sigint
    /\ MainInPython
    /\ sigint' = FALSE
    /\ event' = TRUE
    /\ UNCHANGED <<session, trip, reached, process>>

\* The script ends after ClientFactory.run or after connect; the threads of
\* the other clients are daemons.
Exit ==
    /\ Running
    /\ \/ Main = NoClient /\ event
       \/ \E c \in Clients : c = Main /\ phase[c] = "returned"
    /\ process' = "exited"
    /\ UNCHANGED <<session, trip, reached, event, sigint>>

-----------------------------------------------------------------------------
Next ==
    \/ \E c \in Clients, class \in Classes : RegisterHandler(c, class)
    \/ \E c \in Clients :
          \/ EnterConnect(c)
          \/ OpenDevice(c)
          \/ StoreClient(c)
          \/ StartLogin(c)
          \/ RequestPairCode(c)
          \/ QrClosed(c)
          \/ ReturnFromConnect(c)
          \/ CallMethod(c)
          \/ Disconnect(c)
    \/ \E c \in Clients, e \in Events :
          \/ ReceiveLogin(c, e)
          \/ \E kind \in CallbackKinds : QrItem(c, e, kind)
          \/ \E kind \in Kinds : HandleEvent(c, e, kind)
    \/ \E e \in Events : RunCallback(e)
    \/ Interrupt
    \/ HandleInterrupt
    \/ Exit

Spec == Init /\ [][Next]_vars

\* Threads and goroutines are scheduled, requests are answered, and whatsmeow
\* closes a QR channel after its last code.  Nobody has to call, to interrupt
\* or to confirm a login on the phone.
ConnectStep(c) ==
    \/ OpenDevice(c) \/ StoreClient(c) \/ StartLogin(c) \/ RequestPairCode(c)
    \/ QrClosed(c) \/ ReturnFromConnect(c)

Fairness ==
    /\ \A c \in Clients : WF_vars(ConnectStep(c))
    /\ \A e \in Events : WF_vars(RunCallback(e))
    /\ \A e \in Events : WF_vars(\E c \in Clients : ReceiveLogin(c, e))
    /\ WF_vars(HandleInterrupt)
    /\ WF_vars(Exit)

FairSpec == Spec /\ Fairness
-----------------------------------------------------------------------------
(* Safety.                                                                 *)

Arrived(e) == trip[e].stage # "unborn"
Passed(e) ==
    /\ trip[e].kind = "Connected"
    /\ trip[e].client \in Pairers
    /\ trip[e].stage \notin {"unborn", "parked"}

\* Event.execute looks the code up in a dictionary that the program may change
\* at any time, for an event the Go side selected with a copy of it: it still
\* finds the handler of the event's class, whenever the case of eventHandler
\* passes on the code it checked.
HandlerFound ==
    \A e \in Events :
        trip[e].stage \in {"keyError", "misread"} =>
            Sends[trip[e].kind] # Checks[trip[e].kind]

\* The claim of Event.execute, "executes a function from the list of functions
\* based on the given code": what it is given, it hands to the event's handler.
ExecutedByItsHandler ==
    \A e \in Events : trip[e].stage \notin {"keyError", "misread"}

\* A client that had to log in with a pairing code reaches its blocking
\* function only after a Connected event: PairPhone does not return early.
LoginGate ==
    \A c \in Pairers \cap Clients :
        device[c] = "fresh" /\ phase[c] \in {"blocking", "returned"} =>
            \E e \in Events : trip[e].client = c /\ Passed(e)

\* The unbuffered loginStateChan lets one Connected event of a client through,
\* and only the one that ended its login: none of a client that had a session.
OneLogin ==
    /\ \A e \in Events :
          Passed(e) => /\ device[trip[e].client] = "fresh"
                       /\ phase[trip[e].client] \in {"blocking", "returned"}
    /\ \A e, f \in Events :
          Passed(e) /\ Passed(f) /\ trip[e].client = trip[f].client => e = f

\* A handler may call any method of the client it is given: by the time an
\* event arrives, the key of its client is in the Go map, so the lookup does
\* not return nil.
HandlerReachesClient ==
    \A e \in Events : Arrived(e) => clients[Key(trip[e].client)] # NoClient

\* Every method acts on the connection of the client it is called on.
CallsReachOwnClient == \A p \in reached : p[1] = p[2]

\* A callback is used after it was freed only once shutdown was requested, or
\* after the program's own blocking function gave up blocking.
ServesUntilShutdown ==
    /\ \A e \in Events :
          trip[e].stage = "dangling" => event \/ trip[e].client \in Custom
    /\ process = "freedCallback" => event \/ Custom # {}

\* A Connected event held up on loginStateChan is let go only by the step that
\* ends the login of its client.
UnparkedByLogin ==
    [][\A e \in Events :
          trip[e].stage = "parked" /\ trip'[e].stage # "parked" =>
              /\ phase[trip[e].client] = "wait"
              /\ phase'[trip[e].client] = "blocking"]_vars

\* What the program was promised about an event (see EventDelivery).
Promised(e) ==
    LET t == trip[e]
        state ==
            IF t.stage = "flying" THEN "pending"
            ELSE IF t.stage = "handled" THEN "delivered"
            ELSE IF t.stage = "parked" /\ Checks[t.kind] \in subs[t.client]
                 THEN "pending"
            ELSE IF t.stage \in {"unborn", "ignored", "parked"} THEN "none"
            ELSE "lost"
    IN  IF state = "none"
        THEN [client |-> NoClient, kind |-> "none", state |-> "none"]
        ELSE [client |-> t.client, kind |-> t.kind, state |-> state]

Delivery == INSTANCE EventDelivery
    WITH promise <- [e \in Events |-> Promised(e)],
         ended <- {c \in Clients : phase[c] = "returned"},
         Kinds <- Kinds \cup CallbackKinds,
         Lossy <- LossyKinds

\* Sessions keeps the promise of EventDelivery.
DeliveryPromise == Delivery!Spec

-----------------------------------------------------------------------------
(* The inductive strengthenings of the safety properties.                  *)

Unstarted == {"idle", "entered", "writing", "ready"}

\* A client is in the Go map once its thread got past the assignment; it is
\* online, and its events exist, only after that.
Located ==
    /\ \A c \in Clients :
          phase[c] \notin {"idle", "entered", "writing"} => clients[Key(c)] # NoClient
    /\ \A c \in online : phase[c] \notin Unstarted
    /\ \A e \in Events :
          Arrived(e) => /\ trip[e].client \in Clients
                        /\ trip[e].kind \in Kinds \cup CallbackKinds
                        /\ phase[trip[e].client] \notin Unstarted

\* What is subscribed has a handler, and what flies was subscribed.
Subscribed ==
    /\ \A c \in Clients : subs[c] \subseteq listFunc[c]
    /\ \A e \in Events :
          trip[e].stage = "flying" /\ trip[e].kind \notin CallbackKinds =>
              Checks[trip[e].kind] \in subs[trip[e].client]

\* The entry under a key belongs to a client with that key.
EntriesMatch ==
    \A k \in Keys : clients[k] # NoClient => Key(clients[k]) = k

\* Which clients can be in which branch of the login, and which events wait.
Branches ==
    /\ \A c \in Clients :
          /\ phase[c] \in {"pair", "wait"} => c \in Pairers /\ device[c] = "fresh"
          /\ phase[c] = "qr" => c \notin Pairers
    /\ \A e \in Events :
          trip[e].stage = "parked" =>
              trip[e].kind = "Connected" /\ trip[e].client \in Pairers

\* Why a connect call returned, and what became of callbacks after it.
Endings ==
    /\ \A c \in Clients : phase[c] = "returned" => event \/ c \in Custom
    /\ \A e \in Events :
          trip[e].stage = "dangling" =>
              trip[e].client \in Clients /\ phase[trip[e].client] = "returned"
    /\ process = "freedCallback" =>
          \E e \in Events : trip[e].stage = "dangling"

-----------------------------------------------------------------------------
(* Liveness.                                                               *)

\* A goroutine that carries an event gets to run while the process lives.
FlyingLands ==
    \A e \in Events : trip[e].stage = "flying" ~>
                          trip[e].stage # "flying" \/ ~Running

\* Ctrl+C is noticed, unless the main thread waits for a phone that never
\* confirms the pairing code.
InterruptNoticed ==
    sigint ~> event \/ ~Running \/ \E c \in Clients : c = Main /\ phase[c] = "wait"

\* Once event is set, every started session gets out of snakechat or the
\* process ends, again unless a phone never confirms.
ShutdownEndsSessions ==
    \A c \in Clients :
        event /\ phase[c] # "idle" ~> phase[c] \in {"returned", "wait"} \/ ~Running

\* The claim of Event.__call__ for Connected: a registered handler is called.
ConnectedIsDelivered ==
    \A e \in Events, c \in Clients :
        trip[e].client = c /\ trip[e].kind = "Connected"
                           /\ Checks["Connected"] \in subs[c]
            ~> trip[e].stage = "handled" \/ ~Running \/ phase[c] = "returned"
=============================================================================
