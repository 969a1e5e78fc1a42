--------------------------- MODULE SessionsProofs ---------------------------
(***************************************************************************)
(* Theorems about Sessions, for any clients, events and arguments.         *)
(***************************************************************************)
EXTENDS Sessions, TLAPS

-----------------------------------------------------------------------------
(* The two event tables.                                                   *)

\* Every handler is filed under one of the codes 1 .. 43 that a byte of the
\* subscriber array can hold.
LEMMA HandlerCodes == \A class \in DOMAIN EventToInt : EventToInt[class] \in Codes
  BY DEF EventToInt, Codes

\* Each case of eventHandler checks the code EVENT_TO_INT gives the class of
\* the message it builds.
LEMMA TablesAgree ==
    \A kind \in EventKinds : Checks[kind] = EventToInt[ClassOf(kind)]
<1>1. \A kind \in DOMAIN ConnectionCases :
        ConnectionCases[kind] = EventToInt[ClassOf(kind)]
  BY DEF ConnectionCases, EventToInt, ClassOf
<1>2. \A kind \in DOMAIN ChatCases : ChatCases[kind] = EventToInt[ClassOf(kind)]
  BY DEF ChatCases, EventToInt, ClassOf
<1>3. \A kind \in DOMAIN NewsletterAndCallCases :
        NewsletterAndCallCases[kind] = EventToInt[ClassOf(kind)]
  BY DEF NewsletterAndCallCases, EventToInt, ClassOf
<1>4. QED
  BY <1>1, <1>2, <1>3 DEF Checks, EventKinds

\* Running a case leaves an event ignored, lost or on its way, and it is on its
\* way only to a client that subscribed to its code.
LEMMA RouteStages ==
    ASSUME NEW c, NEW kind, NEW s \in Routes(c, kind)
    PROVE  /\ s \in {"ignored", "panicked", "flying"}
           /\ s # "ignored" => Checks[kind] \in subs[c]
  BY DEF Routes

\* Event.execute ends in one of three ways.
LEMMA ExecutedStages ==
    ASSUME NEW c, NEW kind
    PROVE  Executed(c, kind) \in {"handled", "misread", "keyError"}
  BY DEF Executed

-----------------------------------------------------------------------------
(* Type correctness.                                                       *)

\* The initial state is well typed.
LEMMA TypeInit == Init => TypeOK
<1> SUFFICES ASSUME Init PROVE TypeOK
  OBVIOUS
<1>1. trip \in [Events -> Trips]
  BY DEF Init, Trips, Unborn, Stages
<1>2. QED
  BY <1>1 DEF Init, TypeOK, Phases, Devices

\* The type invariant survives every step of a client's Python side, connect
\* thread, event goroutines and shutdown.
LEMMA TypeStep == TypeOK /\ [Next]_vars => TypeOK'
<1> SUFFICES ASSUME TypeOK, [Next]_vars PROVE TypeOK'
  OBVIOUS
<1> USE DEF TypeOK
<1>1. ASSUME NEW c \in Clients, NEW class \in Classes, RegisterHandler(c, class)
      PROVE  TypeOK'
  <2>1. EventToInt[class] \in Codes
    BY HandlerCodes, ClassesAssumption
  <2>2. QED
    BY <1>1, <2>1 DEF RegisterHandler, program
<1>2. ASSUME NEW c \in Clients, EnterConnect(c) PROVE TypeOK'
  BY <1>2 DEF EnterConnect, program, Phases
<1>3. ASSUME NEW c \in Clients, OpenDevice(c) PROVE TypeOK'
  BY <1>3 DEF OpenDevice, program, Phases, Devices
<1>4. ASSUME NEW c \in Clients, StoreClient(c) PROVE TypeOK'
  BY <1>4 DEF StoreClient, Abort, Aborts, Phases, Keys
<1>5. ASSUME NEW c \in Clients, StartLogin(c) PROVE TypeOK'
  BY <1>5 DEF StartLogin, Login, Abort, Aborts, Phases
<1>6. ASSUME NEW c \in Clients, RequestPairCode(c) PROVE TypeOK'
  BY <1>6 DEF RequestPairCode, Abort, Aborts, Phases
<1>7. ASSUME NEW c \in Clients, QrClosed(c) PROVE TypeOK'
  BY <1>7 DEF QrClosed, program, Phases
<1>8. ASSUME NEW c \in Clients, ReturnFromConnect(c) PROVE TypeOK'
  BY <1>8 DEF ReturnFromConnect, program, Phases
<1>9. ASSUME NEW c \in Clients, CallMethod(c) PROVE TypeOK'
  BY <1>9 DEF CallMethod, Lookup, session, Abort, Aborts
<1>10. ASSUME NEW c \in Clients, Disconnect(c) PROVE TypeOK'
  BY <1>10 DEF Disconnect, Lookup, Abort, Aborts
<1>11. ASSUME NEW c \in Clients, NEW e \in Events, ReceiveLogin(c, e) PROVE TypeOK'
  <2>1. PICK s \in Routes(c, trip[e].kind) : trip' = [trip EXCEPT ![e].stage = s]
    BY <1>11 DEF ReceiveLogin
  <2>2. s \in Stages
    BY RouteStages DEF Stages
  <2>3. trip' \in [Events -> Trips]
    BY <2>1, <2>2 DEF Trips
  <2>4. QED
    BY <1>11, <2>3 DEF ReceiveLogin, program, Phases
<1>12. ASSUME NEW c \in Clients, NEW e \in Events, NEW kind \in CallbackKinds,
              QrItem(c, e, kind)
       PROVE  TypeOK'
  <2>1. [client |-> c, kind |-> kind, stage |-> "flying"] \in Trips
    BY DEF Trips, Stages
  <2>2. QED
    BY <1>12, <2>1 DEF QrItem, session, program
<1>13. ASSUME NEW c \in Clients, NEW e \in Events, NEW kind \in Kinds,
              HandleEvent(c, e, kind)
       PROVE  TypeOK'
  <2>1. PICK s : /\ s \in Routes(c, kind) \cup {"parked"}
                 /\ trip' = [trip EXCEPT ![e] =
                                [client |-> c, kind |-> kind, stage |-> s]]
    BY <1>13 DEF HandleEvent
  <2>2. [client |-> c, kind |-> kind, stage |-> s] \in Trips
    BY <2>1, RouteStages DEF Trips, Stages
  <2>3. QED
    BY <1>13, <2>1, <2>2 DEF HandleEvent, session, program
<1>14. ASSUME NEW e \in Events, RunCallback(e) PROVE TypeOK'
  <2>1. PICK s \in Stages : trip' = [trip EXCEPT ![e].stage = s]
    BY <1>14, ExecutedStages DEF RunCallback, Stages
  <2>2. trip' \in [Events -> Trips]
    BY <2>1 DEF Trips
  <2>3. process' \in {process, "freedCallback"}
    BY <1>14 DEF RunCallback, Abort
  <2>4. QED
    BY <1>14, <2>2, <2>3 DEF RunCallback, session, Aborts
<1>15. CASE Interrupt
  BY <1>15 DEF Interrupt, session
<1>16. CASE HandleInterrupt
  BY <1>16 DEF HandleInterrupt, session
<1>17. CASE Exit
  BY <1>17 DEF Exit, session
<1>18. CASE UNCHANGED vars
  BY <1>18 DEF vars
<1>19. QED
  BY <1>1, <1>2, <1>3, <1>4, <1>5, <1>6, <1>7, <1>8, <1>9, <1>10, <1>11, <1>12,
     <1>13, <1>14, <1>15, <1>16, <1>17, <1>18 DEF Next

\* Every reachable state is well typed: codes stay in the range of a byte, a
\* connect thread is in one of its phases, an event in one of its stages.
THEOREM TypeCorrect == Spec => []TypeOK
  BY TypeInit, TypeStep, PTL DEF Spec

-----------------------------------------------------------------------------
(* Handlers and the clients they are given.                                *)

\* Located holds before anything is started.
LEMMA LocatedInit == Init => Located
  BY DEF Init, Located, Arrived, Unborn

\* The actions that start no event only move threads forward and add to the
\* map; those that start one need its client to be online, or in the QR loop.
LEMMA LocatedStep == TypeOK /\ Located /\ [Next]_vars => Located'
<1> SUFFICES ASSUME TypeOK, Located, [Next]_vars PROVE Located'
  OBVIOUS
<1> USE DEF Located, Arrived, Unstarted
<1>1. ASSUME NEW c \in Clients, NEW class \in Classes, RegisterHandler(c, class)
      PROVE  Located'
  BY <1>1 DEF RegisterHandler
<1>2. ASSUME NEW c \in Clients, EnterConnect(c) PROVE Located'
  BY <1>2 DEF EnterConnect, TypeOK
<1>3. ASSUME NEW c \in Clients, OpenDevice(c) PROVE Located'
  BY <1>3 DEF OpenDevice, TypeOK
<1>4. ASSUME NEW c \in Clients, StoreClient(c) PROVE Located'
  <2>1. CASE UNCHANGED <<phase, clients>>
    BY <1>4, <2>1 DEF StoreClient
  <2>2. CASE phase' = [phase EXCEPT ![c] = "ready"] /\ clients' = [clients EXCEPT ![Key(c)] = c]
    <3>1. \A d \in Clients : Key(d) \in Keys /\ Key(d)' = Key(d)
      BY DEF Keys, Key
    <3>2. \A d \in Clients :
            phase'[d] \notin {"idle", "entered", "writing"} => clients'[Key(d)] # NoClient
      BY <1>4, <2>2, <3>1, NoClientAssumption DEF StoreClient, TypeOK
    <3>3. \A d \in Clients : phase'[d] \notin Unstarted <=> phase[d] \notin Unstarted
      BY <1>4, <2>2 DEF StoreClient, TypeOK
    <3>4. online' = online /\ trip' = trip
      BY <1>4 DEF StoreClient
    <3>5. QED
      BY <3>1, <3>2, <3>3, <3>4 DEF TypeOK
  <2>3. QED
    BY <1>4, <2>1, <2>2 DEF StoreClient
<1>5. ASSUME NEW c \in Clients, StartLogin(c) PROVE Located'
  BY <1>5 DEF StartLogin, Login, TypeOK
<1>6. ASSUME NEW c \in Clients, RequestPairCode(c) PROVE Located'
  BY <1>6 DEF RequestPairCode, TypeOK
<1>7. ASSUME NEW c \in Clients, QrClosed(c) PROVE Located'
  BY <1>7 DEF QrClosed, TypeOK
<1>8. ASSUME NEW c \in Clients, ReturnFromConnect(c) PROVE Located'
  BY <1>8 DEF ReturnFromConnect, TypeOK
<1>9. ASSUME NEW c \in Clients, CallMethod(c) PROVE Located'
  BY <1>9 DEF CallMethod, session
<1>10. ASSUME NEW c \in Clients, Disconnect(c) PROVE Located'
  BY <1>10 DEF Disconnect
<1>11. ASSUME NEW c \in Clients, NEW e \in Events, ReceiveLogin(c, e) PROVE Located'
  <2>1. \A f \in Events : /\ trip'[f].client = trip[f].client
                          /\ trip'[f].kind = trip[f].kind
                          /\ f # e => trip'[f] = trip[f]
    BY <1>11 DEF ReceiveLogin, TypeOK, Trips
  <2>2. Arrived(e) /\ \A d \in Clients : phase[d] \notin Unstarted => phase'[d] \notin Unstarted
    BY <1>11 DEF ReceiveLogin, TypeOK
  <2>3. QED
    BY <1>11, <2>1, <2>2 DEF ReceiveLogin, TypeOK
<1>12. ASSUME NEW c \in Clients, NEW e \in Events, NEW kind \in CallbackKinds,
              QrItem(c, e, kind)
       PROVE  Located'
  BY <1>12 DEF QrItem, session, TypeOK
<1>13. ASSUME NEW c \in Clients, NEW e \in Events, NEW kind \in Kinds,
              HandleEvent(c, e, kind)
       PROVE  Located'
  BY <1>13 DEF HandleEvent, session, TypeOK
<1>14. ASSUME NEW e \in Events, RunCallback(e) PROVE Located'
  <2>1. \A f \in Events : /\ trip'[f].client = trip[f].client
                          /\ trip'[f].kind = trip[f].kind
                          /\ f # e => trip'[f] = trip[f]
    BY <1>14 DEF RunCallback, TypeOK, Trips
  <2>2. Arrived(e) /\ UNCHANGED session
    BY <1>14 DEF RunCallback
  <2>3. QED
    BY <2>1, <2>2 DEF session
<1>15. CASE Interrupt
  BY <1>15 DEF Interrupt, session
<1>16. CASE HandleInterrupt
  BY <1>16 DEF HandleInterrupt, session
<1>17. CASE Exit
  BY <1>17 DEF Exit, session
<1>18. CASE UNCHANGED vars
  BY <1>18 DEF vars
<1>19. QED
  BY <1>1, <1>2, <1>3, <1>4, <1>5, <1>6, <1>7, <1>8, <1>9, <1>10, <1>11, <1>12,
     <1>13, <1>14, <1>15, <1>16, <1>17, <1>18 DEF Next

\* So Located always holds.
LEMMA LocatedAlways == Spec => []Located
  BY TypeCorrect, LocatedInit, LocatedStep, PTL DEF Spec

\* A handler can call the methods of its client: whatever the uuids and the
\* interleaving of the connect threads, the lookup of the client's key does not
\* return nil once one of its events has arrived.
THEOREM HandlersReachClients == Spec => []HandlerReachesClient
<1>1. Located => HandlerReachesClient
  BY DEF Located, HandlerReachesClient, Arrived, Unstarted
<1>2. QED
  BY <1>1, LocatedAlways, PTL

-----------------------------------------------------------------------------
(* Events and the handlers they were subscribed for.                       *)

\* The steps that neither register a handler, nor subscribe, nor move an event.
LEMMA QuietSteps ==
    ASSUME [Next]_vars,
           \A c \in Clients, class \in Classes : ~RegisterHandler(c, class),
           \A c \in Clients : ~EnterConnect(c),
           \A c \in Clients, e \in Events : ~ReceiveLogin(c, e),
           \A c \in Clients, e \in Events, kind \in CallbackKinds : ~QrItem(c, e, kind),
           \A c \in Clients, e \in Events, kind \in Kinds : ~HandleEvent(c, e, kind),
           \A e \in Events : ~RunCallback(e)
    PROVE  UNCHANGED <<listFunc, subs, trip>>
  BY DEF Next, OpenDevice, StoreClient, StartLogin, RequestPairCode, QrClosed,
         ReturnFromConnect, CallMethod, Disconnect, Interrupt, HandleInterrupt,
         Exit, session, program, vars

\* The handler of a subscribed code is found, whatever else was registered
\* meanwhile, and it is the handler of the event's class.
LEMMA ExecutedFinds ==
    ASSUME NEW c, NEW kind \in Kinds \cup CallbackKinds,
           kind \notin CallbackKinds => Checks[kind] \in listFunc[c],
           Executed(c, kind) # "handled"
    PROVE  kind \notin CallbackKinds /\ Sends[kind] # Checks[kind]
  BY TablesAgree, KindsAssumption DEF Executed

\* Nothing is subscribed, and no event is on its way, at first.
LEMMA SubscribedInit == Init => Subscribed /\ HandlerFound
  BY DEF Init, Subscribed, HandlerFound, Unborn

\* Handlers are only added, and subscriptions only copied from them.
LEMMA SubscribedStep ==
    TypeOK /\ Located /\ Subscribed /\ HandlerFound /\ [Next]_vars
        => Subscribed' /\ HandlerFound'
<1> SUFFICES ASSUME TypeOK, Located, Subscribed, HandlerFound, [Next]_vars
             PROVE  Subscribed' /\ HandlerFound'
  OBVIOUS
<1> USE DEF Subscribed, HandlerFound
<1>1. ASSUME NEW c \in Clients, NEW class \in Classes, RegisterHandler(c, class)
      PROVE  Subscribed' /\ HandlerFound'
  BY <1>1 DEF RegisterHandler, TypeOK
<1>2. ASSUME NEW c \in Clients, EnterConnect(c) PROVE Subscribed' /\ HandlerFound'
  <2>1. \A e \in Events : trip[e].stage = "flying" => trip[e].client # c
    BY <1>2 DEF EnterConnect, Located, Arrived, Unstarted
  <2>2. QED
    BY <1>2, <2>1 DEF EnterConnect, TypeOK
<1>3. ASSUME NEW c \in Clients, NEW e \in Events, ReceiveLogin(c, e)
      PROVE  Subscribed' /\ HandlerFound'
  <2>1. PICK s \in Routes(c, trip[e].kind) : trip' = [trip EXCEPT ![e].stage = s]
    BY <1>3 DEF ReceiveLogin
  <2>2. /\ trip[e].client = c
        /\ UNCHANGED <<listFunc, subs>>
    BY <1>3 DEF ReceiveLogin
  <2>3. /\ s \in {"ignored", "panicked", "flying"}
        /\ s # "ignored" => Checks[trip[e].kind] \in subs[c]
    BY RouteStages
  <2>4. QED
    BY <2>1, <2>2, <2>3 DEF TypeOK, Trips
<1>4. ASSUME NEW c \in Clients, NEW e \in Events, NEW kind \in CallbackKinds,
             QrItem(c, e, kind)
      PROVE  Subscribed' /\ HandlerFound'
  BY <1>4 DEF QrItem, session, TypeOK
<1>5. ASSUME NEW c \in Clients, NEW e \in Events, NEW kind \in Kinds,
             HandleEvent(c, e, kind)
      PROVE  Subscribed' /\ HandlerFound'
  <2>1. PICK s : /\ s \in Routes(c, kind) \cup {"parked"}
                 /\ trip' = [trip EXCEPT ![e] =
                                [client |-> c, kind |-> kind, stage |-> s]]
    BY <1>5 DEF HandleEvent
  <2>2. /\ s \in {"ignored", "panicked", "flying", "parked"}
        /\ s = "flying" => Checks[kind] \in subs[c]
    BY <2>1, RouteStages
  <2>3. UNCHANGED <<listFunc, subs>>
    BY <1>5 DEF HandleEvent, session
  <2>4. QED
    BY <2>1, <2>2, <2>3 DEF TypeOK
<1>6. ASSUME NEW e \in Events, RunCallback(e) PROVE Subscribed' /\ HandlerFound'
  <2> DEFINE c == trip[e].client
             kind == trip[e].kind
  <2>1. PICK s : /\ s = Executed(c, kind) \/ s = "dangling"
                 /\ trip' = [trip EXCEPT ![e].stage = s]
    BY <1>6 DEF RunCallback
  <2>2. /\ UNCHANGED <<listFunc, subs>>
        /\ trip[e].stage = "flying"
    BY <1>6 DEF RunCallback, session
  <2>3. /\ c \in Clients
        /\ kind \in Kinds \cup CallbackKinds
        /\ kind \notin CallbackKinds => Checks[kind] \in listFunc[c]
    BY <2>2 DEF Located, Arrived
  <2>4. s \in {"misread", "keyError"} => Sends[kind] # Checks[kind]
    BY <2>1, <2>3, ExecutedFinds
  <2>5. s # "flying"
    BY <2>1, ExecutedStages
  <2>6. /\ \A f \in Events \ {e} : trip'[f] = trip[f]
        /\ trip'[e].stage = s /\ trip'[e].kind = kind /\ trip'[e].client = c
    BY <2>1 DEF TypeOK, Trips
  <2>7. QED
    BY <2>2, <2>4, <2>5, <2>6
<1>7. CASE UNCHANGED <<listFunc, subs, trip>>
  BY <1>7
<1>8. QED
  BY <1>1, <1>2, <1>3, <1>4, <1>5, <1>6, <1>7, QuietSteps

\* So they always hold.
LEMMA SubscribedAlways == Spec => [](Subscribed /\ HandlerFound)
  BY TypeCorrect, LocatedAlways, SubscribedInit, SubscribedStep, PTL DEF Spec

\* The subscriber snapshot never outlives its handlers: Event.execute raises
\* no KeyError, and decodes no event as another class, for a case that passes
\* on the code it checked.
THEOREM HandlersFound == Spec => []HandlerFound
  BY SubscribedAlways, PTL

-----------------------------------------------------------------------------
(* Methods and the connection they act on.                                 *)

\* The inductive part: an entry is written under its client's own key, and a
\* method reaches a client with the key of the one it was called on.
SameKeys == \A p \in reached : Key(p[1]) = Key(p[2])

\* The map is empty at first.
LEMMA EntriesInit == Init => EntriesMatch /\ SameKeys
  BY DEF Init, EntriesMatch, SameKeys

\* What a lookup finds has the key it was looked up with.
LEMMA LookupReaches ==
    ASSUME TypeOK, EntriesMatch, SameKeys, NEW c \in Clients, NEW d \in Clients,
           Lookup(c, d)
    PROVE  SameKeys'
<1>1. \A e \in Clients : Key(e)' = Key(e) /\ Key(e) \in Keys
  BY DEF Key, Keys
<1>2. \A p \in reached : p[1] \in Clients /\ p[2] \in Clients
  BY DEF TypeOK
<1>3. CASE reached' = reached
  BY <1>1, <1>2, <1>3 DEF SameKeys
<1>4. CASE clients[Key(c)] = d /\ reached' = reached \cup {<<c, d>>}
  <2>1. Key(d) = Key(c)
    BY <1>1, <1>4, NoClientAssumption DEF EntriesMatch
  <2>2. QED
    BY <1>1, <1>2, <1>4, <2>1 DEF SameKeys
<1>5. QED
  BY <1>3, <1>4 DEF Lookup

\* A client is only stored under its own key.
LEMMA EntriesStep ==
    TypeOK /\ EntriesMatch /\ SameKeys /\ [Next]_vars => EntriesMatch' /\ SameKeys'
<1> SUFFICES ASSUME TypeOK, EntriesMatch, SameKeys, [Next]_vars
             PROVE  EntriesMatch' /\ SameKeys'
  OBVIOUS
<1>0. \A c \in Clients : Key(c)' = Key(c) /\ Key(c) \in Keys
  BY DEF Key, Keys
<1>1. ASSUME NEW c \in Clients, StoreClient(c) PROVE EntriesMatch' /\ SameKeys'
  <2>1. UNCHANGED reached /\ (UNCHANGED clients \/ clients' = [clients EXCEPT ![Key(c)] = c])
    BY <1>1 DEF StoreClient
  <2>2. SameKeys'
    BY <1>0, <2>1 DEF SameKeys, TypeOK
  <2>3. \A k \in Keys : clients'[k] # NoClient => Key(clients'[k]) = k
    BY <1>0, <2>1 DEF EntriesMatch, TypeOK
  <2>4. \A k \in Keys : clients'[k] # NoClient => clients'[k] \in Clients
    BY <2>1 DEF TypeOK
  <2>5. QED
    BY <1>0, <2>2, <2>3, <2>4 DEF EntriesMatch, Key
<1>2. ASSUME NEW c \in Clients, CallMethod(c) PROVE EntriesMatch' /\ SameKeys'
  <2>1. UNCHANGED clients
    BY <1>2 DEF CallMethod, session
  <2>2. UNCHANGED reached \/ \E d \in Clients : Lookup(c, d)
    BY <1>2 DEF CallMethod
  <2>3. SameKeys'
    BY <1>0, <2>2, LookupReaches DEF SameKeys, Key
  <2>4. QED
    BY <2>1, <2>3 DEF EntriesMatch, Key
<1>3. ASSUME NEW c \in Clients, Disconnect(c) PROVE EntriesMatch' /\ SameKeys'
  <2>1. UNCHANGED clients /\ \E d \in Clients : Lookup(c, d)
    BY <1>3 DEF Disconnect
  <2>2. QED
    BY <2>1, LookupReaches DEF EntriesMatch, Key
<1>4. CASE UNCHANGED <<clients, reached>>
  BY <1>4 DEF EntriesMatch, SameKeys, Key
<1>5. \/ \E c \in Clients : StoreClient(c) \/ CallMethod(c) \/ Disconnect(c)
      \/ UNCHANGED <<clients, reached>>
  BY DEF Next, RegisterHandler, EnterConnect, OpenDevice, StartLogin,
         RequestPairCode, QrClosed, ReturnFromConnect, ReceiveLogin, QrItem,
         HandleEvent, RunCallback, Interrupt, HandleInterrupt, Exit, session,
         program, vars
<1>6. QED
  BY <1>1, <1>2, <1>3, <1>4, <1>5

\* With a key of its own for every client, a method called on a client never
\* acts on the connection of another, however connect calls and method calls
\* interleave.  The keys NewClient.__init__ computes are distinct only if the
\* program sees to it (see the run sameuser).
THEOREM MethodsReachTheirClient ==
    ASSUME \A c, d \in Clients : Key(c) = Key(d) => c = d
    PROVE  Spec => []CallsReachOwnClient
<1>1. Spec => []SameKeys
  BY TypeCorrect, EntriesInit, EntriesStep, PTL DEF Spec
<1>2. TypeOK /\ SameKeys => CallsReachOwnClient
  BY DEF TypeOK, SameKeys, CallsReachOwnClient
<1>3. QED
  BY <1>1, <1>2, TypeCorrect, PTL

-----------------------------------------------------------------------------
(* Logins.                                                                 *)

LoginInv == Branches /\ OneLogin /\ LoginGate

\* No login has ended at first.
LEMMA LoginInit == Init => LoginInv
  BY DEF Init, LoginInv, Branches, OneLogin, LoginGate, Passed, Unborn

\* Steps that move neither an event nor the login of a client.
LEMMA LoginUnmoved ==
    ASSUME LoginInv, UNCHANGED <<phase, device, trip>>
    PROVE  LoginInv'
  BY DEF LoginInv, Branches, OneLogin, LoginGate, Passed

\* Moving a thread that has not left its login, or that returns from blocking:
\* no event of the client has passed before, and none passes in the step.
LEMMA LoginMove ==
    ASSUME TypeOK, Located, LoginInv, NEW c \in Clients, UNCHANGED trip,
           \A d \in Clients \ {c} : phase'[d] = phase[d] /\ device'[d] = device[d],
           \/ /\ phase[c] \notin {"blocking", "returned"}
              /\ phase'[c] \in {"pair", "wait"} => c \in Pairers /\ device'[c] = "fresh"
              /\ phase'[c] = "qr" => c \notin Pairers
              /\ phase'[c] \in {"blocking", "returned"} =>
                    c \notin Pairers \/ device'[c] # "fresh"
           \/ /\ phase[c] \in {"blocking", "returned"}
              /\ phase'[c] \in {"blocking", "returned"}
              /\ device'[c] = device[c]
    PROVE  LoginInv'
<1>1. \A e \in Events : Passed(e)' <=> Passed(e)
  BY DEF Passed
<1>2. \A e \in Events : Passed(e) => trip[e].client \in Clients
  BY DEF Passed, Located, Arrived
<1>3. Branches'
  BY DEF LoginInv, Branches
<1>4. OneLogin'
  BY <1>1, <1>2 DEF LoginInv, OneLogin
<1>5. LoginGate'
  BY <1>1 DEF LoginInv, LoginGate
<1>6. QED
  BY <1>3, <1>4, <1>5 DEF LoginInv

\* Every step keeps the three facts about logins.
LEMMA LoginStep == TypeOK /\ Located /\ LoginInv /\ [Next]_vars => LoginInv'
<1> SUFFICES ASSUME TypeOK, Located, LoginInv, [Next]_vars PROVE LoginInv'
  OBVIOUS
<1>1. ASSUME NEW c \in Clients, EnterConnect(c) PROVE LoginInv'
  BY <1>1, LoginMove DEF EnterConnect, TypeOK
<1>2. ASSUME NEW c \in Clients, OpenDevice(c) PROVE LoginInv'
  BY <1>2, LoginMove DEF OpenDevice, TypeOK
<1>3. ASSUME NEW c \in Clients, StoreClient(c) PROVE LoginInv'
  BY <1>3, LoginMove, LoginUnmoved DEF StoreClient, TypeOK
<1>4. ASSUME NEW c \in Clients, StartLogin(c) PROVE LoginInv'
  BY <1>4, LoginMove, LoginUnmoved DEF StartLogin, Login, TypeOK
<1>5. ASSUME NEW c \in Clients, RequestPairCode(c) PROVE LoginInv'
  <2>1. c \in Pairers /\ device[c] = "fresh"
    BY <1>5 DEF RequestPairCode, LoginInv, Branches
  <2>2. QED
    BY <1>5, <2>1, LoginMove, LoginUnmoved DEF RequestPairCode, TypeOK
<1>6. ASSUME NEW c \in Clients, QrClosed(c) PROVE LoginInv'
  <2>1. c \notin Pairers
    BY <1>6 DEF QrClosed, LoginInv, Branches
  <2>2. QED
    BY <1>6, <2>1, LoginMove DEF QrClosed, TypeOK
<1>7. ASSUME NEW c \in Clients, ReturnFromConnect(c) PROVE LoginInv'
  BY <1>7, LoginMove DEF ReturnFromConnect, TypeOK
<1>8. ASSUME NEW c \in Clients, NEW e \in Events, ReceiveLogin(c, e) PROVE LoginInv'
  <2>1. PICK s \in Routes(c, trip[e].kind) : trip' = [trip EXCEPT ![e].stage = s]
    BY <1>8 DEF ReceiveLogin
  <2>2. s \notin {"unborn", "parked"}
    BY RouteStages
  <2>3. /\ phase[c] = "wait" /\ c \in Pairers /\ device[c] = "fresh"
        /\ trip[e].client = c /\ trip[e].kind = "Connected"
        /\ trip[e].stage = "parked"
    BY <1>8 DEF ReceiveLogin, LoginInv, Branches
  <2>4. /\ phase' = [phase EXCEPT ![c] = "blocking"]
        /\ UNCHANGED device
    BY <1>8 DEF ReceiveLogin
  <2>5. /\ \A f \in Events \ {e} : trip'[f] = trip[f]
        /\ trip'[e].stage = s /\ trip'[e].kind = "Connected" /\ trip'[e].client = c
    BY <2>1, <2>3 DEF TypeOK, Trips
  <2>6. /\ \A f \in Events \ {e} : Passed(f)' <=> Passed(f)
        /\ Passed(e)'
    BY <2>2, <2>3, <2>5 DEF Passed
  <2>7. \A f \in Events : Passed(f) => trip[f].client \in Clients \ {c}
    BY <2>3 DEF LoginInv, OneLogin, Passed, Located, Arrived
  <2>8. Branches'
    BY <2>2, <2>3, <2>4, <2>5 DEF LoginInv, Branches, TypeOK
  <2>9. OneLogin'
    BY <2>3, <2>4, <2>5, <2>6, <2>7 DEF LoginInv, OneLogin, TypeOK
  <2>10. LoginGate'
    BY <2>3, <2>4, <2>5, <2>6 DEF LoginInv, LoginGate, TypeOK
  <2>11. QED
    BY <2>8, <2>9, <2>10 DEF LoginInv
<1>9. ASSUME NEW e \in Events, UNCHANGED <<phase, device>>,
             trip[e] = Unborn, NEW c \in Clients, NEW kind, NEW s,
             kind = "Connected" /\ c \in Pairers <=> s = "parked",
             trip' = [trip EXCEPT ![e] = [client |-> c, kind |-> kind, stage |-> s]]
      PROVE  LoginInv'
  <2>1. /\ \A f \in Events \ {e} : trip'[f] = trip[f]
        /\ trip'[e] = [client |-> c, kind |-> kind, stage |-> s]
    BY <1>9 DEF TypeOK
  <2>2. /\ \A f \in Events \ {e} : Passed(f)' <=> Passed(f)
        /\ ~Passed(e)' /\ ~Passed(e)
    BY <1>9, <2>1 DEF Passed, Unborn
  <2>3. Branches'
    BY <1>9, <2>1 DEF LoginInv, Branches
  <2>4. OneLogin' /\ LoginGate'
    BY <1>9, <2>1, <2>2 DEF LoginInv, OneLogin, LoginGate
  <2>5. QED
    BY <2>3, <2>4 DEF LoginInv
<1>10. ASSUME NEW c \in Clients, NEW e \in Events, NEW kind \in CallbackKinds,
              QrItem(c, e, kind)
       PROVE  LoginInv'
  <2>1. kind # "Connected"
    BY DEF CallbackKinds
  <2>2. kind = "Connected" /\ c \in Pairers <=> "flying" = "parked"
    BY <2>1
  <2>3. /\ UNCHANGED <<phase, device>>
        /\ trip[e] = Unborn
        /\ trip' = [trip EXCEPT ![e] =
                       [client |-> c, kind |-> kind, stage |-> "flying"]]
    BY <1>10 DEF QrItem, session
  <2>4. QED
    BY <1>9, <2>2, <2>3
<1>11. ASSUME NEW c \in Clients, NEW e \in Events, NEW kind \in Kinds,
              HandleEvent(c, e, kind)
       PROVE  LoginInv'
  <2>1. PICK s : /\ s \in IF kind = "Connected" /\ c \in Pairers THEN {"parked"}
                         ELSE Routes(c, kind)
                 /\ trip' = [trip EXCEPT ![e] =
                                [client |-> c, kind |-> kind, stage |-> s]]
    BY <1>11 DEF HandleEvent
  <2>2. kind = "Connected" /\ c \in Pairers <=> s = "parked"
    BY <2>1, RouteStages
  <2>3. QED
    BY <1>9, <1>11, <2>1, <2>2 DEF HandleEvent, session
<1>12. ASSUME NEW e \in Events, RunCallback(e) PROVE LoginInv'
  <2>1. PICK s : /\ s \in {"handled", "misread", "keyError", "dangling"}
                 /\ trip' = [trip EXCEPT ![e].stage = s]
    BY <1>12, ExecutedStages DEF RunCallback
  <2>2. UNCHANGED <<phase, device>> /\ trip[e].stage = "flying"
    BY <1>12 DEF RunCallback, session
  <2>3. /\ \A f \in Events \ {e} : trip'[f] = trip[f]
        /\ trip'[e].stage = s
        /\ trip'[e].kind = trip[e].kind /\ trip'[e].client = trip[e].client
    BY <2>1 DEF TypeOK, Trips
  <2>4. \A f \in Events : Passed(f)' <=> Passed(f)
    BY <2>1, <2>2, <2>3 DEF Passed
  <2>5. \A f \in Events : trip'[f].client = trip[f].client
    BY <2>3
  <2>6. Branches'
    BY <2>1, <2>2, <2>3 DEF LoginInv, Branches
  <2>7. OneLogin' /\ LoginGate'
    BY <2>2, <2>4, <2>5 DEF LoginInv, OneLogin, LoginGate
  <2>8. QED
    BY <2>6, <2>7 DEF LoginInv
<1>13. CASE UNCHANGED <<phase, device, trip>>
  BY <1>13, LoginUnmoved
<1>14. \/ \E c \in Clients :
              \/ EnterConnect(c) \/ OpenDevice(c) \/ StoreClient(c) \/ StartLogin(c)
              \/ RequestPairCode(c) \/ QrClosed(c) \/ ReturnFromConnect(c)
              \/ \E e \in Events :
                    \/ ReceiveLogin(c, e)
                    \/ \E kind \in CallbackKinds : QrItem(c, e, kind)
                    \/ \E kind \in Kinds : HandleEvent(c, e, kind)
       \/ \E e \in Events : RunCallback(e)
       \/ UNCHANGED <<phase, device, trip>>
  BY DEF Next, RegisterHandler, CallMethod, Disconnect, Interrupt,
         HandleInterrupt, Exit, session, program, vars
<1>15. QED
  BY <1>1, <1>2, <1>3, <1>4, <1>5, <1>6, <1>7, <1>8, <1>10, <1>11, <1>12, <1>13, <1>14

\* So they always hold.
LEMMA LoginAlways == Spec => []LoginInv
  BY TypeCorrect, LocatedAlways, LoginInit, LoginStep, PTL DEF Spec

\* PairPhone never reaches the blocking function without a Connected event of
\* its own client, whatever events other clients have in between.
THEOREM LoginGated == Spec => []LoginGate
<1>1. LoginInv => LoginGate
  BY DEF LoginInv
<1>2. QED
  BY <1>1, LoginAlways, PTL

\* loginStateChan lets at most one Connected event of a client through, and
\* only by ending the login: every other one is held up for good.
THEOREM OneLoginOnly == Spec => []OneLogin
<1>1. LoginInv => OneLogin
  BY DEF LoginInv
<1>2. QED
  BY <1>1, LoginAlways, PTL

-----------------------------------------------------------------------------
(* Shutdown and freed callbacks.                                           *)

\* Nothing that Endings is about changes for the worse: no thread leaves
\* "returned" or gets there, and no event is left dangling.
LEMMA EndingsKept ==
    ASSUME TypeOK, Endings, event => event',
           \A c \in Clients : phase'[c] = "returned" <=> phase[c] = "returned",
           \A e \in Events : /\ trip'[e].stage = "dangling" <=> trip[e].stage = "dangling"
                             /\ trip[e].stage = "dangling" => trip'[e].client = trip[e].client,
           process' = process \/ process' # "freedCallback"
    PROVE  Endings'
  BY DEF Endings

\* No connect call has returned at first.
LEMMA EndingsInit == Init => Endings
  BY DEF Init, Endings, Unborn

\* Callbacks are freed only when a connect call returns, and it returns only
\* when event is set or its own blocking function ends.
LEMMA EndingsStep == TypeOK /\ Located /\ Endings /\ [Next]_vars => Endings'
<1> SUFFICES ASSUME TypeOK, Located, Endings, [Next]_vars PROVE Endings'
  OBVIOUS
<1>1. ASSUME NEW c \in Clients,
             \/ EnterConnect(c) \/ OpenDevice(c) \/ StoreClient(c) \/ StartLogin(c)
             \/ RequestPairCode(c) \/ QrClosed(c)
      PROVE  Endings'
  <2>1. /\ \A d \in Clients : phase'[d] = "returned" <=> phase[d] = "returned"
        /\ UNCHANGED <<trip, event>>
        /\ process' = process \/ process' # "freedCallback"
    BY <1>1 DEF TypeOK, EnterConnect, OpenDevice, StoreClient, StartLogin, Login,
                RequestPairCode, QrClosed, Abort, program
  <2>2. QED
    BY <2>1, EndingsKept
<1>2. ASSUME NEW c \in Clients, ReturnFromConnect(c) PROVE Endings'
  BY <1>2 DEF ReturnFromConnect, Endings, TypeOK, program
<1>3. ASSUME NEW c \in Clients, NEW e \in Events, ReceiveLogin(c, e) PROVE Endings'
  <2>1. PICK s \in Routes(c, trip[e].kind) : trip' = [trip EXCEPT ![e].stage = s]
    BY <1>3 DEF ReceiveLogin
  <2>2. s # "dangling" /\ trip[e].stage = "parked"
    BY <1>3, RouteStages DEF ReceiveLogin
  <2>3. \A f \in Events : /\ trip'[f].stage = "dangling" <=> trip[f].stage = "dangling"
                          /\ trip'[f].client = trip[f].client
    BY <2>1, <2>2 DEF TypeOK, Trips
  <2>4. \A d \in Clients : phase'[d] = "returned" <=> phase[d] = "returned"
    BY <1>3 DEF ReceiveLogin, TypeOK
  <2>5. UNCHANGED <<event, process>>
    BY <1>3 DEF ReceiveLogin, program
  <2>6. QED
    BY <2>3, <2>4, <2>5, EndingsKept
<1>4. ASSUME NEW c \in Clients, NEW e \in Events, NEW kind, NEW s,
             trip[e] = Unborn, s # "dangling", UNCHANGED <<session, program>>,
             trip' = [trip EXCEPT ![e] = [client |-> c, kind |-> kind, stage |-> s]]
      PROVE  Endings'
  <2>1. \A f \in Events : /\ trip'[f].stage = "dangling" <=> trip[f].stage = "dangling"
                          /\ trip[f].stage = "dangling" => trip'[f].client = trip[f].client
    BY <1>4 DEF TypeOK, Unborn
  <2>2. UNCHANGED <<phase, event, process>>
    BY <1>4 DEF session, program
  <2>3. QED
    BY <2>1, <2>2, EndingsKept
<1>5. ASSUME NEW c \in Clients, NEW e \in Events, NEW kind \in CallbackKinds,
             QrItem(c, e, kind)
      PROVE  Endings'
  BY <1>4, <1>5 DEF QrItem
<1>6. ASSUME NEW c \in Clients, NEW e \in Events, NEW kind \in Kinds,
             HandleEvent(c, e, kind)
      PROVE  Endings'
  <2>1. PICK s : /\ s \in Routes(c, kind) \cup {"parked"}
                 /\ trip' = [trip EXCEPT ![e] =
                                [client |-> c, kind |-> kind, stage |-> s]]
    BY <1>6 DEF HandleEvent
  <2>2. s # "dangling" /\ trip[e] = Unborn /\ UNCHANGED <<session, program>>
    BY <1>6, <2>1, RouteStages DEF HandleEvent
  <2>3. QED
    BY <1>4, <2>1, <2>2
<1>7. ASSUME NEW e \in Events, RunCallback(e) PROVE Endings'
  <2>1. UNCHANGED <<phase, event>> /\ process = "running" /\ trip[e].stage = "flying"
    BY <1>7 DEF RunCallback, session, Running
  <2>2. trip[e].client \in Clients
    BY <2>1 DEF Located, Arrived
  <2>3. CASE phase[trip[e].client] # "returned"
    <3>1. /\ trip' = [trip EXCEPT ![e].stage = Executed(trip[e].client, trip[e].kind)]
          /\ UNCHANGED process
      BY <1>7, <2>3 DEF RunCallback
    <3>2. \A f \in Events : /\ trip'[f].stage = "dangling" <=> trip[f].stage = "dangling"
                            /\ trip'[f].client = trip[f].client
      BY <2>1, <3>1, ExecutedStages DEF TypeOK, Trips
    <3>3. QED
      BY <2>1, <3>1, <3>2, EndingsKept
  <2>4. CASE phase[trip[e].client] = "returned"
    <3>1. trip' = [trip EXCEPT ![e].stage = "dangling"]
      BY <1>7, <2>4 DEF RunCallback
    <3>2. /\ trip'[e].stage = "dangling" /\ trip'[e].client = trip[e].client
          /\ \A f \in Events \ {e} : trip'[f] = trip[f]
      BY <3>1 DEF TypeOK, Trips
    <3>3. QED
      BY <2>1, <2>2, <2>4, <3>2 DEF Endings
  <2>5. QED
    BY <2>3, <2>4
<1>8. CASE /\ UNCHANGED <<phase, trip>>
           /\ event => event'
           /\ process' = process \/ process' # "freedCallback"
  BY <1>8, EndingsKept
<1>9. ASSUME NEW c \in Clients, CallMethod(c) \/ Disconnect(c)
      PROVE  /\ UNCHANGED <<phase, trip, event>>
             /\ process' = process \/ process' # "freedCallback"
  BY <1>9 DEF CallMethod, Disconnect, Lookup, Abort, session
<1>10. \/ \E c \in Clients :
              \/ EnterConnect(c) \/ OpenDevice(c) \/ StoreClient(c) \/ StartLogin(c)
              \/ RequestPairCode(c) \/ QrClosed(c) \/ ReturnFromConnect(c)
              \/ \E e \in Events :
                    \/ ReceiveLogin(c, e)
                    \/ \E kind \in CallbackKinds : QrItem(c, e, kind)
                    \/ \E kind \in Kinds : HandleEvent(c, e, kind)
       \/ \E e \in Events : RunCallback(e)
       \/ /\ UNCHANGED <<phase, trip>>
          /\ event => event'
          /\ process' = process \/ process' # "freedCallback"
  BY <1>9 DEF Next, RegisterHandler, Interrupt, HandleInterrupt, Exit, session,
              program, vars
<1>11. QED
  BY <1>1, <1>2, <1>3, <1>5, <1>6, <1>7, <1>8, <1>10

\* So Endings always holds.
LEMMA EndingsAlways == Spec => []Endings
  BY TypeCorrect, LocatedAlways, EndingsInit, EndingsStep, PTL DEF Spec

\* A goroutine finds its callback freed, and the process dies of one, only
\* after shutdown was requested or for a blocking function that gave up.
THEOREM ServedUntilShutdown == Spec => []ServesUntilShutdown
<1>1. Endings => ServesUntilShutdown
  BY DEF Endings, ServesUntilShutdown
<1>2. QED
  BY <1>1, EndingsAlways, PTL

\* No step but the end of its client's login lets a held up Connected event go.
THEOREM UnparkedOnlyByLogin == Spec => UnparkedByLogin
<1> DEFINE Kept == \A e \in Events :
                      trip[e].stage = "parked" /\ trip'[e].stage # "parked" =>
                          /\ phase[trip[e].client] = "wait"
                          /\ phase'[trip[e].client] = "blocking"
<1>1. ASSUME TypeOK, Next PROVE Kept
  <2>1. ASSUME NEW c \in Clients, NEW e \in Events, ReceiveLogin(c, e) PROVE Kept
    <3>1. phase[c] = "wait" /\ phase'[c] = "blocking" /\ trip[e].client = c
      BY <1>1, <2>1 DEF ReceiveLogin, TypeOK
    <3>2. \A f \in Events \ {e} : trip'[f] = trip[f]
      BY <1>1, <2>1 DEF ReceiveLogin, TypeOK
    <3>3. QED
      BY <3>1, <3>2
  <2>2. ASSUME NEW e \in Events, trip[e].stage # "parked",
               \A f \in Events \ {e} : trip'[f] = trip[f]
        PROVE  Kept
    BY <2>2
  <2>3. ASSUME NEW c \in Clients, NEW e \in Events, NEW kind \in CallbackKinds,
               QrItem(c, e, kind)
        PROVE  Kept
    BY <1>1, <2>2, <2>3 DEF QrItem, TypeOK, Unborn
  <2>4. ASSUME NEW c \in Clients, NEW e \in Events, NEW kind \in Kinds,
               HandleEvent(c, e, kind)
        PROVE  Kept
    BY <1>1, <2>2, <2>4 DEF HandleEvent, TypeOK, Unborn
  <2>5. ASSUME NEW e \in Events, RunCallback(e) PROVE Kept
    BY <1>1, <2>2, <2>5 DEF RunCallback, TypeOK
  <2>6. CASE UNCHANGED trip
    BY <2>6
  <2>7. \/ \E c \in Clients, e \in Events :
              \/ ReceiveLogin(c, e)
              \/ \E kind \in CallbackKinds : QrItem(c, e, kind)
              \/ \E kind \in Kinds : HandleEvent(c, e, kind)
        \/ \E e \in Events : RunCallback(e)
        \/ UNCHANGED trip
    BY <1>1 DEF Next, RegisterHandler, EnterConnect, OpenDevice, StoreClient,
                StartLogin, RequestPairCode, QrClosed, ReturnFromConnect,
                CallMethod, Disconnect, Interrupt, HandleInterrupt, Exit, session
  <2>8. QED
    BY <2>1, <2>3, <2>4, <2>5, <2>6, <2>7
<1>2. TypeOK /\ [Next]_vars => [Kept]_vars
  BY <1>1
<1>3. QED
  BY <1>2, TypeCorrect, PTL DEF Spec, UnparkedByLogin
=============================================================================
