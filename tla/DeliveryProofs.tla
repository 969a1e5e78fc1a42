--------------------------- MODULE DeliveryProofs ---------------------------
(***************************************************************************)
(* Sessions implements EventDelivery: an accepted event is handed over at  *)
(* most once, and it is dropped only if its kind is lossy or its client's  *)
(* session has ended.                                                      *)
(***************************************************************************)
EXTENDS SessionsProofs

\* What a step of Sessions may do to the promise made about event e.
Accepted(e) ==
    /\ Promised(e) = Delivery!Blank
    /\ \E c \in Clients, k \in Kinds \cup CallbackKinds :
          Promised(e)' = [client |-> c, kind |-> k, state |-> "pending"]

Refused(e) ==
    /\ Promised(e) = Delivery!Blank
    /\ \E c \in Clients, k \in LossyKinds \cap Kinds :
          Promised(e)' = [client |-> c, kind |-> k, state |-> "lost"]

Delivered(e) ==
    /\ Promised(e).state = "pending"
    /\ phase[Promised(e).client] # "returned"
    /\ Promised(e)' = [Promised(e) EXCEPT !.state = "delivered"]

Dropped(e) ==
    /\ Promised(e).state = "pending"
    /\ Promised(e).client \in Clients
    /\ phase[Promised(e).client] = "returned" \/ Promised(e).kind \in LossyKinds
    /\ Promised(e)' = [Promised(e) EXCEPT !.state = "lost"]

Fates(e) ==
    \/ Promised(e)' = Promised(e)
    \/ Accepted(e) \/ Refused(e) \/ Delivered(e) \/ Dropped(e)

-----------------------------------------------------------------------------
\* A step that decides the fate of at most one event, and ends no session, is a
\* step or a stutter of EventDelivery.
LEMMA OneFate ==
    ASSUME NEW e \in Events, Fates(e),
           \A f \in Events \ {e} : Promised(f)' = Promised(f),
           {c \in Clients : phase[c] = "returned"}'
               = {c \in Clients : phase[c] = "returned"}
    PROVE  [Delivery!Next]_(Delivery!vars)
<1> DEFINE P == [f \in Events |-> Promised(f)]
           Ended == {c \in Clients : phase[c] = "returned"}
<1>1. P' = [P EXCEPT ![e] = Promised(e)']
  OBVIOUS
<1>2. P[e] = Promised(e) /\ Ended' = Ended
  OBVIOUS
<1>3. CASE Promised(e)' = Promised(e)
  <2>1. P' = P
    BY <1>3
  <2>2. QED
    BY <1>2, <2>1 DEF Delivery!vars
<1>4. CASE Accepted(e)
  <2>1. PICK c \in Clients, k \in Kinds \cup CallbackKinds :
           Promised(e)' = [client |-> c, kind |-> k, state |-> "pending"]
    BY <1>4 DEF Accepted
  <2>2. Delivery!Accept(e, c, k)
    BY <1>1, <1>2, <1>4, <2>1 DEF Accepted, Delivery!Accept
  <2>3. QED
    BY <2>2 DEF Delivery!Next
<1>5. CASE Refused(e)
  <2>1. PICK c \in Clients, k \in LossyKinds \cap Kinds :
           Promised(e)' = [client |-> c, kind |-> k, state |-> "lost"]
    BY <1>5 DEF Refused
  <2>2. Delivery!Refuse(e, c, k)
    BY <1>1, <1>2, <1>5, <2>1 DEF Refused, Delivery!Refuse
  <2>3. QED
    BY <2>2 DEF Delivery!Next
<1>6. CASE Delivered(e)
  <2>1. P' = [P EXCEPT ![e].state = "delivered"]
    BY <1>1, <1>2, <1>6 DEF Delivered
  <2>2. Delivery!Deliver(e)
    BY <1>2, <1>6, <2>1 DEF Delivered, Delivery!Deliver
  <2>3. QED
    BY <2>2 DEF Delivery!Next
<1>7. CASE Dropped(e)
  <2>1. P' = [P EXCEPT ![e].state = "lost"]
    BY <1>1, <1>2, <1>7 DEF Dropped
  <2>2. Delivery!Lose(e)
    BY <1>2, <1>7, <2>1 DEF Dropped, Delivery!Lose
  <2>3. QED
    BY <2>2 DEF Delivery!Next
<1>8. QED
  BY <1>3, <1>4, <1>5, <1>6, <1>7 DEF Fates

\* The promise about an event depends on its trip and, while it is held up, on
\* what its client subscribed to.
LEMMA PromiseStable ==
    ASSUME NEW e \in Events, trip'[e] = trip[e],
           Arrived(e) => subs'[trip[e].client] = subs[trip[e].client]
    PROVE  Promised(e)' = Promised(e)
  BY DEF Promised, Arrived

\* An event that was not raised is promised nothing.
LEMMA UnbornBlank ==
    ASSUME NEW e \in Events, trip[e] = Unborn
    PROVE  Promised(e) = Delivery!Blank
  BY DEF Promised, Unborn, Delivery!Blank

\* An event that is raised is accepted, refused for being lossy, or not the
\* program's concern.
LEMMA Raised ==
    ASSUME NEW e \in Events, NEW c \in Clients, NEW kind \in Kinds \cup CallbackKinds,
           NEW s, trip[e] = Unborn, UNCHANGED subs,
           trip'[e] = [client |-> c, kind |-> kind, stage |-> s],
           \/ s = "flying" \/ s = "ignored" \/ s = "parked"
           \/ s = "panicked" /\ kind \in LossyKinds \cap Kinds
    PROVE  Fates(e)
<1>1. Promised(e) = Delivery!Blank
  BY UnbornBlank
<1>2. CASE s = "flying"
  BY <1>1, <1>2 DEF Fates, Accepted, Promised
<1>3. CASE s = "ignored"
  BY <1>1, <1>3 DEF Fates, Promised, Delivery!Blank
<1>4. CASE s = "parked"
  BY <1>1, <1>4 DEF Fates, Accepted, Promised, Delivery!Blank
<1>5. CASE s = "panicked" /\ kind \in LossyKinds \cap Kinds
  BY <1>1, <1>5 DEF Fates, Refused, Promised
<1>6. QED
  BY <1>2, <1>3, <1>4, <1>5

\* The case of a kind that can panic is the case of a lossy kind.
LEMMA PanicsAreLossy ==
    ASSUME NEW c, NEW kind \in Kinds, "panicked" \in Routes(c, kind)
    PROVE  kind \in LossyKinds
<1>1. \E o \in Encodings(kind) : o # "bytes"
  BY DEF Routes
<1>2. Encodings(kind) \subseteq {"bytes", "panic"}
  BY DEF Encodings
<1>3. QED
  BY <1>1, <1>2, KindsAssumption DEF LossyKinds

\* Initial states map to initial states.
LEMMA DeliveryInit == Init => Delivery!Init
<1> SUFFICES ASSUME Init PROVE Delivery!Init
  OBVIOUS
<1>1. \A e \in Events : Promised(e) = Delivery!Blank
  BY UnbornBlank DEF Init
<1>2. {c \in Clients : phase[c] = "returned"} = {}
  BY DEF Init
<1>3. QED
  BY <1>1, <1>2 DEF Delivery!Init

\* Every step maps to a step or a stutter.
LEMMA DeliveryStep ==
    TypeOK /\ Located /\ Subscribed /\ Branches /\ [Next]_vars =>
        [Delivery!Next]_(Delivery!vars)
<1> SUFFICES ASSUME TypeOK, Located, Subscribed, Branches, [Next]_vars
             PROVE  [Delivery!Next]_(Delivery!vars)
  OBVIOUS
<1> DEFINE Ended == {c \in Clients : phase[c] = "returned"}
<1>1. ASSUME \A e \in Events : trip'[e] = trip[e],
             \A e \in Events : Arrived(e) => subs'[trip[e].client] = subs[trip[e].client],
             Ended' = Ended
      PROVE  [Delivery!Next]_(Delivery!vars)
  <2>1. \A e \in Events : Promised(e)' = Promised(e)
    BY <1>1, PromiseStable
  <2>2. [e \in Events |-> Promised(e)]' = [e \in Events |-> Promised(e)]
    BY <2>1
  <2>3. QED
    BY <1>1, <2>2 DEF Delivery!vars
<1>2. ASSUME NEW c \in Clients, ReturnFromConnect(c)
      PROVE  [Delivery!Next]_(Delivery!vars)
  <2>1. \A e \in Events : Promised(e)' = Promised(e)
    BY <1>2, PromiseStable DEF ReturnFromConnect
  <2>2. [e \in Events |-> Promised(e)]' = [e \in Events |-> Promised(e)]
    BY <2>1
  <2>3. c \notin Ended /\ Ended' = Ended \cup {c}
    BY <1>2 DEF ReturnFromConnect, TypeOK
  <2>4. Delivery!End(c)
    BY <2>2, <2>3 DEF Delivery!End
  <2>5. QED
    BY <2>4 DEF Delivery!Next
<1>3. ASSUME NEW e \in Events, \A f \in Events \ {e} : trip'[f] = trip[f],
             UNCHANGED subs, Ended' = Ended, Fates(e)
      PROVE  [Delivery!Next]_(Delivery!vars)
  <2>1. \A f \in Events \ {e} : Promised(f)' = Promised(f)
    BY <1>3, PromiseStable
  <2>2. QED
    BY <1>3, <2>1, OneFate
<1>4. ASSUME NEW c \in Clients, NEW e \in Events, ReceiveLogin(c, e)
      PROVE  [Delivery!Next]_(Delivery!vars)
  <2>1. PICK s \in Routes(c, trip[e].kind) : trip' = [trip EXCEPT ![e].stage = s]
    BY <1>4 DEF ReceiveLogin
  <2>2. /\ trip[e].client = c /\ trip[e].stage = "parked" /\ UNCHANGED subs
        /\ trip[e].kind \in Kinds
    BY <1>4 DEF ReceiveLogin, Located, Arrived, Branches, CallbackKinds
  <2>3. /\ \A f \in Events \ {e} : trip'[f] = trip[f]
        /\ trip'[e].stage = s
        /\ trip'[e].client = c /\ trip'[e].kind = trip[e].kind
    BY <2>1, <2>2 DEF TypeOK, Trips
  <2>4. Ended' = Ended
    BY <1>4 DEF ReceiveLogin, TypeOK
  <2>5. CASE Checks[trip[e].kind] \notin subs[c]
    <3>1. s = "ignored"
      BY <2>1, <2>5, RouteStages
    <3>2. Promised(e)' = Promised(e)
      BY <2>2, <2>3, <2>5, <3>1 DEF Promised
    <3>3. QED
      BY <2>2, <2>3, <2>4, <3>2, <1>3 DEF Fates
  <2>6. CASE Checks[trip[e].kind] \in subs[c] /\ s = "flying"
    <3>1. Promised(e)' = Promised(e)
      BY <2>2, <2>3, <2>6 DEF Promised
    <3>2. QED
      BY <2>2, <2>3, <2>4, <3>1, <1>3 DEF Fates
  <2>7. CASE Checks[trip[e].kind] \in subs[c] /\ s = "panicked"
    <3>1. trip[e].kind \in LossyKinds
      BY <2>1, <2>2, <2>7, PanicsAreLossy
    <3>2. Promised(e) = [client |-> c, kind |-> trip[e].kind, state |-> "pending"]
      BY <2>2, <2>7 DEF Promised
    <3>3. Promised(e)' = [client |-> c, kind |-> trip[e].kind, state |-> "lost"]
      BY <2>3, <2>7 DEF Promised
    <3>4. QED
      BY <2>2, <2>3, <2>4, <3>1, <3>2, <3>3, <1>3 DEF Fates, Dropped
  <2>8. Checks[trip[e].kind] \in subs[c] => s \in {"flying", "panicked"}
    BY <2>1 DEF Routes
  <2>9. QED
    BY <2>5, <2>6, <2>7, <2>8
<1>5. ASSUME NEW c \in Clients, NEW e \in Events, NEW kind \in CallbackKinds,
             QrItem(c, e, kind)
      PROVE  [Delivery!Next]_(Delivery!vars)
  <2>1. /\ trip[e] = Unborn /\ UNCHANGED <<subs, phase>>
        /\ trip'[e] = [client |-> c, kind |-> kind, stage |-> "flying"]
        /\ \A f \in Events \ {e} : trip'[f] = trip[f]
    BY <1>5 DEF QrItem, session, TypeOK
  <2>2. Fates(e)
    BY <2>1, Raised
  <2>3. QED
    BY <2>1, <2>2, <1>3
<1>6. ASSUME NEW c \in Clients, NEW e \in Events, NEW kind \in Kinds,
             HandleEvent(c, e, kind)
      PROVE  [Delivery!Next]_(Delivery!vars)
  <2>1. PICK s : /\ s \in Routes(c, kind) \cup {"parked"}
                 /\ trip' = [trip EXCEPT ![e] =
                                [client |-> c, kind |-> kind, stage |-> s]]
    BY <1>6 DEF HandleEvent
  <2>2. /\ trip[e] = Unborn /\ UNCHANGED <<subs, phase>>
        /\ trip'[e] = [client |-> c, kind |-> kind, stage |-> s]
        /\ \A f \in Events \ {e} : trip'[f] = trip[f]
    BY <1>6, <2>1 DEF HandleEvent, session, TypeOK
  <2>3. \/ s = "flying" \/ s = "ignored" \/ s = "parked"
        \/ s = "panicked" /\ kind \in LossyKinds \cap Kinds
    BY <2>1, RouteStages, PanicsAreLossy
  <2>4. Fates(e)
    BY <2>2, <2>3, Raised
  <2>5. QED
    BY <2>2, <2>4, <1>3
<1>7. ASSUME NEW e \in Events, RunCallback(e)
      PROVE  [Delivery!Next]_(Delivery!vars)
  <2>1. /\ trip[e].stage = "flying" /\ UNCHANGED <<subs, phase, listFunc>>
        /\ \A f \in Events \ {e} : trip'[f] = trip[f]
        /\ trip'[e].client = trip[e].client /\ trip'[e].kind = trip[e].kind
    BY <1>7 DEF RunCallback, session, TypeOK, Trips
  <2>2. trip[e].client \in Clients /\ trip[e].kind \in Kinds \cup CallbackKinds
    BY <2>1 DEF Located, Arrived
  <2>3. Promised(e) = [client |-> trip[e].client, kind |-> trip[e].kind,
                       state |-> "pending"]
    BY <2>1 DEF Promised
  <2>4. CASE phase[trip[e].client] = "returned"
    <3>1. trip'[e].stage = "dangling"
      BY <1>7, <2>4 DEF RunCallback, TypeOK, Trips
    <3>2. Promised(e)' = [client |-> trip[e].client, kind |-> trip[e].kind,
                          state |-> "lost"]
      BY <2>1, <3>1 DEF Promised
    <3>3. Fates(e)
      BY <2>2, <2>3, <2>4, <3>2 DEF Fates, Dropped
    <3>4. QED
      BY <2>1, <3>3, <1>3
  <2>5. CASE /\ phase[trip[e].client] # "returned"
             /\ Executed(trip[e].client, trip[e].kind) = "handled"
    <3>1. trip'[e].stage = "handled"
      BY <1>7, <2>5 DEF RunCallback, TypeOK, Trips
    <3>2. Promised(e)' = [client |-> trip[e].client, kind |-> trip[e].kind,
                          state |-> "delivered"]
      BY <2>1, <3>1 DEF Promised
    <3>3. Fates(e)
      BY <2>3, <2>5, <3>2 DEF Fates, Delivered
    <3>4. QED
      BY <2>1, <3>3, <1>3
  <2>6. CASE /\ phase[trip[e].client] # "returned"
             /\ Executed(trip[e].client, trip[e].kind) # "handled"
    <3>1. trip'[e].stage \in {"misread", "keyError"}
      BY <1>7, <2>6, ExecutedStages DEF RunCallback, TypeOK, Trips
    <3>2. trip[e].kind \notin CallbackKinds =>
             Checks[trip[e].kind] \in listFunc[trip[e].client]
      BY <2>1, <2>2 DEF Subscribed
    <3>3. /\ trip[e].kind \notin CallbackKinds
          /\ Sends[trip[e].kind] # Checks[trip[e].kind]
      BY <2>2, <2>6, <3>2, ExecutedFinds
    <3>4. trip[e].kind \in LossyKinds
      BY <2>2, <3>3, TablesAgree, KindsAssumption DEF LossyKinds
    <3>5. Promised(e)' = [client |-> trip[e].client, kind |-> trip[e].kind,
                          state |-> "lost"]
      BY <2>1, <3>1 DEF Promised
    <3>6. Fates(e)
      BY <2>2, <2>3, <3>4, <3>5 DEF Fates, Dropped
    <3>7. QED
      BY <2>1, <3>6, <1>3
  <2>7. QED
    BY <2>4, <2>5, <2>6
<1>8. ASSUME NEW c \in Clients, EnterConnect(c)
      PROVE  [Delivery!Next]_(Delivery!vars)
  <2>1. \A e \in Events : Arrived(e) => trip[e].client \in Clients \ {c}
    BY <1>8 DEF EnterConnect, Located, Unstarted
  <2>2. QED
    BY <1>1, <1>8, <2>1 DEF EnterConnect, TypeOK
<1>9. ASSUME NEW c \in Clients,
             \/ OpenDevice(c) \/ StoreClient(c) \/ StartLogin(c)
             \/ RequestPairCode(c) \/ QrClosed(c)
      PROVE  [Delivery!Next]_(Delivery!vars)
  <2>1. UNCHANGED <<trip, subs>>
    BY <1>9 DEF OpenDevice, StoreClient, StartLogin, RequestPairCode, QrClosed
  <2>2. Ended' = Ended
    BY <1>9 DEF OpenDevice, StoreClient, StartLogin, Login, RequestPairCode,
                QrClosed, TypeOK
  <2>3. QED
    BY <1>1, <2>1, <2>2
<1>10. CASE UNCHANGED <<trip, subs, phase>>
  BY <1>1, <1>10
<1>11. \/ \E c \in Clients :
              \/ EnterConnect(c) \/ OpenDevice(c) \/ StoreClient(c) \/ StartLogin(c)
              \/ RequestPairCode(c) \/ QrClosed(c) \/ ReturnFromConnect(c)
              \/ \E e \in Events :
                    \/ ReceiveLogin(c, e)
                    \/ \E kind \in CallbackKinds : QrItem(c, e, kind)
                    \/ \E kind \in Kinds : HandleEvent(c, e, kind)
       \/ \E e \in Events : RunCallback(e)
       \/ UNCHANGED <<trip, subs, phase>>
  BY DEF Next, RegisterHandler, CallMethod, Disconnect, Interrupt,
         HandleInterrupt, Exit, session, vars
<1>12. QED
  BY <1>2, <1>4, <1>5, <1>6, <1>7, <1>8, <1>9, <1>10, <1>11

\* The bridge between whatsmeow and the Python handlers keeps the promise of
\* EventDelivery, for any number of clients and events: at most one delivery
\* of each event, none after connect returned, and a loss only of a lossy kind
\* or at the end of a session.
THEOREM SessionsImplementDelivery == Spec => DeliveryPromise
<1>1. LoginInv => Branches
  BY DEF LoginInv
<1>2. QED
  BY <1>1, DeliveryInit, DeliveryStep, TypeCorrect, LocatedAlways,
     SubscribedAlways, LoginAlways, PTL DEF Spec, DeliveryPromise, Delivery!Spec
=============================================================================
