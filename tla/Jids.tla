-------------------------------- MODULE Jids --------------------------------
(***************************************************************************)
(* Addresses on both sides of the bridge: the protobuf JID that Python     *)
(* builds and reads, types.JID of whatsmeow, and the text of either.       *)
(*                                                                         *)
(* A text is a sequence of tokens, pairs of a kind and a number: a name is *)
(* one token, a separator another.                                         *)
(***************************************************************************)
EXTENDS Integers, Sequences, SequencesExt

Name(n) == <<"name", n>>
Num(n) == <<"number", n>>
Sign(s) == <<s, 0>>

\* What names, and the texts of addresses, are made of.
Names == {"name"} \X Nat
Token == {"name", "number", ".", ":", "@"} \X Nat

\* strings.Split and str.split: the pieces between the separators, one if there
\* is none.
Split(text, separator) ==
    LET next(pieces, token) ==
            IF token = separator THEN Append(pieces, <<>>)
            ELSE [pieces EXCEPT ![Len(pieces)] = Append(@, token)]
    IN  FoldLeft(next, << <<>> >>, text)

\* strings.Builder with a separator from the second on, and str.join.
JoinWith(texts, separator) ==
    LET next(joined, i) == IF i = 1 THEN texts[1] ELSE joined \o <<separator>> \o texts[i]
    IN  FoldLeftDomain(next, <<>>, texts)

Holds(text, token) == Contains(text, token)

DefaultUserServer == <<Name(0)>>

\* The fields of a protobuf JID; those of types.JID are these without IsEmpty.
Wire(user, agent, device, integrator, server, isEmpty) ==
    [User |-> user, RawAgent |-> agent, Device |-> device,
     Integrator |-> integrator, Server |-> server, IsEmpty |-> isEmpty]

\* Mutant: the protobuf's 32 bits are kept.
DecodeWide(jid) ==
    [User |-> jid.User, RawAgent |-> jid.RawAgent, Device |-> jid.Device,
     Integrator |-> jid.Integrator, Server |-> jid.Server]

\* uint8 and uint16 of the protobuf's uint32.
DecodeJidProto(jid) ==
    [User |-> jid.User, RawAgent |-> jid.RawAgent % 256,
     Device |-> jid.Device % 65536, Integrator |-> jid.Integrator % 65536,
     Server |-> jid.Server]

EncodeJidProto(jid) ==
    Wire(jid.User, jid.RawAgent, jid.Device, jid.Integrator, jid.Server,
         jid.Server = <<>>)

JIDToNonAD(jid) == [jid EXCEPT !.RawAgent = 0, !.Device = 0]

\* Mutant: the device is written only behind an agent.
TextWithoutDevice(jid) ==
    CASE jid.RawAgent > 0 ->
            jid.User \o <<Sign("."), Num(jid.RawAgent), Sign(":"), Num(jid.Device),
                          Sign("@")>> \o jid.Server
      [] OTHER ->
            IF jid.User # <<>> THEN jid.User \o <<Sign("@")>> \o jid.Server
            ELSE jid.Server

Jid2String(jid) ==
    CASE jid.RawAgent > 0 ->
            jid.User \o <<Sign("."), Num(jid.RawAgent), Sign(":"), Num(jid.Device),
                          Sign("@")>> \o jid.Server
      [] jid.RawAgent = 0 /\ jid.Device > 0 ->
            jid.User \o <<Sign(":"), Num(jid.Device), Sign("@")>> \o jid.Server
      [] OTHER ->
            IF jid.User # <<>> THEN jid.User \o <<Sign("@")>> \o jid.Server
            ELSE jid.Server

build_jid(phone_number, server) == Wire(phone_number, 0, 0, 0, server, FALSE)
-----------------------------------------------------------------------------
(* whatsmeow's own text of an address and what it reads from one.          *)

String(jid) ==
    LET agent == IF jid.RawAgent > 0 THEN <<Sign("."), Num(jid.RawAgent)>> ELSE <<>>
        device == IF jid.Device > 0 \/ jid.RawAgent > 0
                  THEN <<Sign(":"), Num(jid.Device)>> ELSE <<>>
        user == jid.User \o agent \o device
    IN  IF user = <<>> THEN jid.Server ELSE user \o <<Sign("@")>> \o jid.Server

ParseJID(text) ==
    LET parts == Split(text, Sign("@"))
        dotted == Split(parts[1], Sign("."))
        numbers == Split(dotted[Len(dotted)], Sign(":"))
        agent == IF Len(dotted) = 2 THEN numbers[1][1][2] % 256 ELSE 0
        device == IF Len(numbers) = 2 THEN numbers[2][1][2] % 65536 ELSE 0
    IN  IF Len(parts) = 1
        THEN [User |-> <<>>, RawAgent |-> 0, Device |-> 0, Integrator |-> 0,
              Server |-> text]
        ELSE [User |-> IF Len(dotted) = 2 THEN dotted[1] ELSE numbers[1],
              RawAgent |-> agent, Device |-> device, Integrator |-> 0,
              Server |-> parts[2]]

\* The key of a message that is edited or revoked, as whatsmeow makes it.
BuildMessageKey(chat, sender, me) ==
    LET fromMe == sender.Server = <<>> \/ sender.User = me.User
    IN  [fromMe |-> fromMe, remoteJID |-> String(chat),
         participant |->
            IF fromMe \/ chat.Server = DefaultUserServer THEN {}
            ELSE {String([sender EXCEPT !.RawAgent = 0, !.Device = 0])}]
-----------------------------------------------------------------------------
(* builder.py: the same keys made in Python; participant is set or not.    *)

build_edit(chat) ==
    [fromMe |-> TRUE, remoteJID |-> Jid2String(chat), participant |-> {}]

\* Mutant: the sender's device stays in the key.
build_revoke_with_device(chat, sender, me) ==
    LET fromMe == me.User = sender.User
    IN  [fromMe |-> fromMe, remoteJID |-> Jid2String(chat),
         participant |->
            IF sender.IsEmpty \/ fromMe \/ chat.Server = DefaultUserServer THEN {}
            ELSE {Jid2String(sender)}]

build_revoke(chat, sender, me) ==
    LET fromMe == me.User = sender.User
    IN  [fromMe |-> fromMe, remoteJID |-> Jid2String(chat),
         participant |->
            IF sender.IsEmpty \/ fromMe \/ chat.Server = DefaultUserServer THEN {}
            ELSE {Jid2String(JIDToNonAD(sender))}]
-----------------------------------------------------------------------------
(* What the two sides must agree on.                                       *)

\* The text that a message carries and the address that a call carries name the
\* same recipient, whatever the widths of the fields and for users that hold a
\* device already; what whatsmeow sends comes back unchanged.
SameAddress(jid) ==
    LET sent == DecodeJidProto(jid)
    IN  /\ String(ParseJID(Jid2String(jid))) = String(sent)
        /\ DecodeJidProto(EncodeJidProto(sent)) = sent

\* The key made in Python is the one made in Go, unless there is no sender: for
\* Go the message is then the user's own.
SameKey(chat, sender, me) ==
    LET given(jid) == DecodeJidProto(jid)
    IN  /\ build_edit(chat) =
            BuildMessageKey(given(chat), given(build_jid(<<>>, <<>>)), given(me))
        /\ \/ build_revoke(chat, sender, me) =
                BuildMessageKey(given(chat), given(sender), given(me))
           \/ sender.Server = <<>> /\ me.User # sender.User
=============================================================================
