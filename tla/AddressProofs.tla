---------------------------- MODULE AddressProofs ----------------------------
(***************************************************************************)
(* Addresses as texts: that the text of any address is the same on both    *)
(* sides and is read back, that the keys of edits and revokes agree, and   *)
(* that the list of devices, which is one text, is the table and leads     *)
(* back to its devices.                                                    *)
(***************************************************************************)
EXTENDS ValuesProofs

-----------------------------------------------------------------------------
\* What the bridge carries of a message's address is all of it.
LEMMA GivenKey ==
    ASSUME NEW jid \in KeyJids
    PROVE  /\ DecodeJidProto(jid) =
                 [User |-> jid.User, RawAgent |-> jid.RawAgent, Device |-> jid.Device,
                  Integrator |-> jid.Integrator % 65536, Server |-> jid.Server]
           /\ jid.User \in Seq(Token) /\ jid.Server \in Seq(Token)
           /\ jid.RawAgent \in Nat /\ jid.Device \in Nat
           /\ jid.IsEmpty = (jid.Server = <<>>)
           /\ jid = EncodeJidProto(jid)
<1>1. /\ jid.User \in Seq(Token) /\ jid.Server \in Seq(Token)
      /\ jid.RawAgent \in Nat /\ jid.RawAgent < 256
      /\ jid.Device \in Nat /\ jid.Device < 65536
      /\ jid.IsEmpty = (jid.Server = <<>>)
      /\ jid = EncodeJidProto(jid)
  BY KeyJidsAssumption
<1>2. \A n \in Nat : (n < 256 => n % 256 = n) /\ (n < 65536 => n % 65536 = n)
  BY SMT
<1>3. jid.RawAgent % 256 = jid.RawAgent /\ jid.Device % 65536 = jid.Device
  BY <1>1, <1>2
<1>4. DecodeJidProto(jid) =
          [User |-> jid.User, RawAgent |-> jid.RawAgent, Device |-> jid.Device,
           Integrator |-> jid.Integrator % 65536, Server |-> jid.Server]
  BY <1>3 DEF DecodeJidProto
<1> QED
  BY <1>1, <1>4

\* The text of an address depends on four of its fields.
LEMMA TextOf ==
    ASSUME NEW a, NEW b, a.User = b.User, a.RawAgent = b.RawAgent,
           a.Device = b.Device, a.Server = b.Server
    PROVE  String(a) = String(b)
  BY DEF String

\* The text of the address of a chat is that of what Go is given.
LEMMA ChatText ==
    ASSUME NEW chat \in KeyJids
    PROVE  Jid2String(chat) = String(DecodeJidProto(chat))
<1>1. Jid2String(chat) = String(chat)
  BY GivenKey, SameText
<1> DEFINE given == DecodeJidProto(chat)
<1>2. /\ given.User = chat.User /\ given.RawAgent = chat.RawAgent
      /\ given.Device = chat.Device /\ given.Server = chat.Server
  BY GivenKey
<1> HIDE DEF given
<1>3. String(given) = String(chat)
  BY <1>2, TextOf
<1> QED
  BY <1>1, <1>3 DEF given

\* And so is that of a sender without its device.
LEMMA SenderText ==
    ASSUME NEW sender \in KeyJids
    PROVE  Jid2String(JIDToNonAD(sender)) =
              String([DecodeJidProto(sender) EXCEPT !.RawAgent = 0, !.Device = 0])
<1> DEFINE plain == JIDToNonAD(sender)
           given == [DecodeJidProto(sender) EXCEPT !.RawAgent = 0, !.Device = 0]
<1>1. sender.User \in Seq(Token) /\ sender.Server \in Seq(Token)
  BY GivenKey
<1>2. sender = Wire(sender.User, sender.RawAgent, sender.Device, sender.Integrator,
                    sender.Server, sender.Server = <<>>)
  BY GivenKey DEF EncodeJidProto
<1>3. /\ plain.User = sender.User /\ plain.RawAgent = 0
      /\ plain.Device = 0 /\ plain.Server = sender.Server
  BY <1>2 DEF JIDToNonAD, Wire
<1>4. /\ given.User = sender.User /\ given.RawAgent = 0
      /\ given.Device = 0 /\ given.Server = sender.Server
  BY GivenKey
<1> HIDE DEF plain, given
<1>5. Jid2String(plain) = String(plain)
  BY <1>1, <1>3, SameText
<1>6. String(plain) = String(given)
  BY <1>3, <1>4, TextOf
<1> QED
  BY <1>5, <1>6 DEF plain, given

-----------------------------------------------------------------------------
(* Keys.                                                                   *)

\* For every chat, sender and own address, build_edit and build_revoke make the key
\* that whatsmeow's BuildMessageKey makes of the same, so that both sides name the
\* same message; but for a revoke without a sender, which only Go takes for the
\* user's own.
THEOREM KeysOfAnyMessage == Spec => []KeysAgree
<1>1. ASSUME NEW chat \in KeyJids, NEW sender \in KeyJids, NEW me \in KeyJids
      PROVE  SameKey(chat, sender, me)
  <2> DEFINE given(jid) == DecodeJidProto(jid)
             nobody == given(build_jid(<<>>, <<>>))
             plain == [given(sender) EXCEPT !.RawAgent = 0, !.Device = 0]
             fromMe == me.User = sender.User
  <2>1. Jid2String(chat) = String(given(chat)) /\ given(chat).Server = chat.Server
    BY ChatText, GivenKey
  <2>2. Jid2String(JIDToNonAD(sender)) = String(plain)
    BY SenderText
  <2>3. /\ given(sender).User = sender.User /\ given(sender).Server = sender.Server
        /\ given(me).User = me.User
        /\ sender.IsEmpty = (sender.Server = <<>>)
    BY GivenKey
  <2>4. nobody.Server = <<>>
    BY DEF DecodeJidProto, build_jid, Wire
  <2> HIDE DEF given, nobody, plain
  <2>5. BuildMessageKey(given(chat), nobody, given(me)) =
            [fromMe |-> TRUE, remoteJID |-> String(given(chat)), participant |-> {}]
    BY <2>4, Zenon DEF BuildMessageKey
  <2>6. build_edit(chat) = BuildMessageKey(given(chat), nobody, given(me))
    BY <2>1, <2>5, Zenon DEF build_edit
  <2>7. CASE sender.Server # <<>> \/ fromMe
    <3>1. BuildMessageKey(given(chat), given(sender), given(me)) =
            [fromMe |-> fromMe, remoteJID |-> String(given(chat)),
             participant |-> IF fromMe \/ chat.Server = DefaultUserServer THEN {}
                             ELSE {String(plain)}]
      <4>1. (given(sender).Server = <<>> \/ given(sender).User = given(me).User) = fromMe
        BY <2>3, <2>7
      <4>2. BuildMessageKey(given(chat), given(sender), given(me)) =
            LET own == given(sender).Server = <<>> \/ given(sender).User = given(me).User
            IN  [fromMe |-> own, remoteJID |-> String(given(chat)),
                 participant |-> IF own \/ given(chat).Server = DefaultUserServer THEN {}
                                 ELSE {String(plain)}]
        BY Zenon DEF BuildMessageKey, plain
      <4> HIDE DEF fromMe
      <4> QED
        BY <2>1, <4>1, <4>2, Zenon
    <3>2. build_revoke(chat, sender, me) =
            [fromMe |-> fromMe, remoteJID |-> Jid2String(chat),
             participant |->
                IF sender.IsEmpty \/ fromMe \/ chat.Server = DefaultUserServer THEN {}
                ELSE {Jid2String(JIDToNonAD(sender))}]
      BY Zenon DEF build_revoke
    <3>3. (sender.IsEmpty \/ fromMe) = fromMe
      BY <2>3, <2>7
    <3>4. build_revoke(chat, sender, me) =
              BuildMessageKey(given(chat), given(sender), given(me))
      <4> HIDE DEF fromMe
      <4>1. build_revoke(chat, sender, me) =
              [fromMe |-> fromMe, remoteJID |-> String(given(chat)),
               participant |->
                  IF fromMe \/ chat.Server = DefaultUserServer THEN {}
                  ELSE {String(plain)}]
        <5>1. (sender.IsEmpty \/ fromMe \/ chat.Server = DefaultUserServer)
                = (fromMe \/ chat.Server = DefaultUserServer)
          BY <3>3, Zenon
        <5> QED
          BY <2>1, <2>2, <3>2, <5>1
      <4> QED
        BY <3>1, <4>1, Zenon
    <3> QED
      BY <2>6, <3>4, Zenon DEF SameKey, given, nobody
  <2>8. CASE ~ (sender.Server # <<>> \/ fromMe)
    BY <2>6, <2>8, Zenon DEF SameKey, given, nobody
  <2> QED
    BY <2>7, <2>8
<1>2. Asked => KeysAgree
  BY <1>1 DEF Asked, KeysAgree
<1> QED
  BY <1>2, CallsAsked, PTL

-----------------------------------------------------------------------------
(* Addresses.                                                              *)

\* What whatsmeow sends of an address comes back unchanged.
LEMMA SentComesBack ==
    ASSUME NEW jid, jid.RawAgent \in Nat, jid.Device \in Nat, jid.Integrator \in Nat
    PROVE  DecodeJidProto(EncodeJidProto(DecodeJidProto(jid))) = DecodeJidProto(jid)
<1>1. ASSUME NEW n \in Nat
      PROVE  (n % 256) % 256 = n % 256 /\ (n % 65536) % 65536 = n % 65536
  BY SMT
<1> DEFINE sent == DecodeJidProto(jid)
<1>2. /\ sent = [User |-> sent.User, RawAgent |-> sent.RawAgent, Device |-> sent.Device,
                 Integrator |-> sent.Integrator, Server |-> sent.Server]
      /\ sent.RawAgent = jid.RawAgent % 256 /\ sent.Device = jid.Device % 65536
      /\ sent.Integrator = jid.Integrator % 65536
  BY DEF DecodeJidProto
<1>3. /\ sent.RawAgent % 256 = sent.RawAgent /\ sent.Device % 65536 = sent.Device
      /\ sent.Integrator % 65536 = sent.Integrator
  BY <1>1, <1>2
<1> HIDE DEF sent
<1>4. DecodeJidProto(EncodeJidProto(sent)) =
          [User |-> sent.User, RawAgent |-> sent.RawAgent % 256,
           Device |-> sent.Device % 65536, Integrator |-> sent.Integrator % 65536,
           Server |-> sent.Server]
  BY DEF DecodeJidProto, EncodeJidProto, Wire
<1>5. DecodeJidProto(EncodeJidProto(sent)) = sent
  BY <1>2, <1>3, <1>4
<1> QED
  BY <1>5 DEF sent

\* The text of an address that a program writes, read again, is the text of what the
\* bridge carries of it.
LEMMA WrittenAgrees ==
    ASSUME NEW jid, jid.User \in Seq(Names), jid.Server \in Seq(Names),
           jid.RawAgent \in Nat, jid.Device \in Nat
    PROVE  String(ParseJID(Jid2String(jid))) = String(DecodeJidProto(jid))
<1> DEFINE agent == jid.RawAgent % 256
           device == jid.Device % 65536
           read == Parsed(jid.User, agent, device, jid.Server)
           sent == DecodeJidProto(jid)
<1>1. ParseJID(Jid2String(jid)) = read
  BY ReadBack DEF ReadAs
<1>2. /\ sent.User = jid.User /\ sent.RawAgent = agent
      /\ sent.Device = device /\ sent.Server = jid.Server
  BY DEF DecodeJidProto
<1> HIDE DEF agent, device, sent
<1>3. /\ read.User = jid.User /\ read.RawAgent = agent
      /\ read.Device = device /\ read.Server = jid.Server
  BY DEF Parsed
<1> HIDE DEF read
<1>4. String(read) = String(sent)
  BY <1>2, <1>3, TextOf
<1> QED
  BY <1>1, <1>4 DEF sent

\* A device, and the text of it.
LEMMA DeviceParts ==
    ASSUME NEW d \in DeviceJids
    PROVE  /\ d.User \in Seq(Names) /\ d.User # <<>> /\ d.Server \in Seq(Names)
           /\ d.RawAgent \in Nat /\ d.RawAgent < 256
           /\ d.Device \in Nat /\ d.Device < 65536
           /\ Jid2String(d) = String(d)
<1>1. /\ d \in [User : Seq(Names) \ {<<>>}, RawAgent : Nat, Device : Nat,
                Integrator : {0}, Server : {DefaultUserServer}]
      /\ d.RawAgent < 256 /\ d.Device < 65536
  BY DevicesAssumption
<1>2. DefaultUserServer \in Seq(Names)
  BY DEF DefaultUserServer, Name, Names
<1>3. /\ d.User \in Seq(Names) /\ d.User # <<>> /\ d.Server \in Seq(Names)
      /\ d.RawAgent \in Nat /\ d.Device \in Nat
  BY <1>1, <1>2
<1>4. d.User \in Seq(Token) /\ d.Server \in Seq(Token)
  BY <1>3, NamesAreTokens
<1>5. Jid2String(d) = String(d)
  BY <1>3, <1>4, SameText
<1> QED
  BY <1>1, <1>3, <1>5

\* And the same of the text of a device within the user of an address.
LEMMA ListedAgrees ==
    ASSUME NEW jid, NEW d \in DeviceJids,
           jid.RawAgent = 0, jid.Device = 0, jid.User # <<>>,
           jid.User \o <<Sign("@")>> \o jid.Server = String(d)
    PROVE  /\ String(ParseJID(Jid2String(jid))) = String(d)
           /\ String(DecodeJidProto(jid)) = String(d)
<1>1. Jid2String(jid) = String(d)
  <2>1. ~ (jid.RawAgent > 0) /\ ~ (jid.RawAgent = 0 /\ jid.Device > 0)
    OBVIOUS
  <2>2. Jid2String(jid) =
            IF jid.User # <<>> THEN jid.User \o <<Sign("@")>> \o jid.Server ELSE jid.Server
    BY <2>1, Zenon DEF Jid2String
  <2> QED
    BY <2>2
<1>2. ParseJID(Jid2String(d)) = Parsed(d.User, d.RawAgent, d.Device, d.Server)
  BY DeviceParts, ReadWhole
<1> DEFINE read == Parsed(d.User, d.RawAgent, d.Device, d.Server)
<1>3. /\ read.User = d.User /\ read.RawAgent = d.RawAgent
      /\ read.Device = d.Device /\ read.Server = d.Server
  BY DEF Parsed
<1> HIDE DEF read
<1>4. String(read) = String(d)
  BY <1>3, TextOf
<1>5. Jid2String(d) = String(d)
  BY DeviceParts
<1>6. String(ParseJID(Jid2String(jid))) = String(d)
  BY <1>1, <1>2, <1>4, <1>5 DEF read
<1> DEFINE sent == DecodeJidProto(jid)
<1>7. /\ sent.User = jid.User /\ sent.RawAgent = 0
      /\ sent.Device = 0 /\ sent.Server = jid.Server
  BY SMT DEF DecodeJidProto
<1> HIDE DEF sent
<1>8. /\ sent.User = jid.User /\ sent.RawAgent = jid.RawAgent
      /\ sent.Device = jid.Device /\ sent.Server = jid.Server
  BY <1>7
<1>9. String(sent) = String(jid)
  BY <1>8, TextOf
<1>10. String(jid) = jid.User \o <<Sign("@")>> \o jid.Server
  <2>1. String(jid) = LET user == jid.User \o <<>> \o <<>>
                      IN  IF user = <<>> THEN jid.Server
                          ELSE user \o <<Sign("@")>> \o jid.Server
    BY DEF String
  <2>2. jid.User \o <<>> \o <<>> = jid.User
    OBVIOUS
  <2> QED
    BY <2>1, <2>2
<1> QED
  BY <1>6, <1>9, <1>10 DEF sent

\* Of every address that a program writes or takes from a list, the text that a
\* message carries and the fields that a call carries name the same recipient for
\* whatsmeow, however wide the fields are; what whatsmeow sends comes back unchanged.
THEOREM AddressesAlwaysAgree == Spec => []AddressesAgree
<1>1. ASSUME NEW jid \in WireJids
      PROVE  SameAddress(jid)
  <2>1. jid.RawAgent \in Nat /\ jid.Device \in Nat /\ jid.Integrator \in Nat
    BY WireJidsAssumption
  <2>2. DecodeJidProto(EncodeJidProto(DecodeJidProto(jid))) = DecodeJidProto(jid)
    BY <2>1, SentComesBack
  <2>3. CASE jid.User \in Seq(Names)
    <3>1. jid.Server \in Seq(Names)
      BY WireJidsAssumption
    <3>2. String(ParseJID(Jid2String(jid))) = String(DecodeJidProto(jid))
      BY <2>1, <2>3, <3>1, WrittenAgrees
    <3> QED
      BY <2>2, <3>2, Zenon DEF SameAddress
  <2>4. CASE jid.User \notin Seq(Names)
    <3>1. PICK d \in DeviceJids :
              /\ jid.RawAgent = 0 /\ jid.Device = 0 /\ jid.User # <<>>
              /\ jid.User \o <<Sign("@")>> \o jid.Server = String(d)
      BY <2>4, WireJidsAssumption
    <3>2. /\ String(ParseJID(Jid2String(jid))) = String(d)
          /\ String(DecodeJidProto(jid)) = String(d)
      BY <3>1, ListedAgrees
    <3> QED
      BY <2>2, <3>2, Zenon DEF SameAddress
  <2> QED
    BY <2>3, <2>4
<1>2. Asked => AddressesAgree
  BY <1>1 DEF Asked, AddressesAgree
<1> QED
  BY <1>2, CallsAsked, PTL

-----------------------------------------------------------------------------
(* What the list of devices is made of.                                    *)

\* The signs of a list are none of an address's, and differ.
LEMMA SignsOfLists ==
    /\ Token \subseteq Letters /\ Comma \in Letters /\ Separator \in Letters
    /\ Comma \notin Token /\ Separator \notin Token /\ Comma # Separator
    /\ Sign("@") # Comma /\ Sign("@") # Separator /\ Sign("@") \in Letters
    /\ \A b \in BOOLEAN :
          /\ Bool(b) \in Letters /\ (Bool(b) = Sign("true") <=> b)
          /\ Bool(b) # Comma /\ Bool(b) # Separator /\ Bool(b) # Sign("@")
<1>1. /\ Sign(",") # Sign("|1|") /\ Sign("@") # Sign(",") /\ Sign("@") # Sign("|1|")
      /\ Sign("true") # Sign("false") /\ Sign("true") # Sign(",")
      /\ Sign("true") # Sign("|1|") /\ Sign("true") # Sign("@")
      /\ Sign("false") # Sign(",") /\ Sign("false") # Sign("|1|")
      /\ Sign("false") # Sign("@")
  BY DEF Sign
<1>2. Sign(",") \notin Token /\ Sign("|1|") \notin Token
  BY DEF Sign, Token
<1>3. Sign("@") \in Token
  BY SignsAreTokens
<1>4. \A b \in BOOLEAN : b = TRUE \/ b = FALSE
  OBVIOUS
<1>5. /\ Token \subseteq Letters /\ Comma \in Letters /\ Separator \in Letters
      /\ Bool(TRUE) \in Letters /\ Bool(FALSE) \in Letters
  BY DEF Letters
<1>6. Bool(TRUE) = Sign("true") /\ Bool(FALSE) = Sign("false")
  BY DEF Bool
<1>7. ASSUME NEW b \in BOOLEAN
      PROVE  /\ Bool(b) \in Letters /\ (Bool(b) = Sign("true") <=> b)
             /\ Bool(b) # Comma /\ Bool(b) # Separator /\ Bool(b) # Sign("@")
  <2>1. CASE b = TRUE
    BY <1>1, <1>5, <1>6, <2>1 DEF Comma, Separator
  <2>2. CASE b = FALSE
    BY <1>1, <1>5, <1>6, <2>2 DEF Comma, Separator
  <2> QED
    BY <1>4, <2>1, <2>2
<1> QED
  BY <1>1, <1>2, <1>3, <1>5, <1>7 DEF Comma, Separator

\* A text that is of the letters of addresses holds neither.
LEMMA AddressHoldsNoMark ==
    ASSUME NEW text \in Seq(Token)
    PROVE  /\ text \in Seq(Letters)
           /\ ~Holds(text, Comma) /\ ~Holds(text, Separator)
<1>1. text \in Seq(Letters)
  BY SignsOfLists
<1>2. \A k \in 1 .. Len(text) : text[k] \in Token
  OBVIOUS
<1>3. ~Holds(text, Comma) /\ ~Holds(text, Separator)
  BY <1>2, SignsOfLists DEF Holds, Contains
<1> QED
  BY <1>1, <1>3

\* The text of a device is its user with the device, an @ and the server.
Reads(text, user) ==
    /\ user # <<>> /\ ~Holds(user, Sign("@"))
    /\ text = user \o <<Sign("@")>> \o DefaultUserServer

LEMMA ConcatSome ==
    ASSUME NEW T, NEW p \in Seq(T), NEW q \in Seq(T), p # <<>>
    PROVE  p \o q \in Seq(T) /\ p \o q # <<>>
<1> DEFINE both == p \o q
<1>1. both \in Seq(T) /\ Len(both) = Len(p) + Len(q)
  BY ConcatParts
<1>2. Len(p) \in Nat /\ Len(p) # 0 /\ Len(q) \in Nat
  OBVIOUS
<1> HIDE DEF both
<1>3. Len(both) # 0
  BY <1>1, <1>2
<1>4. both # <<>>
  BY <1>3
<1> QED
  BY <1>1, <1>4 DEF both

LEMMA ThreeWithout ==
    ASSUME NEW T, NEW p \in Seq(T), NEW a \in Seq(T), NEW b \in Seq(T), NEW c,
           p # <<>>, ~Holds(p, c), ~Holds(a, c), ~Holds(b, c)
    PROVE  /\ p \o a \o b \in Seq(T) /\ p \o a \o b # <<>>
           /\ ~Holds(p \o a \o b, c)
<1> DEFINE two == p \o a
<1>1. two \in Seq(T) /\ two # <<>>
  BY ConcatSome
<1>2. ~Holds(two, c)
  BY HoldsConcat
<1> HIDE DEF two
<1>3. two \o b \in Seq(T) /\ two \o b # <<>>
  BY <1>1, ConcatSome
<1>4. ~Holds(two \o b, c)
  BY <1>1, <1>2, HoldsConcat
<1> QED
  BY <1>3, <1>4 DEF two

LEMMA DeviceText ==
    ASSUME NEW d \in DeviceJids
    PROVE  \E user \in Seq(Token) : Reads(String(d), user)
<1> DEFINE agent == IF d.RawAgent > 0 THEN <<Sign("."), Num(d.RawAgent)>> ELSE <<>>
           device == IF d.Device > 0 \/ d.RawAgent > 0
                     THEN <<Sign(":"), Num(d.Device)>> ELSE <<>>
           user == d.User \o agent \o device
<1>1. /\ d.User \in Seq(Names) /\ d.User # <<>>
      /\ d.RawAgent \in Nat /\ d.Device \in Nat
  BY DeviceParts
<1>2. d.Server = DefaultUserServer
  BY DevicesAssumption
<1>3. d.User \in Seq(Token) /\ ~Holds(d.User, Sign("@"))
  BY <1>1, NamesAreTokens, NamesHoldNoSign
<1>4. ASSUME NEW s \in Token, NEW t \in Token, s # Sign("@"), t # Sign("@")
      PROVE  <<s, t>> \in Seq(Token) /\ ~Holds(<<s, t>>, Sign("@"))
  BY <1>4 DEF Holds, Contains
<1>5. <<>> \in Seq(Token) /\ ~Holds(<<>>, Sign("@"))
  BY DEF Holds, Contains
<1>6. \A n \in Nat : Num(n) # Sign("@") /\ Num(n) \in Token
  BY SignsAreTokens DEF Num, Sign
<1>7. /\ Sign(".") # Sign("@") /\ Sign(":") # Sign("@")
      /\ Sign(".") \in Token /\ Sign(":") \in Token
  BY SignsAreTokens, NumbersHoldNoSign
<1>8. agent \in Seq(Token) /\ ~Holds(agent, Sign("@"))
  <2> DEFINE both == <<Sign("."), Num(d.RawAgent)>>
  <2>1. both \in Seq(Token) /\ ~Holds(both, Sign("@"))
    BY <1>1, <1>4, <1>6, <1>7
  <2> HIDE DEF both
  <2>2. agent = both \/ agent = <<>>
    BY DEF both
  <2> QED
    BY <1>5, <2>1, <2>2
<1>9. device \in Seq(Token) /\ ~Holds(device, Sign("@"))
  <2> DEFINE both == <<Sign(":"), Num(d.Device)>>
  <2>1. both \in Seq(Token) /\ ~Holds(both, Sign("@"))
    BY <1>1, <1>4, <1>6, <1>7
  <2> HIDE DEF both
  <2>2. device = both \/ device = <<>>
    BY DEF both
  <2> QED
    BY <1>5, <2>1, <2>2
<1>10. String(d) = IF user = <<>> THEN d.Server ELSE user \o <<Sign("@")>> \o d.Server
  BY Zenon DEF String
<1> HIDE DEF agent, device
<1>11. user \in Seq(Token) /\ user # <<>> /\ ~Holds(user, Sign("@"))
  BY <1>1, <1>3, <1>8, <1>9, ThreeWithout
<1> HIDE DEF user
<1>12. Reads(String(d), user)
  BY <1>2, <1>10, <1>11 DEF Reads
<1> QED
  BY <1>11, <1>12

LEMMA ServerIsNames == DefaultUserServer \in Seq(Names)
BY DEF DefaultUserServer, Name, Names

LEMMA ReadsType ==
    ASSUME NEW user \in Seq(Token), NEW text, Reads(text, user)
    PROVE  /\ text \in Seq(Token)
           /\ Split(text, Sign("@")) = <<user, DefaultUserServer>>
<1> DEFINE server == DefaultUserServer
<1>1. server \in Seq(Names) /\ server \in Seq(Token)
  BY ServerIsNames, NamesAreTokens
<1>2. Sign("@") \in Token
  BY SignsAreTokens
<1> HIDE DEF server
<1>3. ASSUME NEW p \in Seq(Token), NEW c \in Token, NEW q \in Seq(Token)
      PROVE  p \o <<c>> \o q \in Seq(Token)
  OBVIOUS
<1>4. user \o <<Sign("@")>> \o server \in Seq(Token)
  BY <1>1, <1>2, <1>3
<1>5. Split(user \o <<Sign("@")>> \o server, Sign("@")) = <<user, server>>
  BY <1>1, ServerBehind DEF Reads
<1> QED
  BY <1>4, <1>5 DEF Reads, server

\* The entry made of a device's line holds its address within the user.
LEMMA EntryText ==
    ASSUME NEW d \in DeviceJids, NEW user \in Seq(Token), Reads(String(d), user)
    PROVE  String(DecodeJidProto(build_jid(user, DefaultUserServer))) = String(d)
<1> DEFINE jid == build_jid(user, DefaultUserServer)
<1>1. /\ jid.User = user /\ jid.Server = DefaultUserServer
      /\ jid.RawAgent = 0 /\ jid.Device = 0
  BY DEF build_jid, Wire
<1> HIDE DEF jid
<1>2. jid.User # <<>> /\ jid.User \o <<Sign("@")>> \o jid.Server = String(d)
  BY <1>1 DEF Reads
<1>3. String(DecodeJidProto(jid)) = String(d)
  BY <1>1, <1>2, ListedAgrees
<1> QED
  BY <1>3 DEF jid

-----------------------------------------------------------------------------
(* Lines.                                                                  *)

\* The names of a row, and the line they are in the middle of.
NamesOf(d) == Middle(d.PushName, Comma, d.BusinessName)

LEMMA LineOfRow ==
    ASSUME NEW d \in Rows
    PROVE  /\ String(d.ID) \in Seq(Token)
           /\ d.PushName \in Seq(Letters) /\ d.BusinessName \in Seq(Letters)
           /\ NamesOf(d) \in Seq(Letters)
           /\ d.Initialized \in BOOLEAN /\ d.ID \in DeviceJids
           /\ Line(String(d.ID), d) \in Seq(Letters)
           /\ LineOf(Line(String(d.ID), d), String(d.ID), Comma, NamesOf(d),
                     Bool(d.Initialized))
<1>1. /\ d.ID \in DeviceJids /\ d.PushName \in PushNames /\ d.BusinessName \in BusinessNames
      /\ d.Initialized \in BOOLEAN
  BY DEF Rows
<1> DEFINE id == String(d.ID)
           push == d.PushName
           business == d.BusinessName
           flag == Bool(d.Initialized)
           names == NamesOf(d)
<1>2. id \in Seq(Token) /\ id \in Seq(Letters)
  <2>1. PICK user \in Seq(Token) : Reads(id, user)
    BY <1>1, DeviceText
  <2> HIDE DEF id
  <2>2. id \in Seq(Token)
    BY <2>1, ReadsType
  <2> QED
    BY <2>2, AddressHoldsNoMark
<1>3. push \in Seq(Letters) /\ business \in Seq(Letters)
  BY <1>1, NamesAssumption
<1>4. flag \in Letters /\ Comma \in Letters
  BY <1>1, SignsOfLists
<1>5. Line(id, d) = id \o <<Comma>> \o push \o <<Comma>> \o business \o <<Comma, flag>>
  BY <1>1, Zenon DEF Line
<1>6. names = Middle(push, Comma, business)
  BY Zenon DEF NamesOf
<1> HIDE DEF id, push, business, flag, names
<1>7. LineOf(Line(id, d), id, Comma, names, flag)
  BY <1>2, <1>3, <1>4, <1>5, <1>6, LineParts
<1>8. names \in Seq(Letters)
  <2>1. Append(push, Comma) \in Seq(Letters)
    BY <1>3, <1>4
  <2> QED
    BY <1>3, <1>6, <2>1, ConcatParts DEF Middle
<1>9. Line(id, d) \in Seq(Letters)
  <2>1. Line(id, d) = Append(id, Comma) \o (Append(names, Comma) \o <<flag>>)
    BY <1>7 DEF LineOf
  <2>2. ASSUME NEW T, NEW p \in Seq(T), NEW q \in Seq(T), NEW c \in T, NEW f \in T
        PROVE  Append(p, c) \o (Append(q, c) \o <<f>>) \in Seq(T)
    OBVIOUS
  <2>3. Append(id, Comma) \o (Append(names, Comma) \o <<flag>>) \in Seq(Letters)
    BY <1>2, <1>4, <1>8, <2>2
  <2> QED
    BY <2>1, <2>3
<1> QED
  BY <1>1, <1>2, <1>3, <1>7, <1>8, <1>9 DEF id, push, business, flag, names

\* Four fields, if no comma is in either name: then they are its parts.
LEMMA FieldsOfRow ==
    ASSUME NEW d \in Rows, NEW line, line = Line(String(d.ID), d)
    PROVE  /\ Len(Split(line, Comma)) = 4 <=> ~Named(d, Comma)
           /\ ~Named(d, Comma) =>
                 /\ Split(line, Comma)[1] = String(d.ID)
                 /\ Split(line, Comma)[2] = d.PushName
                 /\ Split(line, Comma)[3] = d.BusinessName
                 /\ Split(line, Comma)[4] = <<Bool(d.Initialized)>>
<1> DEFINE id == String(d.ID)
           push == d.PushName
           business == d.BusinessName
           flag == Bool(d.Initialized)
<1>1. /\ id \in Seq(Token) /\ push \in Seq(Letters) /\ business \in Seq(Letters)
      /\ LineOf(line, id, Comma, Middle(push, Comma, business), flag)
  BY LineOfRow DEF NamesOf
<1>2. flag \in Letters /\ flag # Comma /\ Comma \in Letters
  BY LineOfRow, SignsOfLists
<1>3. Named(d, Comma) <=> ~Unbroken(push, Comma, business)
  BY Zenon DEF Named, Unbroken
<1> HIDE DEF id, push, business, flag
<1>4. id \in Seq(Letters) /\ ~Holds(id, Comma)
  BY <1>1, AddressHoldsNoMark
<1>5. Fielded(line, id, Comma, push, business, flag)
  BY <1>1, <1>2, <1>4, FieldsOf
<1> QED
  BY <1>3, <1>5, Zenon DEF id, push, business, flag, Fielded

\* The names between them hold a comma, and any other mark exactly if one of them does.
LEMMA NamesHold ==
    ASSUME NEW d \in Rows, NEW mark
    PROVE  Holds(NamesOf(d), mark) <=> Named(d, mark) \/ Comma = mark
<1> DEFINE push == d.PushName
           business == d.BusinessName
           first == Append(push, Comma)
<1>1. push \in Seq(Letters) /\ business \in Seq(Letters) /\ Comma \in Letters
  BY LineOfRow, SignsOfLists
<1>2. NamesOf(d) = first \o business
  BY Zenon DEF NamesOf, Middle
<1>3. Named(d, mark) <=> Holds(push, mark) \/ Holds(business, mark)
  BY Zenon DEF Named
<1> HIDE DEF push, business
<1>4. Holds(first, mark) <=> Holds(push, mark) \/ Comma = mark
  BY <1>1, HoldsAppend
<1>5. first \in Seq(Letters)
  BY <1>1
<1> HIDE DEF first
<1>6. Holds(first \o business, mark) <=> Holds(first, mark) \/ Holds(business, mark)
  BY <1>1, <1>5, HoldsConcat
<1> QED
  BY <1>2, <1>3, <1>4, <1>6, Zenon

\* The line holds a comma, and the separator exactly if a name does.
LEMMA LineHolds ==
    ASSUME NEW d \in Rows, NEW line, line = Line(String(d.ID), d)
    PROVE  /\ Holds(line, Comma)
           /\ Holds(line, Separator) <=> Named(d, Separator)
<1> DEFINE id == String(d.ID)
           names == NamesOf(d)
           flag == Bool(d.Initialized)
           start == Append(id, Comma)
           middle == Append(names, Comma)
           tail == <<flag>>
<1>1. /\ id \in Seq(Token) /\ names \in Seq(Letters)
      /\ LineOf(line, id, Comma, names, flag)
  BY LineOfRow
<1>2. /\ flag \in Letters /\ Comma \in Letters
      /\ flag # Separator /\ Comma # Separator
  BY LineOfRow, SignsOfLists
<1>13. Holds(names, Separator) <=> Named(d, Separator)
  BY <1>2, NamesHold
<1> HIDE DEF id, names, flag
<1>3. id \in Seq(Letters) /\ ~Holds(id, Separator)
  BY <1>1, AddressHoldsNoMark
<1>4. line = start \o (middle \o tail)
  BY <1>1 DEF LineOf
<1>5. \A c : Holds(start, c) <=> Holds(id, c) \/ Comma = c
  BY <1>2, <1>3, HoldsAppend
<1>6. \A c : Holds(middle, c) <=> Holds(names, c) \/ Comma = c
  BY <1>1, <1>2, HoldsAppend
<1>7. ~Holds(tail, Separator) /\ tail \in Seq(Letters)
  BY <1>2 DEF Holds, Contains
<1>8. start \in Seq(Letters) /\ middle \in Seq(Letters)
  BY <1>1, <1>2, <1>3
<1> HIDE DEF start, middle, tail
<1> DEFINE rest == middle \o tail
<1>9. \A c : Holds(rest, c) <=> Holds(middle, c) \/ Holds(tail, c)
  BY <1>7, <1>8, HoldsConcat
<1>10. rest \in Seq(Letters)
  BY <1>7, <1>8, ConcatParts
<1> HIDE DEF rest
<1>11. line = start \o rest
  BY <1>4 DEF rest
<1>12. \A c : Holds(start \o rest, c) <=> Holds(start, c) \/ Holds(rest, c)
  BY <1>8, <1>10, HoldsConcat
<1> QED
  BY <1>2, <1>3, <1>5, <1>6, <1>7, <1>9, <1>11, <1>12, <1>13

-----------------------------------------------------------------------------
(* What is read of the lines.                                              *)

FieldsIn(line) == Split(line, Comma)
IdOf(line) == Split(FieldsIn(line)[1], Sign("@"))
Fine(line) == Len(FieldsIn(line)) = 4 /\ Len(IdOf(line)) = 2
Entry(line) ==
    [JID |-> build_jid(IdOf(line)[1], IdOf(line)[2]), PushName |-> FieldsIn(line)[2],
     BusinessName |-> FieldsIn(line)[3], Initialized |-> FieldsIn(line)[4] = <<Sign("true")>>]

LEMMA LinesRead ==
    ASSUME NEW text, NEW lines, lines = IF text = <<>> THEN <<>> ELSE Split(text, Separator)
    PROVE  ReadLines(text) =
              IF \A i \in DOMAIN lines : Fine(lines[i])
              THEN [raised |-> FALSE, devices |-> [i \in DOMAIN lines |-> Entry(lines[i])]]
              ELSE [raised |-> TRUE, devices |-> <<>>]
  BY Zenon DEF ReadLines, Fine, Entry, IdOf, FieldsIn

\* The line of a plain row is fine, and its entry is the row's.
EntryOf(entry, d) ==
    /\ String(DecodeJidProto(entry.JID)) = String(d.ID)
    /\ entry.PushName = d.PushName
    /\ entry.BusinessName = d.BusinessName
    /\ entry.Initialized = d.Initialized
    /\ Reads(String(d.ID), entry.JID.User)

LEMMA PlainRow ==
    ASSUME NEW d \in Rows, NEW line, line = Line(String(d.ID), d), Plain(d)
    PROVE  Fine(line) /\ EntryOf(Entry(line), d)
<1>1. ~Named(d, Comma)
  BY Zenon DEF Plain
<1>2. /\ Len(FieldsIn(line)) = 4 /\ FieldsIn(line)[1] = String(d.ID)
      /\ FieldsIn(line)[2] = d.PushName /\ FieldsIn(line)[3] = d.BusinessName
      /\ FieldsIn(line)[4] = <<Bool(d.Initialized)>>
  BY <1>1, FieldsOfRow, Zenon DEF FieldsIn
<1>3. d.ID \in DeviceJids /\ d.Initialized \in BOOLEAN
  BY LineOfRow
<1>4. PICK user \in Seq(Token) : Reads(String(d.ID), user)
  BY <1>3, DeviceText
<1>5. IdOf(line) = <<user, DefaultUserServer>>
  BY <1>2, <1>4, ReadsType DEF IdOf
<1>6. Len(IdOf(line)) = 2 /\ IdOf(line)[1] = user /\ IdOf(line)[2] = DefaultUserServer
  BY <1>5
<1> DEFINE entry == Entry(line)
<1>7. /\ entry.JID = build_jid(user, DefaultUserServer)
      /\ entry.PushName = d.PushName /\ entry.BusinessName = d.BusinessName
      /\ entry.Initialized = (<<Bool(d.Initialized)>> = <<Sign("true")>>)
  BY <1>2, <1>6 DEF Entry
<1>8. entry.Initialized = d.Initialized
  <2>1. ASSUME NEW a, NEW b
        PROVE  <<a>> = <<b>> <=> a = b
    OBVIOUS
  <2>2. Bool(d.Initialized) = Sign("true") <=> d.Initialized
    BY <1>3, SignsOfLists
  <2>3. (<<Bool(d.Initialized)>> = <<Sign("true")>>) <=> d.Initialized
    BY <2>1, <2>2, Zenon
  <2>4. (<<Bool(d.Initialized)>> = <<Sign("true")>>) \in BOOLEAN
    OBVIOUS
  <2> QED
    BY <1>3, <1>7, <2>3, <2>4
<1>9. entry.JID.User = user
  BY <1>7 DEF build_jid, Wire
<1>10. String(DecodeJidProto(entry.JID)) = String(d.ID)
  BY <1>3, <1>4, <1>7, EntryText
<1>11. Fine(line)
  BY <1>2, <1>6, Zenon DEF Fine
<1> QED
  BY <1>4, <1>7, <1>8, <1>9, <1>10, <1>11, Zenon DEF EntryOf

-----------------------------------------------------------------------------
(* Lists.                                                                  *)

\* A line with a name that is not plain, unless its names hold the separator, a comma
\* and an @ between them, leaves a piece that is refused.
Spoiled(line) ==
    \E k \in DOMAIN Split(line, Separator) : ~Fine(Split(line, Separator)[k])

LEMMA SpoiledByComma ==
    ASSUME NEW d \in Rows, NEW line, line = Line(String(d.ID), d),
           Named(d, Comma), ~Named(d, Separator)
    PROVE  Spoiled(line)
<1>1. line \in Seq(Letters) /\ ~Holds(line, Separator)
  BY LineOfRow, LineHolds
<1>2. Split(line, Separator) = <<line>>
  BY <1>1, SplitWhole
<1>3. Len(Split(line, Comma)) # 4
  BY FieldsOfRow
<1>4. ~Fine(line)
  BY <1>3, Zenon DEF Fine, FieldsIn
<1>5. 1 \in DOMAIN <<line>> /\ <<line>>[1] = line
  OBVIOUS
<1> QED
  BY <1>2, <1>4, <1>5 DEF Spoiled

\* A separator after an opening text.
LEMMA OpenedAround ==
    ASSUME NEW T, NEW start \in Seq(T), NEW before \in Seq(T), NEW mark \in T,
           NEW after \in Seq(T), NEW comma \in T, NEW tail \in Seq(T), NEW push,
           Around(push, before, mark, after)
    PROVE  Around(start \o (Append(push, comma) \o tail),
                  start \o before, mark, Append(after, comma) \o tail)
<1> DEFINE first == Append(before, mark)
           last == Append(after, comma)
           head == start \o before
<1>1. first \in Seq(T) /\ last \in Seq(T) /\ head \in Seq(T)
  BY ConcatParts
<1>2. AppendsBehind(first, after, comma) /\ AppendsBehind(start, before, mark)
  BY <1>1, ConcatAppend
<1>3. push = first \o after
  BY DEF Around
<1>4. Append(first \o after, comma) = first \o last
  BY <1>2 DEF AppendsBehind
<1>5. Append(head, mark) = start \o first
  BY <1>2 DEF AppendsBehind
<1> HIDE DEF first, last, head
<1>6. Associates(first, last, tail)
  BY <1>1, ConcatAgain
<1> DEFINE rest == last \o tail
<1>7. rest \in Seq(T)
  BY <1>1, ConcatParts
<1>8. (first \o last) \o tail = first \o rest
  BY <1>6 DEF Associates
<1> HIDE DEF rest
<1>9. Associates(start, first, rest)
  BY <1>1, <1>7, ConcatAgain
<1>10. (start \o first) \o rest = start \o (first \o rest)
  BY <1>9 DEF Associates
<1>11. start \o (Append(push, comma) \o tail) = Append(head, mark) \o rest
  BY <1>3, <1>4, <1>5, <1>8, <1>10
<1> QED
  BY <1>11 DEF Around, head, rest, last

\* A piece without an @ is refused.
LEMMA NoAtRefused ==
    ASSUME NEW T, NEW piece \in Seq(T), ~Holds(piece, Sign("@"))
    PROVE  ~Fine(piece)
<1> SUFFICES ASSUME Fine(piece)
             PROVE  FALSE
  OBVIOUS
<1> DEFINE fields == Split(piece, Comma)
<1>1. Len(fields) = 4
  BY Zenon DEF Fine, FieldsIn
<1>2. \A k \in DOMAIN fields : ~Holds(fields[k], Sign("@"))
  BY PiecesHold
<1>3. fields \in Pieces(T)
  BY SplitType
<1>4. IdOf(piece) = Split(fields[1], Sign("@"))
  BY Zenon DEF IdOf, FieldsIn
<1> HIDE DEF fields
<1>5. fields[1] \in Seq(T) /\ 1 \in DOMAIN fields
  <2>1. ASSUME NEW S, NEW p \in Seq(S), p # <<>>
        PROVE  p[1] \in S /\ 1 \in DOMAIN p
    BY <2>1
  <2> QED
    BY <1>3, <2>1 DEF Pieces
<1> DEFINE one == fields[1]
<1>6. one \in Seq(T) /\ ~Holds(one, Sign("@"))
  BY <1>2, <1>5
<1>10. IdOf(piece) = Split(one, Sign("@"))
  BY <1>4
<1> HIDE DEF one
<1>7. Split(one, Sign("@")) = <<one>>
  BY <1>6, SplitWhole
<1>8. Len(IdOf(piece)) = 2
  BY Zenon DEF Fine
<1>9. Len(<<one>>) = 1
  OBVIOUS
<1>11. IdOf(piece) = <<one>>
  BY <1>7, <1>10
<1> QED
  BY <1>8, <1>9, <1>11

\* What is around a separator holds no more than the whole.
LEMMA AroundHolds ==
    ASSUME NEW T, NEW text, NEW before \in Seq(T), NEW mark \in T, NEW after \in Seq(T),
           Around(text, before, mark, after), NEW c, ~Holds(text, c)
    PROVE  ~Holds(before, c) /\ ~Holds(after, c)
<1> DEFINE first == Append(before, mark)
<1>1. first \in Seq(T) /\ text = first \o after
  BY DEF Around
<1>2. Holds(first, c) <=> Holds(before, c) \/ mark = c
  BY HoldsAppend
<1> HIDE DEF first
<1>3. Holds(first \o after, c) <=> Holds(first, c) \/ Holds(after, c)
  BY <1>1, HoldsConcat
<1> QED
  BY <1>1, <1>2, <1>3

LEMMA StartedAround ==
    ASSUME NEW T, NEW start \in Seq(T), NEW before \in Seq(T), NEW mark \in T,
           NEW after \in Seq(T), NEW text, Around(text, before, mark, after)
    PROVE  Around(start \o text, start \o before, mark, after)
<1> DEFINE first == Append(before, mark)
           head == start \o before
<1>1. first \in Seq(T) /\ text = first \o after
  BY DEF Around
<1>2. AppendsBehind(start, before, mark)
  BY ConcatAppend
<1>3. Append(head, mark) = start \o first
  BY <1>2 DEF AppendsBehind
<1> HIDE DEF first, head
<1>4. Associates(start, first, after)
  BY <1>1, ConcatAgain
<1>5. start \o text = Append(head, mark) \o after
  BY <1>1, <1>3, <1>4 DEF Associates
<1> QED
  BY <1>5 DEF Around, head

\* What is refused of a part is refused of the whole.
LEMMA SpoiledPart ==
    ASSUME NEW T, NEW text, NEW x \in Seq(T), Separator \in T, NEW y \in Seq(T),
           Around(text, x, Separator, y), Spoiled(x) \/ Spoiled(y)
    PROVE  Spoiled(text)
<1> DEFINE p == Split(x, Separator)
           q == Split(y, Separator)
<1>1. Split(text, Separator) = p \o q
  <2>1. text = Append(x, Separator) \o y
    BY DEF Around
  <2>2. Split(Append(x, Separator) \o y, Separator) =
            Split(x, Separator) \o Split(y, Separator)
    BY SplitBetween
  <2> QED
    BY <2>1, <2>2, Zenon
<1>2. p \in Pieces(T) /\ q \in Pieces(T)
  BY SplitType
<1>3. \/ \E k \in DOMAIN p : ~Fine(p[k])
      \/ \E k \in DOMAIN q : ~Fine(q[k])
  BY DEF Spoiled
<1> HIDE DEF p, q
<1>4. Among(q, p \o q) /\ Among(p, p \o q)
  <2>1. Among(p, p)
    BY Zenon DEF Among
  <2> QED
    BY <1>2, <2>1, AmongConcat DEF Pieces
<1>5. \E m \in DOMAIN (p \o q) : ~Fine((p \o q)[m])
  <2>1. CASE \E k \in DOMAIN p : ~Fine(p[k])
    BY <1>4, <2>1, Zenon DEF Among
  <2>2. CASE \E k \in DOMAIN q : ~Fine(q[k])
    BY <1>4, <2>2, Zenon DEF Among
  <2> QED
    BY <1>3, <2>1, <2>2
<1> QED
  BY <1>1, <1>5, Zenon DEF Spoiled

\* A text without a comma has a piece that is refused: each of them.
LEMMA NoCommaRefused ==
    ASSUME NEW T, NEW text \in Seq(T), ~Holds(text, Comma)
    PROVE  Spoiled(text)
<1> DEFINE q == Split(text, Separator)
<1>1. \A k \in DOMAIN q : ~Holds(q[k], Comma)
  BY PiecesHold
<1>2. q \in Pieces(T)
  BY SplitType
<1> HIDE DEF q
<1>3. 1 \in DOMAIN q /\ q[1] \in Seq(T)
  <2>1. ASSUME NEW S, NEW r \in Seq(S), r # <<>>
        PROVE  1 \in DOMAIN r /\ r[1] \in S
    BY <2>1
  <2> QED
    BY <1>2, <2>1 DEF Pieces
<1> DEFINE one == q[1]
<1>4. one \in Seq(T) /\ ~Holds(one, Comma)
  BY <1>1, <1>3
<1> HIDE DEF one
<1>5. Split(one, Comma) = <<one>>
  BY <1>4, SplitWhole
<1>6. Len(<<one>>) # 4
  OBVIOUS
<1>7. ~Fine(one)
  BY <1>5, <1>6 DEF Fine, FieldsIn
<1> QED
  BY <1>3, <1>7 DEF Spoiled, q, one

\* Nor has one without an @ a piece that is not.
LEMMA NoAtSpoils ==
    ASSUME NEW T, NEW text \in Seq(T), ~Holds(text, Sign("@"))
    PROVE  Spoiled(text)
<1> DEFINE q == Split(text, Separator)
<1>1. \A k \in DOMAIN q : ~Holds(q[k], Sign("@"))
  BY PiecesHold
<1>2. q \in Pieces(T)
  BY SplitType
<1> HIDE DEF q
<1>3. 1 \in DOMAIN q /\ q[1] \in Seq(T)
  <2>1. ASSUME NEW S, NEW r \in Seq(S), r # <<>>
        PROVE  1 \in DOMAIN r /\ r[1] \in S
    BY <2>1
  <2> QED
    BY <1>2, <2>1 DEF Pieces
<1>4. ~Fine(q[1])
  BY <1>1, <1>3, NoAtRefused
<1> QED
  BY <1>3, <1>4 DEF Spoiled, q

LEMMA SpoiledBySeparator ==
    ASSUME NEW d \in Rows, NEW line, line = Line(String(d.ID), d),
           Named(d, Separator), ~Named(d, Sign("@"))
    PROVE  Spoiled(line)
<1> DEFINE id == String(d.ID)
           names == NamesOf(d)
           flag == Bool(d.Initialized)
           start == Append(id, Comma)
           tail == <<flag>>
<1>1. /\ id \in Seq(Token) /\ names \in Seq(Letters)
      /\ LineOf(line, id, Comma, names, flag)
  BY LineOfRow
<1>2. /\ flag \in Letters /\ Comma \in Letters /\ Separator \in Letters
      /\ flag # Sign("@") /\ Comma # Sign("@")
  BY LineOfRow, SignsOfLists
<1>13. Holds(names, Separator) /\ ~Holds(names, Sign("@"))
  BY <1>2, NamesHold
<1> HIDE DEF id, names, flag
<1>3. id \in Seq(Letters)
  BY <1>1, AddressHoldsNoMark
<1>4. start \in Seq(Letters) /\ tail \in Seq(Letters)
  BY <1>2, <1>3
<1>5. ~Holds(tail, Sign("@"))
  BY <1>2 DEF Holds, Contains
<1>6. line = start \o (Append(names, Comma) \o tail)
  BY <1>1 DEF LineOf
<1> HIDE DEF start, tail
<1>7. PICK before \in Seq(Letters), after \in Seq(Letters) :
          Around(names, before, Separator, after)
  BY <1>1, <1>13, PartsAround
<1>8. ~Holds(after, Sign("@"))
  BY <1>2, <1>7, <1>13, AroundHolds
<1> DEFINE x == start \o before
           last == Append(after, Comma)
           y == last \o tail
<1>9. Around(line, x, Separator, y)
  BY <1>2, <1>4, <1>6, <1>7, OpenedAround
<1>10. x \in Seq(Letters) /\ last \in Seq(Letters) /\ ~Holds(last, Sign("@"))
  <2>1. Holds(last, Sign("@")) <=> Holds(after, Sign("@")) \/ Comma = Sign("@")
    BY <1>2, HoldsAppend
  <2>2. x \in Seq(Letters)
    BY <1>4, ConcatParts
  <2>3. last \in Seq(Letters)
    BY <1>2
  <2> QED
    BY <1>2, <1>8, <2>1, <2>2, <2>3
<1> HIDE DEF x, last
<1>11. y \in Seq(Letters) /\ ~Holds(y, Sign("@"))
  <2>1. Holds(y, Sign("@")) <=> Holds(last, Sign("@")) \/ Holds(tail, Sign("@"))
    BY <1>4, <1>10, HoldsConcat
  <2>2. y \in Seq(Letters)
    BY <1>4, <1>10, ConcatParts
  <2> QED
    BY <1>5, <1>10, <2>1, <2>2
<1> HIDE DEF y
<1>12. Spoiled(y)
  BY <1>11, NoAtSpoils
<1> QED
  BY <1>2, <1>9, <1>10, <1>11, <1>12, SpoiledPart

\* Names with a separator and no comma: it is before or behind the one between them,
\* which leaves none on its other side.
LEMMA NamesAround ==
    ASSUME NEW d \in Rows, Named(d, Separator), ~Named(d, Comma)
    PROVE  \E before, after \in Seq(Letters) :
              /\ Around(NamesOf(d), before, Separator, after)
              /\ ~Holds(before, Comma) \/ ~Holds(after, Comma)
<1> DEFINE push == d.PushName
           business == d.BusinessName
           first == Append(push, Comma)
<1>1. /\ push \in Seq(Letters) /\ business \in Seq(Letters)
      /\ Comma \in Letters /\ Separator \in Letters
  BY LineOfRow, SignsOfLists
<1>2. NamesOf(d) = first \o business
  BY Zenon DEF NamesOf, Middle
<1>3. /\ Holds(push, Separator) \/ Holds(business, Separator)
      /\ ~Holds(push, Comma) /\ ~Holds(business, Comma)
  BY Zenon DEF Named
<1> HIDE DEF push, business
<1>4. CASE Holds(push, Separator)
  <2>1. PICK b \in Seq(Letters), a \in Seq(Letters) : Around(push, b, Separator, a)
    BY <1>1, <1>4, PartsAround
  <2>2. ~Holds(b, Comma)
    BY <1>1, <1>3, <2>1, AroundHolds
  <2> DEFINE nothing == <<>>
             whole == first \o business
             last == Append(a, Comma)
             behind == last \o business
  <2>3. nothing \in Seq(Letters) /\ whole \in Seq(Letters) /\ last \in Seq(Letters)
    <3>1. first \in Seq(Letters)
      BY <1>1
    <3> HIDE DEF first
    <3>2. whole \in Seq(Letters)
      BY <1>1, <3>1, ConcatParts
    <3> QED
      BY <1>1, <3>2
  <2>4. \A p \in Seq(Letters) : nothing \o p = p
    OBVIOUS
  <2> HIDE DEF nothing
  <2>5. Around(nothing \o (Append(push, Comma) \o business), nothing \o b, Separator,
               Append(a, Comma) \o business)
    BY <1>1, <2>1, <2>3, OpenedAround
  <2> HIDE DEF whole, last
  <2>6. behind \in Seq(Letters)
    BY <1>1, <2>3, ConcatParts
  <2> HIDE DEF behind
  <2>7. Around(nothing \o whole, nothing \o b, Separator, behind)
    BY <2>5 DEF whole, behind, last
  <2>8. Around(whole, b, Separator, behind)
    BY <2>1, <2>3, <2>4, <2>7
  <2>9. NamesOf(d) = whole
    BY <1>2 DEF whole
  <2> QED
    BY <2>1, <2>2, <2>6, <2>8, <2>9
<1>5. CASE Holds(business, Separator)
  <2>1. PICK b \in Seq(Letters), a \in Seq(Letters) : Around(business, b, Separator, a)
    BY <1>1, <1>5, PartsAround
  <2>2. ~Holds(a, Comma)
    BY <1>1, <1>3, <2>1, AroundHolds
  <2>3. first \in Seq(Letters)
    BY <1>1
  <2> HIDE DEF first
  <2> DEFINE before == first \o b
  <2>4. Around(first \o business, before, Separator, a)
    BY <1>1, <2>1, <2>3, StartedAround
  <2>5. before \in Seq(Letters)
    BY <2>1, <2>3, ConcatParts
  <2> HIDE DEF before
  <2> QED
    BY <1>2, <2>1, <2>2, <2>4, <2>5
<1> QED
  BY <1>3, <1>4, <1>5

\* What has one comma between two pieces has two fields, or less in a part.
LEMMA TwoFieldsRefused ==
    ASSUME NEW p \in Seq(Letters), NEW q \in Seq(Letters), NEW text,
           text = Append(p, Comma) \o q, ~Holds(p, Comma), ~Holds(q, Comma),
           ~Holds(text, Separator), text \in Seq(Letters)
    PROVE  Spoiled(text)
<1>1. Comma \in Letters /\ Separator \in Letters
  BY SignsOfLists
<1>2. Split(text, Comma) = <<p, q>>
  BY <1>1, TwoPieces
<1>3. Split(text, Separator) = <<text>>
  BY <1>1, SplitWhole
<1>4. Len(<<p, q>>) = 2
  OBVIOUS
<1>5. ~Fine(text)
  BY <1>2, <1>4 DEF Fine, FieldsIn
<1>6. 1 \in DOMAIN <<text>> /\ <<text>>[1] = text
  OBVIOUS
<1> QED
  BY <1>3, <1>5, <1>6 DEF Spoiled

\* What is before the separator is refused, if it has no comma but the first.
LEMMA SpoiledBefore ==
    ASSUME NEW id \in Seq(Letters), ~Holds(id, Comma), ~Holds(id, Separator),
           NEW before \in Seq(Letters), ~Holds(before, Comma)
    PROVE  Spoiled(Append(id, Comma) \o before)
<1> DEFINE start == Append(id, Comma)
           x == start \o before
<1>1. Comma \in Letters /\ Separator \in Letters /\ Comma # Separator
  BY SignsOfLists
<1>2. start \in Seq(Letters)
  BY <1>1
<1>3. x \in Seq(Letters)
  <2> HIDE DEF start
  <2> QED
    BY <1>2, ConcatParts
<1>4. CASE ~Holds(before, Separator)
  <2>1. ~Holds(x, Separator)
    BY <1>1, <1>4, HoldsNeither
  <2>2. x = Append(id, Comma) \o before
    OBVIOUS
  <2> HIDE DEF start, x
  <2>3. Spoiled(x)
    BY <1>3, <2>1, <2>2, TwoFieldsRefused
  <2> QED
    BY <2>2, <2>3
<1>5. CASE Holds(before, Separator)
  <2>1. PICK ahead \in Seq(Letters), behind \in Seq(Letters) :
            Around(before, ahead, Separator, behind)
    BY <1>1, <1>5, PartsAround
  <2>2. ~Holds(behind, Comma)
    BY <1>1, <2>1, AroundHolds
  <2>3. Spoiled(behind)
    BY <2>2, NoCommaRefused
  <2> HIDE DEF start, x
  <2> DEFINE first == start \o ahead
  <2>4. first \in Seq(Letters)
    BY <1>2, ConcatParts
  <2>5. Around(x, first, Separator, behind)
    BY <1>1, <1>2, <2>1, StartedAround DEF x
  <2> HIDE DEF first
  <2>6. Spoiled(x)
    BY <1>1, <2>3, <2>4, <2>5, SpoiledPart
  <2> QED
    BY <2>6 DEF x, start
<1> QED
  BY <1>4, <1>5

\* What is behind it is refused, if it has no comma but the last.
LEMMA SpoiledAfter ==
    ASSUME NEW after \in Seq(Letters), ~Holds(after, Comma),
           NEW flag \in Letters, flag # Comma, flag # Separator
    PROVE  Spoiled(Append(after, Comma) \o <<flag>>)
<1> DEFINE tail == <<flag>>
           y == Append(after, Comma) \o tail
<1>1. Comma \in Letters /\ Separator \in Letters /\ Comma # Separator
  BY SignsOfLists
<1>2. tail \in Seq(Letters) /\ ~Holds(tail, Comma) /\ ~Holds(tail, Separator)
  BY DEF Holds, Contains
<1>3. Append(after, Comma) \in Seq(Letters)
  BY <1>1
<1> HIDE DEF tail
<1>4. y \in Seq(Letters)
  BY <1>2, <1>3, ConcatParts
<1>5. CASE ~Holds(after, Separator)
  <2>1. ~Holds(y, Separator)
    BY <1>1, <1>2, <1>5, HoldsNeither
  <2>2. y = Append(after, Comma) \o tail
    OBVIOUS
  <2> HIDE DEF y
  <2>3. Spoiled(y)
    BY <1>2, <1>4, <2>1, <2>2, TwoFieldsRefused
  <2> QED
    BY <2>2, <2>3 DEF tail
<1>6. CASE Holds(after, Separator)
  <2>1. PICK ahead \in Seq(Letters), behind \in Seq(Letters) :
            Around(after, ahead, Separator, behind)
    BY <1>1, <1>6, PartsAround
  <2>2. ~Holds(ahead, Comma)
    BY <1>1, <2>1, AroundHolds
  <2>3. Spoiled(ahead)
    BY <2>2, NoCommaRefused
  <2> DEFINE nothing == <<>>
             last == Append(behind, Comma)
             rest == last \o tail
  <2>4. nothing \in Seq(Letters) /\ last \in Seq(Letters)
    BY <1>1
  <2>5. \A p \in Seq(Letters) : nothing \o p = p
    OBVIOUS
  <2> HIDE DEF nothing
  <2>6. Around(nothing \o (Append(after, Comma) \o tail), nothing \o ahead, Separator,
               Append(behind, Comma) \o tail)
    BY <1>1, <1>2, <2>1, <2>4, OpenedAround
  <2> HIDE DEF last
  <2>7. rest \in Seq(Letters)
    BY <1>2, <2>4, ConcatParts
  <2> HIDE DEF rest
  <2>8. Around(nothing \o y, nothing \o ahead, Separator, rest)
    BY <2>6 DEF rest, last
  <2> HIDE DEF y
  <2>9. Around(y, ahead, Separator, rest)
    BY <1>4, <2>1, <2>5, <2>8
  <2>10. Spoiled(y)
    BY <1>1, <2>1, <2>3, <2>7, <2>9, SpoiledPart
  <2> QED
    BY <2>10 DEF y, tail
<1> QED
  BY <1>5, <1>6

LEMMA SpoiledWithoutComma ==
    ASSUME NEW d \in Rows, NEW line, line = Line(String(d.ID), d),
           Named(d, Separator), ~Named(d, Comma)
    PROVE  Spoiled(line)
<1> DEFINE id == String(d.ID)
           names == NamesOf(d)
           flag == Bool(d.Initialized)
           start == Append(id, Comma)
           tail == <<flag>>
<1>1. /\ id \in Seq(Token) /\ names \in Seq(Letters)
      /\ LineOf(line, id, Comma, names, flag)
  BY LineOfRow
<1>2. /\ flag \in Letters /\ Comma \in Letters /\ Separator \in Letters
      /\ flag # Comma /\ flag # Separator
  BY LineOfRow, SignsOfLists
<1>3. PICK before \in Seq(Letters), after \in Seq(Letters) :
          /\ Around(names, before, Separator, after)
          /\ ~Holds(before, Comma) \/ ~Holds(after, Comma)
  BY NamesAround
<1> HIDE DEF id, names, flag
<1>4. id \in Seq(Letters) /\ ~Holds(id, Comma) /\ ~Holds(id, Separator)
  BY <1>1, AddressHoldsNoMark
<1>5. start \in Seq(Letters) /\ tail \in Seq(Letters)
  BY <1>2, <1>4
<1>6. line = start \o (Append(names, Comma) \o tail)
  BY <1>1 DEF LineOf
<1> DEFINE x == start \o before
           last == Append(after, Comma)
           y == last \o tail
<1>7. /\ ~Holds(before, Comma) => Spoiled(x)
      /\ ~Holds(after, Comma) => Spoiled(y)
  BY <1>2, <1>3, <1>4, SpoiledBefore, SpoiledAfter
<1> HIDE DEF start, tail
<1>8. Around(line, x, Separator, y)
  BY <1>2, <1>3, <1>5, <1>6, OpenedAround
<1>9. x \in Seq(Letters) /\ y \in Seq(Letters)
  <2>1. x \in Seq(Letters) /\ last \in Seq(Letters)
    BY <1>2, <1>3, <1>5, ConcatParts
  <2> HIDE DEF last
  <2> QED
    BY <1>5, <2>1, ConcatParts
<1> HIDE DEF x, y
<1> QED
  BY <1>2, <1>3, <1>7, <1>8, <1>9, SpoiledPart

\* The lines of a table, joined.
LinesOf(devices) == [i \in DOMAIN devices |-> Line(String(devices[i].ID), devices[i])]

LEMMA LinesJoined ==
    ASSUME NEW s \in Seq(Rows)
    PROVE  /\ LinesOf(s) \in Seq(Seq(Letters)) /\ DOMAIN LinesOf(s) = DOMAIN s
           /\ GetAllDevices(s) = JoinWith(LinesOf(s), Separator)
           /\ \A i \in DOMAIN s :
                 s[i] \in Rows /\ LinesOf(s)[i] = Line(String(s[i].ID), s[i])
<1>1. \A i \in DOMAIN s : s[i] \in Rows
  OBVIOUS
<1>2. \A i \in DOMAIN s : Line(String(s[i].ID), s[i]) \in Seq(Letters)
  BY <1>1, LineOfRow
<1>3. /\ DOMAIN LinesOf(s) = DOMAIN s
      /\ \A i \in DOMAIN s : LinesOf(s)[i] = Line(String(s[i].ID), s[i])
  BY Zenon DEF LinesOf
<1>4. GetAllDevices(s) = JoinWith(LinesOf(s), Separator)
  BY Zenon DEF GetAllDevices, LinesOf
<1>5. LinesOf(s) \in Seq(Seq(Letters))
  <2> DEFINE S == Seq(Letters)
             f == LinesOf(s)
             n == Len(s)
  <2>1. n \in Nat /\ DOMAIN s = 1 .. n
    OBVIOUS
  <2>2. f = [i \in 1 .. n |-> f[i]] /\ \A i \in 1 .. n : f[i] \in S
    BY <1>2, <1>3, <2>1 DEF LinesOf
  <2> HIDE DEF S, f, n
  <2>3. [i \in 1 .. n |-> f[i]] \in Seq(S)
    BY <2>1, <2>2
  <2> QED
    BY <2>2, <2>3 DEF S, f
<1> QED
  BY <1>1, <1>3, <1>4, <1>5

\* The text of a list of some is not empty, and what is read are all their pieces.
LEMMA LinesSplit ==
    ASSUME NEW s \in Seq(Rows), NEW i \in DOMAIN s
    PROVE  /\ GetAllDevices(s) # <<>>
           /\ Among(Split(LinesOf(s)[i], Separator), Split(GetAllDevices(s), Separator))
<1> DEFINE lines == LinesOf(s)
           text == GetAllDevices(s)
<1>1. /\ lines \in Seq(Seq(Letters)) /\ i \in DOMAIN lines
      /\ text = JoinWith(lines, Separator) /\ s[i] \in Rows
      /\ lines[i] = Line(String(s[i].ID), s[i])
  BY LinesJoined
<1>2. Separator \in Letters
  BY SignsOfLists
<1>3. Holds(lines[i], Comma)
  BY <1>1, LineHolds
<1> HIDE DEF lines, text
<1>4. Among(Split(lines[i], Separator), Split(text, Separator))
  BY <1>1, <1>2, JoinKeeps
<1>5. Holds(text, Comma)
  BY <1>1, <1>2, <1>3, JoinKeeps
<1>6. text # <<>>
  BY <1>5 DEF Holds, Contains
<1> QED
  BY <1>4, <1>6 DEF lines, text

\* ListingIsTrue, of what is read of a table.
ReadsTrue(s, list) ==
    /\ (\A i \in DOMAIN s : Plain(s[i])) =>
          /\ ~list.raised
          /\ DOMAIN list.devices = DOMAIN s
          /\ Len(list.devices) = Len(s)
          /\ \A i \in DOMAIN s : EntryOf(list.devices[i], s[i])
    /\ \A i \in DOMAIN s :
          Plain(s[i]) \/ list.raised \/ MayForge(s[i])

LEMMA PlainList ==
    ASSUME NEW s \in Seq(Rows), \A i \in DOMAIN s : Plain(s[i])
    PROVE  LET list == ReadLines(GetAllDevices(s))
           IN  /\ ~list.raised
               /\ DOMAIN list.devices = DOMAIN s
               /\ Len(list.devices) = Len(s)
               /\ \A i \in DOMAIN s : EntryOf(list.devices[i], s[i])
<1> DEFINE text == GetAllDevices(s)
           lines == LinesOf(s)
<1>1. /\ lines \in Seq(Seq(Letters)) /\ DOMAIN lines = DOMAIN s
      /\ text = JoinWith(lines, Separator)
      /\ \A i \in DOMAIN s : s[i] \in Rows /\ lines[i] = Line(String(s[i].ID), s[i])
  BY LinesJoined
<1>2. lines = IF text = <<>> THEN <<>> ELSE Split(text, Separator)
  <2>1. CASE s = <<>>
    <3>1. lines = <<>>
      BY <2>1 DEF LinesOf
    <3> HIDE DEF lines
    <3>2. JoinWith(<<>>, Separator) = <<>>
      BY JoinNothing
    <3>3. text = <<>>
      BY <1>1, <3>1, <3>2
    <3> QED
      BY <3>1, <3>3
  <2>2. CASE s # <<>>
    <3>1. 1 \in DOMAIN s
      BY <2>2
    <3>2. text # <<>>
      BY <3>1, LinesSplit
    <3>3. \A i \in DOMAIN lines : ~Holds(lines[i], Separator)
      BY <1>1, LineHolds DEF Plain
    <3>4. Separator \in Letters
      BY SignsOfLists
    <3>5. lines # <<>>
      BY <1>1, <3>1
    <3> HIDE DEF lines, text
    <3>6. Split(JoinWith(lines, Separator), Separator) = lines
      BY <1>1, <3>3, <3>4, <3>5, SplitJoin
    <3> QED
      BY <1>1, <3>2, <3>6
  <2> QED
    BY <2>1, <2>2
<1> DEFINE list == ReadLines(text)
           entries == [i \in DOMAIN lines |-> Entry(lines[i])]
<1>3. list = IF \A i \in DOMAIN lines : Fine(lines[i])
             THEN [raised |-> FALSE, devices |-> entries]
             ELSE [raised |-> TRUE, devices |-> <<>>]
  BY <1>2, LinesRead
<1>4. \A i \in DOMAIN s : Fine(lines[i]) /\ EntryOf(Entry(lines[i]), s[i])
  BY <1>1, PlainRow
<1>5. DOMAIN entries = DOMAIN s /\ \A i \in DOMAIN s : entries[i] = Entry(lines[i])
  BY <1>1
<1>6. Len(entries) = Len(s)
  <2> DEFINE n == Len(s)
  <2>1. n \in Nat /\ DOMAIN s = 1 .. n
    OBVIOUS
  <2>2. entries = [i \in 1 .. n |-> Entry(lines[i])]
    BY <1>1, <2>1
  <2> HIDE DEF n, entries
  <2>3. Len(entries) = n
    BY <2>1, <2>2
  <2> QED
    BY <2>3 DEF n
<1> HIDE DEF lines, text, entries, list
<1>7. list = [raised |-> FALSE, devices |-> entries]
  BY <1>1, <1>3, <1>4, Zenon
<1>8. list.raised = FALSE /\ list.devices = entries
  BY <1>7
<1>9. \A i \in DOMAIN s : EntryOf(list.devices[i], s[i])
  BY <1>4, <1>5, <1>8, Zenon
<1> QED
  BY <1>5, <1>6, <1>8, <1>9 DEF list, text

LEMMA SpoiledList ==
    ASSUME NEW s \in Seq(Rows), NEW i \in DOMAIN s, ~Plain(s[i]),
           ~MayForge(s[i])
    PROVE  ReadLines(GetAllDevices(s)).raised
<1> DEFINE text == GetAllDevices(s)
           line == LinesOf(s)[i]
           pieces == Split(text, Separator)
<1>1. /\ s[i] \in Rows /\ line = Line(String(s[i].ID), s[i])
  BY LinesJoined
<1>2. text # <<>> /\ Among(Split(line, Separator), pieces)
  BY LinesSplit
<1> HIDE DEF line, text
<1>3. Spoiled(line)
  <2>1. CASE Named(s[i], Separator)
    <3>1. ~Named(s[i], Sign("@")) \/ ~Named(s[i], Comma)
      BY <2>1, Zenon DEF MayForge
    <3> QED
      BY <1>1, <2>1, <3>1, SpoiledBySeparator, SpoiledWithoutComma
  <2>2. CASE ~Named(s[i], Separator)
    <3>1. Named(s[i], Comma)
      BY <2>2, Zenon DEF Plain
    <3> QED
      BY <1>1, <2>2, <3>1, SpoiledByComma
  <2> QED
    BY <2>1, <2>2
<1>4. PICK k \in DOMAIN Split(line, Separator) : ~Fine(Split(line, Separator)[k])
  BY <1>3 DEF Spoiled
<1>5. PICK m \in DOMAIN pieces : pieces[m] = Split(line, Separator)[k]
  BY <1>2, <1>4, Zenon DEF Among
<1>6. ~Fine(pieces[m])
  BY <1>4, <1>5
<1> DEFINE list == ReadLines(text)
           lines == IF text = <<>> THEN <<>> ELSE pieces
           entries == [j \in DOMAIN lines |-> Entry(lines[j])]
<1>7. list = IF \A j \in DOMAIN lines : Fine(lines[j])
             THEN [raised |-> FALSE, devices |-> entries]
             ELSE [raised |-> TRUE, devices |-> <<>>]
  BY LinesRead
<1>8. lines = pieces
  BY <1>2
<1> HIDE DEF list, lines, entries, pieces
<1>9. list = [raised |-> TRUE, devices |-> <<>>]
  BY <1>5, <1>6, <1>7, <1>8, Zenon
<1>10. list.raised
  BY <1>9
<1> QED
  BY <1>10 DEF list, text

LEMMA ListRead ==
    ASSUME NEW s \in Seq(Rows)
    PROVE  ReadsTrue(s, ReadLines(GetAllDevices(s)))
<1> DEFINE list == ReadLines(GetAllDevices(s))
<1>1. (\A i \in DOMAIN s : Plain(s[i])) =>
          /\ ~list.raised
          /\ DOMAIN list.devices = DOMAIN s
          /\ Len(list.devices) = Len(s)
          /\ \A i \in DOMAIN s : EntryOf(list.devices[i], s[i])
  BY PlainList
<1>2. ASSUME NEW i \in DOMAIN s
      PROVE  Plain(s[i]) \/ list.raised \/ MayForge(s[i])
  BY <1>2, SpoiledList
<1> HIDE DEF list
<1>3. ReadsTrue(s, list)
  BY <1>1, <1>2, Zenon DEF ReadsTrue
<1> QED
  BY <1>3 DEF list

\* A device has a text of its own.
LEMMA DeviceOfText ==
    ASSUME NEW d \in DeviceJids, NEW e \in DeviceJids, String(d) = String(e)
    PROVE  d = e
<1>1. \A jid \in {d, e} :
          /\ jid.User \in Seq(Names) /\ jid.Server \in Seq(Names)
          /\ jid.RawAgent \in Nat /\ jid.RawAgent < 256
          /\ jid.Device \in Nat /\ jid.Device < 65536
  BY DeviceParts
<1>2. Jid2String(d) = Jid2String(e)
  BY DeviceParts
<1>3. /\ d.User = e.User /\ d.RawAgent = e.RawAgent /\ d.Device = e.Device
      /\ d.Server = e.Server
  BY <1>1, <1>2, OneText
<1>4. ASSUME NEW jid \in DeviceJids
      PROVE  jid = [User |-> jid.User, RawAgent |-> jid.RawAgent, Device |-> jid.Device,
                    Integrator |-> 0, Server |-> jid.Server]
  <2>1. jid \in [User : Seq(Names) \ {<<>>}, RawAgent : Nat, Device : Nat,
                 Integrator : {0}, Server : {DefaultUserServer}]
    BY DevicesAssumption
  <2> QED
    BY <2>1
<1>5. /\ d = [User |-> d.User, RawAgent |-> d.RawAgent, Device |-> d.Device,
              Integrator |-> 0, Server |-> d.Server]
      /\ e = [User |-> e.User, RawAgent |-> e.RawAgent, Device |-> e.Device,
              Integrator |-> 0, Server |-> e.Server]
  BY <1>4
<1> QED
  BY <1>3, <1>5

\* What listing and opening keep: the list is what is read of the table it was made
\* from, and whatever was opened of a list of plain names is one device, under the
\* text of it up to the server.
Opened(o) ==
    \E d \in DeviceJids :
        o.meant = {d} /\ o.found = o.present /\ Reads(String(d), o.key)

ListedInv ==
    /\ ReadsTrue(seen, listing)
    /\ \A o \in opened : o.meant # {} => Opened(o)

LEMMA ListedKept ==
    ASSUME AccountsInv, ListedInv, [Next]_vars
    PROVE  ListedInv'
<1>1. CASE UNCHANGED <<seen, listing, opened>>
  BY <1>1 DEF ListedInv
<1>2. CASE ListDevices
  <2>1. seen' = table /\ listing' = ReadLines(GetAllDevices(table)) /\ opened' = opened
    BY <1>2, Zenon DEF ListDevices
  <2>2. table \in Seq(Rows)
    BY DEF AccountsInv
  <2>3. ReadsTrue(table, ReadLines(GetAllDevices(table)))
    BY <2>2, ListRead
  <2> QED
    BY <2>1, <2>3 DEF ListedInv
<1>3. ASSUME NEW i \in DOMAIN listing.devices, OpenListed(i)
      PROVE  ListedInv'
  <2> DEFINE plain == \A j \in DOMAIN seen : Plain(seen[j])
             meant == IF plain THEN {seen[i].ID} ELSE {}
             jid == listing.devices[i].JID
             o == [key |-> jid.User, meant |-> meant,
                   present |-> UNION {GetDevice(table, id) : id \in meant},
                   found |-> GetDevice(table, DecodeJidProto(jid))]
  <2>1. /\ seen' = seen /\ listing' = listing /\ opened' = opened \cup {o}
    BY <1>3, Zenon DEF OpenListed
  <2>2. ASSUME o.meant # {}
        PROVE  Opened(o)
    <3>1. o.meant = meant
      OBVIOUS
    <3>2. plain
      BY <2>2, <3>1
    <3>3. /\ DOMAIN listing.devices = DOMAIN seen
          /\ \A j \in DOMAIN seen : EntryOf(listing.devices[j], seen[j])
      BY <3>2, Zenon DEF ListedInv, ReadsTrue
    <3>4. i \in DOMAIN seen
      BY <3>3
    <3> DEFINE d == seen[i].ID
    <3>5. String(DecodeJidProto(jid)) = String(d) /\ Reads(String(d), jid.User)
      BY <3>3, <3>4, Zenon DEF EntryOf
    <3>6. d \in DeviceJids
      <4>1. \A r \in Rows : r.ID \in DeviceJids
        BY DEF Rows
      <4>2. seen[i] \in Rows
        BY <3>4 DEF AccountsInv
      <4> QED
        BY <4>1, <4>2
    <3>7. meant = {d}
      BY <3>2
    <3>8. GetDevice(table, DecodeJidProto(jid)) = GetDevice(table, d)
      BY <3>5, Zenon DEF GetDevice
    <3> HIDE DEF d, jid, plain, meant
    <3>9. UNION {GetDevice(table, id) : id \in meant} = GetDevice(table, d)
      BY <3>7
    <3>10. o.found = o.present /\ o.meant = {d} /\ o.key = jid.User
      BY <3>7, <3>8, <3>9
    <3> HIDE DEF o
    <3> QED
      BY <3>5, <3>6, <3>10 DEF Opened
  <2> HIDE DEF o
  <2> QED
    BY <2>1, <2>2 DEF ListedInv
<1>4. CASE AccountNext
  <2>1. ASSUME NEW p \in DeviceJids, NEW push \in PushNames,
               NEW business \in BusinessNames, NEW b \in BOOLEAN,
               AddDevice(p, push, business, b)
        PROVE  ListedInv'
    BY <1>1, <2>1, Zenon DEF AddDevice
  <2>2. ASSUME NEW i \in DOMAIN table, RemoveDevice(i)
        PROVE  ListedInv'
    BY <1>1, <2>2, Zenon DEF RemoveDevice
  <2>3. ASSUME NEW i \in DOMAIN table, NEW push \in PushNames, RenameDevice(i, push)
        PROVE  ListedInv'
    BY <1>1, <2>3, Zenon DEF RenameDevice
  <2>4. ASSUME NEW chat \in ChatJids, NEW seconds \in Durations,
               put_muted_until(chat, seconds)
        PROVE  ListedInv'
    BY <1>1, <2>4 DEF put_muted_until, accounts
  <2>5. ASSUME NEW chat \in ChatJids, NEW b \in BOOLEAN,
               put_pinned(chat, b) \/ put_archived(chat, b)
        PROVE  ListedInv'
    BY <1>1, <2>5 DEF put_pinned, put_archived, accounts
  <2>6. ASSUME NEW chat \in ChatJids, get_chat_settings(chat)
        PROVE  ListedInv'
    BY <1>1, <2>6 DEF get_chat_settings, accounts
  <2> QED
    BY <1>2, <1>3, <1>4, <2>1, <2>2, <2>3, <2>4, <2>5, <2>6, Zenon DEF AccountNext
<1>5. CASE ~AccountNext
  BY <1>1, <1>5 DEF Next, vars, accountVars, accounts, Fresh, AskAddress, AskKey,
                    AskContent, AskUpload, AskTexts, AskViewed, AskPicture, AskName
<1> QED
  BY <1>4, <1>5

LEMMA ListedAlways == Spec => [](AccountsInv /\ ListedInv)
<1>1. Init => ListedInv
  <2> SUFFICES ASSUME Init
               PROVE  ListedInv
    OBVIOUS
  <2>1. seen = <<>> /\ opened = {} /\ listing = [raised |-> FALSE, devices |-> <<>>]
    BY DEF Init, AccountInit
  <2>2. DOMAIN seen = {} /\ listing.raised = FALSE /\ listing.devices = seen
    BY <2>1
  <2>3. ReadsTrue(seen, listing)
    BY <2>2 DEF ReadsTrue
  <2> QED
    BY <2>1, <2>3 DEF ListedInv
<1>2. AccountsInv /\ ListedInv /\ [Next]_vars => ListedInv'
  BY ListedKept
<1> QED
  BY <1>1, <1>2, AccountsKept, PTL DEF Spec

\* The list of devices is the table as it was when it was listed, in order and whole,
\* if all push names and business names are plain; it is refused, all of it, as soon
\* as one is not, unless the names of one device hold the separator, a comma and an @
\* between them: of any table, with any names and devices.
THEOREM ListingAlwaysTrue == Spec => []ListingIsTrue
<1>1. ListedInv => ListingIsTrue
  BY Zenon DEF ListedInv, ReadsTrue, EntryOf, ListingIsTrue
<1> QED
  BY <1>1, ListedAlways, PTL

\* A client made from a list of plain names opens the device it stands for, if it is
\* still there, and no two devices share a key, whatever logged in and out, changed
\* its name or was listed in between.
THEOREM ListedAlwaysFound == Spec => []ListedIsFound
<1>1. ASSUME ListedInv
      PROVE  ListedIsFound
  <2>1. \A o \in opened : o.meant # {} => o.found = o.present
    BY <1>1, Zenon DEF ListedInv, Opened
  <2>2. ASSUME NEW o \in opened, NEW p \in opened, o.key = p.key, o.meant # {},
               p.meant # {}
        PROVE  o.meant = p.meant
    <3>1. PICK d \in DeviceJids : o.meant = {d} /\ Reads(String(d), o.key)
      BY <1>1, <2>2, Zenon DEF ListedInv, Opened
    <3>2. PICK e \in DeviceJids : p.meant = {e} /\ Reads(String(e), p.key)
      BY <1>1, <2>2, Zenon DEF ListedInv, Opened
    <3>3. String(d) = String(e)
      BY <2>2, <3>1, <3>2, Zenon DEF Reads
    <3>4. d = e
      BY <3>3, DeviceOfText
    <3> QED
      BY <3>1, <3>2, <3>4
  <2> QED
    BY <2>1, <2>2, Zenon DEF ListedIsFound
<1>2. ListedInv => ListedIsFound
  BY <1>1
<1> QED
  BY <1>2, ListedAlways, PTL
=============================================================================
