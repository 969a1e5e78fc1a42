------------------------------ MODULE MCValues ------------------------------
EXTENDS Values

User(n) == <<Name(n)>>
Group == <<Name(9)>>

\* Two devices of one user and one of another.
MCDeviceJids ==
    {[User |-> User(u[1]), RawAgent |-> 0, Device |-> u[2], Integrator |-> 0,
      Server |-> DefaultUserServer] : u \in {<<1, 1>>, <<1, 2>>, <<2, 1>>}}

\* What breaks a line is in either name; most accounts have no business name.
MCPushNames == {<<>>, <<Name(3), Sign("@"), Name(4)>>, <<Separator>>}
MCBusinessNames == {<<>>, <<Name(3), Comma, Name(4)>>}

MCChatJids == {build_jid(User(1), DefaultUserServer), build_jid(User(5), Group)}

\* A week, a year and a day and a second, a time of this century.
MCDurations == {604800, 31622401, 1700000001}

\* The last are those of listed devices, whose user holds the device.
MCWireJids ==
    {Wire(user, agent, device, integrator, server, FALSE) :
        user \in {<<>>, User(1)},
        agent \in {0, 1, 256, 257}, device \in {0, 5, 65535, 65536},
        integrator \in {0, 65537}, server \in {<<>>, DefaultUserServer, Group}}
    \cup {build_jid(d.User \o <<Sign(":"), Num(d.Device)>>, DefaultUserServer) :
             d \in MCDeviceJids}

MCKeyJids ==
    {EncodeJidProto(DecodeJidProto(Wire(user, 0, device, 0, server, FALSE))) :
        user \in {<<>>, User(1), User(2)}, device \in {0, 5},
        server \in {<<>>, DefaultUserServer, Group}}

\* Up to two of a list tell all there is to tell.
Pairs(S) == {<<>>} \cup {<<s>> : s \in S} \cup {<<s, t>> : s, t \in S}

MCTextLists == Pairs({<<Name(1)>>, <<Name(2)>>, <<Name(1), Space, Name(2)>>})
MCIdLists == Pairs({0, 1, 127, 128, 300})
MCSides == {1, 2, 3, 100, 199, 200, 201, 202, 399, 400, 512, 513, 640, 1001, 1920}
=============================================================================
