--------------------------- MODULE BridgeCallsProofs ---------------------------
(***************************************************************************)
(* What holds of any number of threads calling any of the methods.  The    *)
(* table of exports and the table of methods are shown to have only        *)
(* entries of a known shape; the rest is an induction over the steps.      *)
(***************************************************************************)
EXTENDS BridgeCalls, TLAPS

-----------------------------------------------------------------------------
(* The table of exports.                                                   *)

Tellings ==
    {"reported", "silent", "dropped", "panics", "always", "never", "partly"}

\* What an entry of the table of exports may be.
Entry(op, k) ==
    /\ k \in Tellings
    /\ k = "dropped" => op \in Unacknowledged
    /\ k \in {"panics", "never"} => op \in FatalExports
    /\ k \in {"always", "partly"} => op \in FatalWhenDone

\* Every entry of the eleven groups of exports (main.go, contact_store.go,
\* chat_settings_store.go) is one of these.
LEMMA TableEntries ==
    \A g \in ExportGroups : \A op \in DOMAIN g : Entry(op, g[op])
<1>1. \A op \in DOMAIN MessageExports : Entry(op, MessageExports[op])
  BY DEF MessageExports, Entry, Tellings, FatalExports, FatalWhenDone
<1>2. \A op \in DOMAIN LookupExports : Entry(op, LookupExports[op])
  BY DEF LookupExports, Entry, Tellings
<1>3. \A op \in DOMAIN GroupExports : Entry(op, GroupExports[op])
  BY DEF GroupExports, Entry, Tellings
<1>4. \A op \in DOMAIN PresenceExports : Entry(op, PresenceExports[op])
  BY DEF PresenceExports, Entry, Tellings, Unacknowledged
<1>5. \A op \in DOMAIN NewsletterExports : Entry(op, NewsletterExports[op])
  BY DEF NewsletterExports, Entry, Tellings, FatalExports, FatalWhenDone
<1>6. \A op \in DOMAIN SettingExports : Entry(op, SettingExports[op])
  BY DEF SettingExports, Entry, Tellings, FatalExports, FatalWhenDone
<1>7. \A op \in DOMAIN PrivacyExports : Entry(op, PrivacyExports[op])
  BY DEF PrivacyExports, Entry, Tellings
<1>8. \A op \in DOMAIN ProfileExports : Entry(op, ProfileExports[op])
  BY DEF ProfileExports, Entry, Tellings, Unacknowledged
<1>9. \A op \in DOMAIN DeviceExports : Entry(op, DeviceExports[op])
  BY DEF DeviceExports, Entry, Tellings, FatalExports, FatalWhenDone
<1>10. \A op \in DOMAIN ContactExports : Entry(op, ContactExports[op])
  BY DEF ContactExports, Entry, Tellings
<1>11. \A op \in DOMAIN ChatSettingExports : Entry(op, ChatSettingExports[op])
  BY DEF ChatSettingExports, Entry, Tellings
<1> QED
  BY <1>1, <1>2, <1>3, <1>4, <1>5, <1>6, <1>7, <1>8, <1>9, <1>10, <1>11
  DEF ExportGroups

\* What Tells says of an export is such an entry.
LEMMA TellsEntry == \A op \in Exports : Entry(op, Tells[op])
<1> SUFFICES ASSUME NEW op \in Exports
             PROVE  Entry(op, Tells[op])
  OBVIOUS
<1> DEFINE g == CHOOSE h \in ExportGroups : op \in DOMAIN h
<1>1. \E h \in ExportGroups : op \in DOMAIN h
  BY DEF Exports
<1>2. g \in ExportGroups /\ op \in DOMAIN g
  BY <1>1
<1>3. Tells[op] = g[op]
  BY DEF Tells
<1> QED
  BY <1>2, <1>3, TableEntries

\* The names of every group are exports.
LEMMA GroupsAreExports ==
    /\ DOMAIN MessageExports \subseteq Exports
    /\ DOMAIN LookupExports \subseteq Exports
    /\ DOMAIN GroupExports \subseteq Exports
    /\ DOMAIN PresenceExports \subseteq Exports
    /\ DOMAIN NewsletterExports \subseteq Exports
    /\ DOMAIN SettingExports \subseteq Exports
    /\ DOMAIN PrivacyExports \subseteq Exports
    /\ DOMAIN ProfileExports \subseteq Exports
    /\ DOMAIN DeviceExports \subseteq Exports
    /\ DOMAIN ContactExports \subseteq Exports
    /\ DOMAIN ChatSettingExports \subseteq Exports
<1>1. \A g \in ExportGroups : DOMAIN g \subseteq Exports
  BY DEF Exports
<1> QED
  BY <1>1 DEF ExportGroups

-----------------------------------------------------------------------------
(* The table of methods.                                                   *)

\* A path through a method: exports only, and none whose error does not
\* surface has another after it.
Path(s) ==
    /\ s \in Seq(Exports)
    /\ \A i \in 1 .. Len(s) : i < Len(s) => s[i] \notin Unacknowledged

\* A method that calls no export.
LEMMA EmptyPath == Path(<<>>)
  BY DEF Path

\* A method that calls one.
LEMMA OneExport == \A op \in Exports : Path(<<op>>)
  BY DEF Path

\* A method that calls two, the first of which tells of its error.
LEMMA TwoExports ==
    \A a, b \in Exports : a \notin Unacknowledged => Path(<<a, b>>)
  BY DEF Path

\* Every path through the ContactStore and ChatSettingsStore methods of client.py is one.
LEMMA StorePaths == \A m \in DOMAIN StoreMethods : \A s \in StoreMethods[m] : Path(s)
<1> DEFINE Names ==
      {"PutPushName", "PutContactName", "PutAllContactNames", "GetContact",
       "GetAllContacts", "PutMutedUntil", "PutPinned", "PutArchived",
       "GetChatSettings"}
<1>1. Names \subseteq Exports
  BY GroupsAreExports DEF DeviceExports, ContactExports, ChatSettingExports
<1>2. \A a \in Names : Path(<<a>>)
  BY <1>1, OneExport
<1> QED
  BY <1>1, <1>2, EmptyPath, TwoExports DEF StoreMethods, Unacknowledged

\* Every path through the text, reply, edit and poll methods of client.py is one.
LEMMA TextPaths == \A m \in DOMAIN TextMethods : \A s \in TextMethods[m] : Path(s)
<1> DEFINE Names ==
      {"SendMessage", "Upload", "GetMe", "BuildPollVoteCreation",
       "BuildPollVote", "BuildReaction", "BuildRevoke"}
<1>1. Names \subseteq Exports
  BY GroupsAreExports DEF MessageExports, PresenceExports, ProfileExports, DeviceExports
<1>2. \A a \in Names : Path(<<a>>)
  BY <1>1, OneExport
<1> QED
  BY <1>1, <1>2, EmptyPath, TwoExports DEF TextMethods, Unacknowledged

\* Every path through the sticker and video methods of client.py is one.
LEMMA StickerAndVideoPaths == \A m \in DOMAIN StickerAndVideoMethods : \A s \in StickerAndVideoMethods[m] : Path(s)
<1> DEFINE Names ==
      {"Upload", "SendMessage"}
<1>1. Names \subseteq Exports
  BY GroupsAreExports DEF MessageExports
<1>2. \A a \in Names : Path(<<a>>)
  BY <1>1, OneExport
<1> QED
  BY <1>1, <1>2, EmptyPath, TwoExports DEF StickerAndVideoMethods, Unacknowledged

\* Every path through the image, audio and document methods of client.py is one.
LEMMA MediaPaths == \A m \in DOMAIN MediaMethods : \A s \in MediaMethods[m] : Path(s)
<1> DEFINE Names ==
      {"Upload", "SendMessage"}
<1>1. Names \subseteq Exports
  BY GroupsAreExports DEF MessageExports
<1>2. \A a \in Names : Path(<<a>>)
  BY <1>1, OneExport
<1> QED
  BY <1>1, <1>2, EmptyPath, TwoExports DEF MediaMethods, Unacknowledged

\* Every path through the upload, download and presence methods of client.py is one.
LEMMA TransferPaths == \A m \in DOMAIN TransferMethods : \A s \in TransferMethods[m] : Path(s)
<1> DEFINE Names ==
      {"SendMessage", "Upload", "DownloadAny", "DownloadMediaWithPath",
       "GenerateMessageID", "SendChatPresence", "IsOnWhatsApp",
       "IsConnected", "IsLoggedIn", "GetUserInfo", "GetGroupInfo"}
<1>1. Names \subseteq Exports
  BY GroupsAreExports DEF MessageExports, LookupExports, PresenceExports
<1>2. \A a \in Names : Path(<<a>>)
  BY <1>1, OneExport
<1> QED
  BY <1>1, <1>2, EmptyPath, TwoExports DEF TransferMethods, Unacknowledged

\* Every path through the group and newsletter methods of client.py is one.
LEMMA GroupPaths == \A m \in DOMAIN GroupMethods : \A s \in GroupMethods[m] : Path(s)
<1> DEFINE Names ==
      {"GetGroupInfoFromLink", "GetGroupInfoFromInvite", "SetGroupName",
       "SetGroupPhoto", "LeaveGroup", "GetGroupInviteLink",
       "JoinGroupWithLink", "JoinGroupWithInvite", "LinkGroup", "Logout",
       "MarkRead", "NewsletterMarkViewed", "NewsletterSendReaction"}
<1>1. Names \subseteq Exports
  BY GroupsAreExports DEF LookupExports, GroupExports, PresenceExports, NewsletterExports
<1>2. \A a \in Names : Path(<<a>>)
  BY <1>1, OneExport
<1> QED
  BY <1>1, <1>2, EmptyPath, TwoExports DEF GroupMethods, Unacknowledged

\* Every path through the setting methods of client.py is one.
LEMMA SettingPaths == \A m \in DOMAIN SettingMethods : \A s \in SettingMethods[m] : Path(s)
<1> DEFINE Names ==
      {"NewsletterSubscribeLiveUpdates", "NewsletterToggleMute",
       "ResolveBusinessMessageLink", "ResolveContactQRLink",
       "SendAppState", "SetDefaultDisappearingTimer",
       "SetDisappearingTimer", "SetForceActiveDeliveryReceipts",
       "SetGroupAnnounce", "SetGroupLocked", "SetGroupTopic",
       "SetPrivacySetting", "SetPassive", "SetStatusMessage",
       "SubscribePresence", "UnfollowNewsletter", "UnlinkGroup"}
<1>1. Names \subseteq Exports
  BY GroupsAreExports DEF SettingExports, PrivacyExports
<1>2. \A a \in Names : Path(<<a>>)
  BY <1>1, OneExport
<1> QED
  BY <1>1, <1>2, EmptyPath, TwoExports DEF SettingMethods, Unacknowledged

\* Every path through the membership and newsletter methods of client.py is one.
LEMMA MembershipPaths == \A m \in DOMAIN MembershipMethods : \A s \in MembershipMethods[m] : Path(s)
<1> DEFINE Names ==
      {"UpdateBlocklist", "UpdateGroupParticipants", "UploadNewsletter",
       "GenerateMessageID", "CreateGroup", "GetGroupRequestParticipants",
       "GetJoinedGroups", "CreateNewsletter", "FollowNewsletter",
       "GetNewsletterInfoWithInvite", "GetNewsletterMessageUpdate",
       "GetNewsletterMessages"}
<1>1. Names \subseteq Exports
  BY GroupsAreExports DEF MessageExports, GroupExports, PresenceExports, NewsletterExports, PrivacyExports, DeviceExports
<1>2. \A a \in Names : Path(<<a>>)
  BY <1>1, OneExport
<1> QED
  BY <1>1, <1>2, EmptyPath, TwoExports DEF MembershipMethods, Unacknowledged

\* Every path through the profile and lookup methods of client.py is one.
LEMMA ProfilePaths == \A m \in DOMAIN ProfileMethods : \A s \in ProfileMethods[m] : Path(s)
<1> DEFINE Names ==
      {"GetPrivacySettings", "GetProfilePicture", "GetStatusPrivacy",
       "GetSubGroups", "GetSubscribedNewsletters", "GetUserDevices",
       "GetBlocklist", "GetMe", "GetContactQRLink",
       "GetLinkedGroupsParticipants", "GetNewsletterInfo",
       "GetMessageForRetry"}
<1>1. Names \subseteq Exports
  BY GroupsAreExports DEF GroupExports, NewsletterExports, PrivacyExports, ProfileExports, DeviceExports
<1>2. \A a \in Names : Path(<<a>>)
  BY <1>1, OneExport
<1> QED
  BY <1>1, <1>2, EmptyPath, TwoExports DEF ProfileMethods, Unacknowledged

\* So is every path through any method of client.py.
LEMMA MethodPaths == \A m \in Methods : \A s \in Scripts[m] : Path(s)
<1>1. \A g \in MethodGroups : \A m \in DOMAIN g : \A s \in g[m] : Path(s)
  BY StorePaths, TextPaths, StickerAndVideoPaths, MediaPaths, TransferPaths,
     GroupPaths, SettingPaths, MembershipPaths, ProfilePaths
  DEF MethodGroups
<1> SUFFICES ASSUME NEW m \in Methods
             PROVE  \A s \in Scripts[m] : Path(s)
  OBVIOUS
<1> DEFINE g == CHOOSE h \in MethodGroups : m \in DOMAIN h
<1>2. \E h \in MethodGroups : m \in DOMAIN h
  BY DEF Methods
<1>3. g \in MethodGroups /\ m \in DOMAIN g
  BY <1>2
<1>4. Scripts[m] = g[m]
  BY DEF Scripts
<1> QED
  BY <1>1, <1>3, <1>4

\* And what a thread's script may hold.
LEMMA AllPaths == \A s \in AllScripts \cup {<<>>} : Path(s)
  BY MethodPaths, EmptyPath, CalledAssumption DEF AllScripts

-----------------------------------------------------------------------------
(* The inductive invariant.                                                *)

\* What is behind the position of every call.
Progress ==
    \A t \in Threads :
        /\ stage[t] = "idle" => script[t] = <<>>
        /\ stage[t] = "go" => known /\ pos[t] <= Len(script[t])
        /\ stage[t] = "returned" => pos[t] > Len(script[t])
        /\ \A i \in effects[t] : i <= pos[t]
        /\ \A i \in 1 .. pos[t] - 1 :
              i \in effects[t] \/ script[t][i] \in Unacknowledged

\* What every call's return, and the end of the process, rest on.
Inv == TypeOK /\ Progress /\ DeathExplained

\* It holds before the first call.
LEMMA InitInv == Init => Inv
<1> SUFFICES ASSUME Init PROVE Inv
  OBVIOUS
<1>1. TypeOK
  <2>1. known \in BOOLEAN /\ process \in {"running", "nilClient", "panic"}
    BY DEF Init
  <2>2. stage \in [Threads -> {"idle", "python", "go", "returned", "raised"}]
    BY DEF Init
  <2>3. /\ script \in [Threads -> AllScripts \cup {<<>>}]
        /\ pos \in [Threads -> Nat \ {0}]
        /\ effects \in [Threads -> SUBSET Nat]
    BY DEF Init
  <2>4. \A t \in Threads : script[t] = <<>> /\ pos[t] = 1 /\ effects[t] = {}
    BY DEF Init
  <2>5. Len(<<>>) = 0
    OBVIOUS
  <2> QED
    BY <2>1, <2>2, <2>3, <2>4, <2>5 DEF TypeOK
<1>2. Progress /\ DeathExplained
  BY DEF Init, Progress, DeathExplained
<1> QED
  BY <1>1, <1>2 DEF Inv

\* An answer without a panic lets a method go on only after an export that was
\* carried out or whose error does not surface.
LEMMA GoesOn ==
    ASSUME NEW op \in Exports, NEW o \in Outcomes(op),
           NEW a \in Answers(op, o),
           a = "success" \/ (a # "panic" /\ op \in Returned)
    PROVE  o # "refused" \/ op \in Unacknowledged
<1>1. Entry(op, Tells[op])
  BY TellsEntry
<1>2. Returned \subseteq Unacknowledged
  BY DEF Returned, Unacknowledged
<1> QED
  BY <1>1, <1>2 DEF Entry, Tellings, Answers, Outcomes

\* Only seven exports panic, three of them after they were carried out.
LEMMA Panics ==
    ASSUME NEW op \in Exports, NEW o \in Outcomes(op),
           "panic" \in Answers(op, o)
    PROVE  op \in FatalExports \/ (op \in FatalWhenDone /\ o = "done")
<1>1. Entry(op, Tells[op])
  BY TellsEntry
<1> QED
  BY <1>1 DEF Entry, Tellings, Answers, Outcomes

\* The export a call is in is an export.
LEMMA OpIsExport ==
    ASSUME TypeOK, NEW t \in Threads, pos[t] <= Len(script[t])
    PROVE  Op(t) \in Exports
<1>1. script[t] \in Seq(Exports)
  BY AllPaths DEF TypeOK, Path
<1>2. pos[t] \in 1 .. Len(script[t])
  BY DEF TypeOK
<1> QED
  BY <1>1, <1>2 DEF Op

\* Every step of a thread keeps it.
LEMMA StepInv == Inv /\ [Next]_vars => Inv'
<1> SUFFICES ASSUME Inv, [Next]_vars PROVE Inv'
  OBVIOUS
<1> USE DEF Inv
<1>1. CASE UNCHANGED vars
  BY <1>1 DEF vars, TypeOK, Progress, DeathExplained, Op
<1>2. CASE StoreClient
  <2>1. TypeOK'
    BY <1>2 DEF StoreClient, TypeOK
  <2>2. Progress' /\ DeathExplained'
    BY <1>2 DEF StoreClient, Running, TypeOK, Progress, DeathExplained
  <2> QED
    BY <2>1, <2>2
<1>3. ASSUME NEW t \in Threads, NEW m \in Called, NEW s \in Scripts[m], Call(t, s)
      PROVE  Inv'
  <2>1. /\ s \in AllScripts
        /\ Len(s) \in Nat
    <3>1. s \in AllScripts
      BY DEF AllScripts
    <3> QED
      BY <3>1, AllPaths DEF Path
  <2>2. script[t] = <<>> /\ pos[t] = 1 /\ effects[t] = {}
    <3>1. script[t] = <<>>
      BY <1>3 DEF Call, Progress
    <3>2. Len(<<>>) = 0
      OBVIOUS
    <3> QED
      BY <3>1, <3>2 DEF TypeOK
  <2>3. /\ stage' = [stage EXCEPT ![t] = "python"]
        /\ script' = [script EXCEPT ![t] = s]
        /\ UNCHANGED <<known, pos, effects, process>>
        /\ process = "running"
    BY <1>3 DEF Call, Goto, Running
  <2>4. TypeOK'
    BY <2>1, <2>2, <2>3 DEF TypeOK
  <2>5. Progress' /\ DeathExplained'
    BY <2>2, <2>3 DEF TypeOK, Progress, DeathExplained
  <2> QED
    BY <2>4, <2>5
<1>4. ASSUME NEW t \in Threads, LocalError(t)
      PROVE  Inv'
  <2>1. /\ stage' = [stage EXCEPT ![t] = "raised"]
        /\ UNCHANGED <<known, script, pos, effects, process>>
        /\ process = "running"
    BY <1>4 DEF LocalError, Goto, Running
  <2>2. TypeOK' /\ Progress' /\ DeathExplained'
    BY <2>1 DEF TypeOK, Progress, DeathExplained
  <2> QED
    BY <2>2
<1>5. ASSUME NEW t \in Threads, Enter(t)
      PROVE  Inv'
  <2>1. /\ pos[t] <= Len(script[t])
        /\ UNCHANGED <<known, script, pos, effects>>
        /\ process = "running"
    BY <1>5 DEF Enter, Running
  <2>2. CASE stage' = [stage EXCEPT ![t] = "raised"] /\ UNCHANGED process
    BY <2>1, <2>2 DEF TypeOK, Progress, DeathExplained
  <2>3. CASE /\ stage' = [stage EXCEPT ![t] = "go"]
             /\ known
             /\ UNCHANGED process
    BY <2>1, <2>3 DEF TypeOK, Progress, DeathExplained
  <2>4. CASE process' = "nilClient" /\ ~known /\ UNCHANGED stage
    BY <2>1, <2>4 DEF TypeOK, Progress, DeathExplained
  <2> QED
    BY <1>5, <2>2, <2>3, <2>4 DEF Enter, Goto
<1>6. ASSUME NEW t \in Threads, NEW o \in Outcomes(Op(t)), Leave(t, o)
      PROVE  Inv'
  <2>1. /\ process = "running"
        /\ stage[t] = "go"
        /\ effects' = IF o = "refused" THEN effects
                      ELSE [effects EXCEPT ![t] = @ \cup {pos[t]}]
        /\ UNCHANGED <<known, script>>
    BY <1>6 DEF Leave, Running
  <2>2. pos[t] \in 1 .. Len(script[t]) /\ Len(script[t]) \in Nat
    <3>1. Len(script[t]) \in Nat
      BY AllPaths DEF TypeOK, Path
    <3>2. pos[t] <= Len(script[t])
      BY <2>1 DEF Progress
    <3> QED
      BY <3>1, <3>2 DEF TypeOK
  <2>3. Op(t) \in Exports
    BY <2>2, OpIsExport
  <2>4. /\ effects' \in [Threads -> SUBSET Nat]
        /\ \A u \in Threads : /\ effects'[u] \subseteq 1 .. Len(script'[u])
                              /\ \A i \in effects'[u] : i <= pos[u]
                              /\ effects[u] \subseteq effects'[u]
    BY <2>1, <2>2 DEF TypeOK, Progress
  <2>5. o # "refused" => pos[t] \in effects'[t]
    BY <2>1 DEF TypeOK
  <2>6. CASE /\ "panic" \in Answers(Op(t), o)
             /\ process' = "panic" /\ UNCHANGED <<stage, pos>>
    <3>1. TypeOK'
      BY <2>1, <2>4, <2>6 DEF TypeOK
    <3>2. Progress'
      BY <2>1, <2>4, <2>6 DEF Progress, TypeOK
    <3>3. DeathExplained'
      <4>1. \/ Op(t) \in FatalExports
            \/ Op(t) \in FatalWhenDone /\ pos[t] \in effects'[t]
        BY <2>3, <2>5, <2>6, Panics
      <4>2. Op(t)' = Op(t)
        BY <2>1, <2>6 DEF Op
      <4>3. stage'[t] = "go" /\ pos'[t] = pos[t]
        BY <2>1, <2>6
      <4> QED
        BY <2>6, <4>1, <4>2, <4>3 DEF DeathExplained
    <3> QED
      BY <3>1, <3>2, <3>3
  <2>7. CASE /\ stage' = [stage EXCEPT ![t] = "raised"]
             /\ UNCHANGED <<pos, process>>
    <3>1. TypeOK'
      BY <2>1, <2>4, <2>7 DEF TypeOK
    <3>2. Progress'
      BY <2>1, <2>4, <2>7 DEF Progress, TypeOK
    <3>3. DeathExplained'
      BY <2>1, <2>7 DEF DeathExplained
    <3> QED
      BY <3>1, <3>2, <3>3
  <2>8. CASE /\ \E a \in Answers(Op(t), o) :
                   a # "panic" /\ (a = "success" \/ Op(t) \in Returned)
             /\ stage' = [stage EXCEPT ![t] = "python"]
             /\ pos' = [pos EXCEPT ![t] = @ + 1]
             /\ UNCHANGED process
    <3>1. TypeOK'
      BY <2>1, <2>2, <2>4, <2>8 DEF TypeOK
    <3>2. pos[t] \in effects'[t] \/ script[t][pos[t]] \in Unacknowledged
      <4>1. o # "refused" \/ Op(t) \in Unacknowledged
        BY <2>3, <2>8, GoesOn
      <4> QED
        BY <2>5, <4>1 DEF Op
    <3>3. Progress'
      <4>1. ASSUME NEW u \in Threads, u # t
            PROVE  /\ stage'[u] = stage[u] /\ pos'[u] = pos[u]
                   /\ effects'[u] = effects[u] /\ script'[u] = script[u]
        BY <2>1, <2>8, <4>1 DEF TypeOK
      <4>2. /\ stage'[t] = "python" /\ pos'[t] = pos[t] + 1
            /\ script'[t] = script[t]
        BY <2>1, <2>8 DEF TypeOK
      <4>3. \A i \in effects'[t] : i <= pos'[t]
        BY <2>2, <2>4, <4>2
      <4>4. \A i \in 1 .. pos'[t] - 1 :
               i \in effects'[t] \/ script[t][i] \in Unacknowledged
        BY <2>2, <2>4, <3>2, <4>2 DEF Progress
      <4> QED
        BY <2>1, <4>1, <4>2, <4>3, <4>4 DEF Progress
    <3>4. DeathExplained'
      BY <2>1, <2>8 DEF DeathExplained
    <3> QED
      BY <3>1, <3>3, <3>4
  <2> QED
    BY <1>6, <2>6, <2>7, <2>8 DEF Leave, Goto
<1>7. ASSUME NEW t \in Threads, Return(t)
      PROVE  Inv'
  <2>1. /\ pos[t] > Len(script[t])
        /\ stage' = [stage EXCEPT ![t] = "returned"]
        /\ UNCHANGED <<known, script, pos, effects, process>>
        /\ process = "running"
    BY <1>7 DEF Return, Goto, Running
  <2> QED
    BY <2>1 DEF TypeOK, Progress, DeathExplained
<1> QED
  BY <1>1, <1>2, <1>3, <1>4, <1>5, <1>6, <1>7 DEF Next

-----------------------------------------------------------------------------
(* The theorems.                                                           *)

\* So it always holds.
LEMMA InvHolds == Spec => []Inv
  BY InitInv, StepInv, PTL DEF Spec

\* No call ever leaves its script, whatever the other threads do.
THEOREM CallsTypeCorrect == Spec => []TypeOK
  BY InvHolds, PTL DEF Inv

\* A method of client.py that returned had each of its exports carried out,
\* but for those whose errors do not surface.
THEOREM ReturnedMethodsAreDone == Spec => []ReturnedIsDone
<1>1. Inv => ReturnedIsDone
  <2> SUFFICES ASSUME Inv, NEW t \in Threads, stage[t] = "returned",
                      NEW i \in 1 .. Len(script[t])
               PROVE  i \in effects[t] \/ script[t][i] \in Unacknowledged
    BY DEF ReturnedIsDone
  <2>1. pos[t] > Len(script[t]) /\ pos[t] \in Nat /\ Len(script[t]) \in Nat
    BY AllPaths DEF Inv, TypeOK, Progress, Path
  <2>2. i \in 1 .. pos[t] - 1
    BY <2>1
  <2> QED
    BY <2>2 DEF Inv, Progress
<1> QED
  BY <1>1, InvHolds, PTL

\* Nothing goes out without what it refers to: an export of a method is carried
\* out only after all those the method calls before it.
THEOREM NothingIsLeftDangling == Spec => []NothingDangling
<1>1. Inv => NothingDangling
  <2> SUFFICES ASSUME Inv, NEW t \in Threads, NEW i \in effects[t], NEW j \in 1 .. i
               PROVE  j \in effects[t]
    BY DEF NothingDangling
  <2>1. /\ i \in 1 .. Len(script[t])
        /\ i <= pos[t]
        /\ pos[t] \in Nat
        /\ Len(script[t]) \in Nat
    BY AllPaths DEF Inv, TypeOK, Progress, Path
  <2>2. CASE j = i
    BY <2>2
  <2>3. CASE j < i
    <3>1. j \in 1 .. pos[t] - 1 /\ j \in 1 .. Len(script[t]) /\ j < Len(script[t])
      BY <2>1, <2>3
    <3>2. j \in effects[t] \/ script[t][j] \in Unacknowledged
      BY <3>1 DEF Inv, Progress
    <3>3. Path(script[t])
      BY AllPaths DEF Inv, TypeOK
    <3>4. script[t][j] \notin Unacknowledged
      BY <3>1, <3>3 DEF Path
    <3> QED
      BY <3>2, <3>4
  <2> QED
    BY <2>1, <2>2, <2>3
<1> QED
  BY <1>1, InvHolds, PTL

\* No call of any method ends the process other than by the nil client before
\* connect, the wrong error of four exports of main.go or an answer of three
\* that does not encode.
THEOREM DeathsExplained == Spec => []DeathExplained
  BY InvHolds, PTL DEF Inv
=============================================================================
