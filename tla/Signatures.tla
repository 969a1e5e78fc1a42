----------------------------- MODULE Signatures -----------------------------
(***************************************************************************)
(* What ctypes knows of the exported functions: the number of arguments    *)
(* declared for each and its result type, by the lines of _binder.py; how  *)
(* many arguments its call site in client.py passes and which method it    *)
(* calls on the result.  An export with no declaration takes any number of *)
(* arguments (0 here) and returns an int.                                  *)
(***************************************************************************)
EXTENDS Naturals

MessageAndGroupSignatures ==
    [Upload |-> <<4, "Bytes">>, DownloadAny |-> <<3, "Bytes">>,
     DownloadMediaWithPath |-> <<11, "Bytes">>,
     GetGroupInfo |-> <<3, "Bytes">>, SetGroupPhoto |-> <<5, "c_char_p">>,
     LeaveGroup |-> <<3, "c_char_p">>, SetGroupName |-> <<4, "c_char_p">>,
     GetGroupInviteLink |-> <<4, "Bytes">>, SendMessage |-> <<5, "Bytes">>,
     SendChatPresence |-> <<5, "c_char_p">>, BuildRevoke |-> <<6, "Bytes">>,
     CreateGroup |-> <<3, "Bytes">>, GenerateMessageID |-> <<1, "c_char_p">>,
     IsOnWhatsApp |-> <<2, "Bytes">>, IsConnected |-> <<1, "c_bool">>,
     IsLoggedIn |-> <<1, "c_bool">>, GetUserInfo |-> <<3, "Bytes">>,
     GetMe |-> <<1, "Bytes">>, BuildPollVoteCreation |-> <<5, "Bytes">>,
     BuildPollVote |-> <<5, "Bytes">>, BuildReaction |-> <<7, "Bytes">>,
     CreateNewsletter |-> <<3, "Bytes">>,
     FollowNewsletter |-> <<3, "c_char_p">>, GetBlocklist |-> <<1, "Bytes">>,
     GetContactQRLink |-> <<2, "Bytes">>,
     GetGroupInfoFromInvite |-> <<7, "Bytes">>]

GroupAndNewsletterSignatures ==
    [GetGroupInfoFromLink |-> <<2, "Bytes">>,
     GetGroupRequestParticipants |-> <<3, "Bytes">>,
     GetJoinedGroups |-> <<1, "Bytes">>,
     GetLinkedGroupsParticipants |-> <<3, "Bytes">>,
     GetNewsletterInfo |-> <<3, "Bytes">>,
     GetNewsletterInfoWithInvite |-> <<2, "Bytes">>,
     GetNewsletterMessageUpdate |-> <<6, "Bytes">>,
     GetNewsletterMessages |-> <<5, "Bytes">>,
     GetPrivacySettings |-> <<1, "Bytes">>,
     GetProfilePicture |-> <<5, "Bytes">>,
     GetStatusPrivacy |-> <<1, "Bytes">>, GetSubGroups |-> <<3, "Bytes">>,
     GetSubscribedNewsletters |-> <<1, "Bytes">>,
     GetUserDevices |-> <<3, "Bytes">>, JoinGroupWithLink |-> <<7, "Bytes">>,
     JoinGroupWithInvite |-> <<0, "c_char_p">>, LinkGroup |-> <<5, "Bytes">>,
     Logout |-> <<1, "c_char_p">>, MarkRead |-> <<8, "c_char_p">>,
     NewsletterMarkViewed |-> <<5, "c_char_p">>,
     NewsletterSendReaction |-> <<6, "c_char_p">>,
     NewsletterSubscribeLiveUpdates |-> <<3, "Bytes">>,
     NewsletterToggleMute |-> <<4, "c_char_p">>,
     ResolveContactQRLink |-> <<2, "Bytes">>]

SettingAndStoreSignatures ==
    [ResolveBusinessMessageLink |-> <<2, "Bytes">>,
     SendAppState |-> <<3, "c_char_p">>,
     SetDefaultDisappearingTimer |-> <<2, "c_char_p">>,
     SetDisappearingTimer |-> <<4, "c_char_p">>,
     SetForceActiveDeliveryReceipts |-> <<2, "c_void_p">>,
     SetGroupAnnounce |-> <<4, "c_char_p">>,
     SetGroupLocked |-> <<4, "c_char_p">>,
     SetGroupTopic |-> <<6, "c_char_p">>,
     SetPrivacySetting |-> <<3, "Bytes">>, SetPassive |-> <<2, "c_char_p">>,
     SetStatusMessage |-> <<2, "c_char_p">>,
     SubscribePresence |-> <<3, "c_char_p">>,
     UnfollowNewsletter |-> <<3, "c_char_p">>,
     UnlinkGroup |-> <<5, "c_char_p">>, UpdateBlocklist |-> <<4, "Bytes">>,
     UpdateGroupParticipants |-> <<6, "Bytes">>,
     GetMessageForRetry |-> <<6, "Bytes">>, PutContactName |-> <<5, "int">>,
     PutPushName |-> <<4, "c_char_p">>,
     PutAllContactNames |-> <<3, "c_char_p">>, GetContact |-> <<3, "Bytes">>,
     GetAllContacts |-> <<1, "Bytes">>, PutMutedUntil |-> <<4, "c_char_p">>,
     PutPinned |-> <<4, "c_char_p">>, PutArchived |-> <<4, "c_char_p">>,
     GetChatSettings |-> <<3, "Bytes">>]

\* Exported by Go and declared nowhere.
Undeclared ==
    [op \in {"UploadNewsletter", "AcceptTOSNotice", "PutBusinessName"} |->
        <<0, "int">>]

SignatureGroups ==
    {MessageAndGroupSignatures, GroupAndNewsletterSignatures,
     SettingAndStoreSignatures, Undeclared}

Signature ==
    [op \in UNION {DOMAIN g : g \in SignatureGroups} |->
        (CHOOSE g \in SignatureGroups : op \in DOMAIN g)[op]]

-----------------------------------------------------------------------------
(* The call sites.                                                         *)

\* The exports called with one argument, with two, and so on.
Passing ==
    [n \in 1 .. 11 |->
      CASE n = 1 ->
            {"GenerateMessageID", "GetAllContacts", "GetBlocklist",
             "GetJoinedGroups", "GetMe", "GetPrivacySettings",
             "GetStatusPrivacy", "GetSubscribedNewsletters", "IsConnected",
             "IsLoggedIn", "Logout"}
        [] n = 2 ->
            {"GetContactQRLink", "GetGroupInfoFromLink",
             "GetNewsletterInfoWithInvite", "JoinGroupWithLink",
             "ResolveBusinessMessageLink", "ResolveContactQRLink",
             "SetDefaultDisappearingTimer", "SetForceActiveDeliveryReceipts",
             "SetPassive", "SetStatusMessage"}
        [] n = 3 ->
            {"CreateGroup", "CreateNewsletter", "DownloadAny",
             "FollowNewsletter", "GetChatSettings", "GetContact",
             "GetGroupInfo", "GetGroupRequestParticipants",
             "GetLinkedGroupsParticipants", "GetNewsletterInfo",
             "GetSubGroups", "GetUserDevices", "GetUserInfo", "IsOnWhatsApp",
             "LeaveGroup", "NewsletterSubscribeLiveUpdates",
             "PutAllContactNames", "PutPushName", "SendAppState",
             "SetPrivacySetting", "SubscribePresence", "UnfollowNewsletter"}
        [] n = 4 ->
            {"GetGroupInviteLink", "NewsletterToggleMute", "PutArchived",
             "PutMutedUntil", "PutPinned", "SetDisappearingTimer",
             "SetGroupAnnounce", "SetGroupLocked", "SetGroupName",
             "UpdateBlocklist", "Upload", "UploadNewsletter"}
        [] n = 5 ->
            {"BuildPollVote", "BuildPollVoteCreation",
             "GetNewsletterMessages", "GetProfilePicture", "LinkGroup",
             "NewsletterMarkViewed", "PutContactName", "SendChatPresence",
             "SendMessage", "SetGroupPhoto", "UnlinkGroup"}
        [] n = 6 ->
            {"BuildRevoke", "GetMessageForRetry",
             "GetNewsletterMessageUpdate", "NewsletterSendReaction",
             "SetGroupTopic", "UpdateGroupParticipants"}
        [] n = 7 ->
            {"BuildReaction", "GetGroupInfoFromInvite", "JoinGroupWithInvite"}
        [] n = 8 ->
            {"MarkRead"}
        [] n = 11 ->
            {"DownloadMediaWithPath"}
        [] OTHER -> {}]

\* The answer is asked for its bytes, or decoded; the others are used as they are.
Unpacked ==
    {"BuildPollVote", "BuildPollVoteCreation", "BuildReaction", "BuildRevoke",
     "CreateGroup", "CreateNewsletter", "DownloadAny",
     "DownloadMediaWithPath", "GetAllContacts", "GetBlocklist",
     "GetChatSettings", "GetContact", "GetContactQRLink", "GetGroupInfo",
     "GetGroupInfoFromInvite", "GetGroupInfoFromLink", "GetGroupInviteLink",
     "GetGroupRequestParticipants", "GetJoinedGroups",
     "GetLinkedGroupsParticipants", "GetMe", "GetMessageForRetry",
     "GetNewsletterInfo", "GetNewsletterInfoWithInvite",
     "GetNewsletterMessageUpdate", "GetNewsletterMessages",
     "GetPrivacySettings", "GetProfilePicture", "GetStatusPrivacy",
     "GetSubGroups", "GetSubscribedNewsletters", "GetUserDevices",
     "GetUserInfo", "IsOnWhatsApp", "JoinGroupWithLink",
     "NewsletterSubscribeLiveUpdates", "PutPushName",
     "ResolveBusinessMessageLink", "ResolveContactQRLink", "SendMessage",
     "SetGroupPhoto", "UpdateBlocklist", "UpdateGroupParticipants", "Upload",
     "UploadNewsletter"}

Decoded ==
    {"FollowNewsletter", "GenerateMessageID", "JoinGroupWithInvite",
     "LeaveGroup", "LinkGroup", "Logout", "NewsletterToggleMute",
     "PutAllContactNames", "PutContactName", "SendAppState",
     "SendChatPresence", "SetDefaultDisappearingTimer",
     "SetDisappearingTimer", "SetGroupAnnounce", "SetGroupLocked",
     "SetGroupName", "SetGroupTopic", "SetPrivacySetting", "SetStatusMessage",
     "SubscribePresence", "UnfollowNewsletter", "UnlinkGroup"}

\* The methods a value of a result type has.
Offers(restype) ==
    CASE restype = "Bytes" -> {"get_bytes"}
      [] restype = "c_char_p" -> {"decode"}
      [] OTHER -> {}

Asked(op) ==
    {ask \in {"get_bytes", "decode"} :
        op \in IF ask = "decode" THEN Decoded ELSE Unpacked}

\* ctypes refuses the call: more arguments are declared than it is given.
Uncallable ==
    {op \in DOMAIN Signature :
        \E n \in DOMAIN Passing : op \in Passing[n] /\ n < Signature[op][1]}

\* The call is made, and then the answer has not the method that is called on it.
Mangled ==
    {op \in DOMAIN Signature : ~(Asked(op) \subseteq Offers(Signature[op][2]))}
=============================================================================
