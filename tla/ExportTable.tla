----------------------------- MODULE ExportTable -----------------------------
(***************************************************************************)
(* The functions the Go library exports, what each tells Python of an      *)
(* error of whatsmeow, and the calls each method of NewClient makes.       *)
(*                                                                         *)
(*   reported  the Error field or the string returned holds the error      *)
(*   silent    whatsmeow's operation returns no error                      *)
(*   dropped   a test of the wrong error variable: reads as success        *)
(*   panics    the error is taken from the wrong, nil variable             *)
(*   always    the nil error is dereferenced when there is none            *)
(*   never     the answer lacks required bytes, error or not: Marshal fails  *)
(*   partly    as reported, but a newsletter message without a body, which   *)
(*             an update never has, leaves a required field unset: Marshal   *)
(*             fails                                                         *)
(* After a failed Marshal the export panics.                               *)
(***************************************************************************)
EXTENDS Signatures

MessageExports ==
    [Upload |-> "reported", UploadNewsletter |-> "never",
     GenerateMessageID |-> "silent", AcceptTOSNotice |-> "reported",
     SendMessage |-> "reported"]

LookupExports ==
    [DownloadAny |-> "reported", DownloadMediaWithPath |-> "reported",
     IsOnWhatsApp |-> "reported", IsConnected |-> "silent",
     IsLoggedIn |-> "silent", GetUserInfo |-> "reported",
     GetGroupInfo |-> "reported", GetGroupInfoFromInvite |-> "reported"]

GroupExports ==
    [GetGroupInfoFromLink |-> "reported",
     GetGroupRequestParticipants |-> "reported",
     GetLinkedGroupsParticipants |-> "reported", SetGroupName |-> "reported",
     SetGroupPhoto |-> "reported", LeaveGroup |-> "reported",
     GetGroupInviteLink |-> "reported", JoinGroupWithLink |-> "reported"]

PresenceExports ==
    [JoinGroupWithInvite |-> "dropped", LinkGroup |-> "reported",
     SendChatPresence |-> "dropped", BuildRevoke |-> "silent",
     BuildPollVoteCreation |-> "silent", CreateNewsletter |-> "reported",
     FollowNewsletter |-> "reported"]

NewsletterExports ==
    [GetNewsletterInfo |-> "reported",
     GetNewsletterInfoWithInvite |-> "reported",
     GetNewsletterMessageUpdate |-> "partly",
     GetNewsletterMessages |-> "partly", Logout |-> "reported",
     MarkRead |-> "reported", NewsletterMarkViewed |-> "reported",
     NewsletterSendReaction |-> "always"]

SettingExports ==
    [NewsletterSubscribeLiveUpdates |-> "reported",
     NewsletterToggleMute |-> "reported",
     ResolveBusinessMessageLink |-> "reported",
     ResolveContactQRLink |-> "reported", SendAppState |-> "reported",
     SetDefaultDisappearingTimer |-> "reported",
     SetDisappearingTimer |-> "reported",
     SetForceActiveDeliveryReceipts |-> "silent",
     SetGroupAnnounce |-> "reported", SetGroupLocked |-> "panics",
     SetGroupTopic |-> "panics"]

PrivacyExports ==
    [SetPrivacySetting |-> "reported", SetPassive |-> "reported",
     SetStatusMessage |-> "reported", SubscribePresence |-> "reported",
     UnfollowNewsletter |-> "reported", UnlinkGroup |-> "reported",
     UpdateBlocklist |-> "reported", UpdateGroupParticipants |-> "reported",
     GetPrivacySettings |-> "silent"]

ProfileExports ==
    [GetProfilePicture |-> "dropped", GetStatusPrivacy |-> "reported",
     GetSubGroups |-> "reported", GetSubscribedNewsletters |-> "reported",
     GetUserDevices |-> "reported", GetBlocklist |-> "reported",
     BuildPollVote |-> "dropped"]

DeviceExports ==
    [BuildReaction |-> "silent", CreateGroup |-> "panics",
     GetJoinedGroups |-> "reported", GetMe |-> "silent",
     GetContactQRLink |-> "reported", GetMessageForRetry |-> "silent",
     PutPinned |-> "reported", PutArchived |-> "reported"]

ContactExports ==
    [PutPushName |-> "reported", PutBusinessName |-> "reported",
     PutContactName |-> "reported", PutAllContactNames |-> "reported",
     GetContact |-> "reported", GetAllContacts |-> "reported"]

ChatSettingExports ==
    [PutMutedUntil |-> "reported", GetChatSettings |-> "reported"]

ExportGroups ==
    {MessageExports, LookupExports, GroupExports, PresenceExports,
     NewsletterExports, SettingExports, PrivacyExports, ProfileExports,
     DeviceExports, ContactExports, ChatSettingExports}

Exports == UNION {DOMAIN g : g \in ExportGroups}
Tells == [op \in Exports |-> (CHOOSE g \in ExportGroups : op \in DOMAIN g)[op]]

-----------------------------------------------------------------------------
(* The Python side of the same functions.                                  *)

\* The method returns the error text instead of raising it.
Returned == {"SetGroupName", "LeaveGroup", "SendChatPresence"}

\* The exports each method calls, in order: one sequence per path through it.
StoreMethods ==
    [put_pushname |-> {<<"PutPushName">>},
     put_contact_name |-> {<<"PutContactName">>},
     put_all_contact_name |-> {<<"PutAllContactNames">>},
     get_contact |-> {<<"GetContact">>},
     get_all_contacts |-> {<<"GetAllContacts">>},
     put_muted_until |-> {<<"PutMutedUntil">>},
     put_pinned |-> {<<"PutPinned">>},
     put_archived |-> {<<"PutArchived">>},
     get_chat_settings |-> {<<"GetChatSettings">>}]

\* A link preview with a thumbnail is uploaded before the text is sent.
TextMethods ==
    [send_message |-> {<<"SendMessage">>, <<"Upload", "SendMessage">>},
     build_reply_message |-> {<<>>, <<"Upload">>},
     reply_message |-> {<<"SendMessage">>, <<"Upload", "SendMessage">>},
     edit_message |-> {<<"SendMessage">>},
     revoke_message |-> {<<"GetMe", "SendMessage">>},
     build_poll_vote_creation |-> {<<"BuildPollVoteCreation">>},
     build_poll_vote |-> {<<"BuildPollVote">>},
     build_reaction |-> {<<"BuildReaction">>},
     build_revoke |-> {<<"BuildRevoke">>, <<"GetMe">>}]

StickerAndVideoMethods ==
    [build_sticker_message |-> {<<"Upload">>},
     send_sticker |-> {<<"Upload", "SendMessage">>},
     build_video_message |-> {<<"Upload">>},
     send_video |-> {<<"Upload", "SendMessage">>}]

MediaMethods ==
    [build_image_message |-> {<<"Upload">>},
     send_image |-> {<<"Upload", "SendMessage">>},
     build_audio_message |-> {<<"Upload">>},
     send_audio |-> {<<"Upload", "SendMessage">>},
     build_document_message |-> {<<"Upload">>},
     send_document |-> {<<"Upload", "SendMessage">>}]

TransferMethods ==
    [send_contact |-> {<<"SendMessage">>}, upload |-> {<<"Upload">>},
     download_any |-> {<<"DownloadAny">>},
     download_media_with_path |-> {<<"DownloadMediaWithPath">>},
     generate_message_id |-> {<<"GenerateMessageID">>},
     send_chat_presence |-> {<<"SendChatPresence">>},
     is_on_whatsapp |-> {<<>>, <<"IsOnWhatsApp">>},
     is_connected |-> {<<"IsConnected">>},
     is_logged_in |-> {<<"IsLoggedIn">>},
     get_user_info |-> {<<"GetUserInfo">>},
     get_group_info |-> {<<"GetGroupInfo">>}]

GroupMethods ==
    [get_group_info_from_link |-> {<<"GetGroupInfoFromLink">>},
     get_group_info_from_invite |-> {<<"GetGroupInfoFromInvite">>},
     set_group_name |-> {<<"SetGroupName">>},
     set_group_photo |-> {<<"SetGroupPhoto">>},
     leave_group |-> {<<"LeaveGroup">>},
     get_group_invite_link |-> {<<"GetGroupInviteLink">>},
     join_group_with_link |-> {<<"JoinGroupWithLink">>},
     join_group_with_invite |-> {<<"JoinGroupWithInvite">>},
     link_group |-> {<<"LinkGroup">>}, logout |-> {<<"Logout">>},
     mark_read |-> {<<"MarkRead">>},
     newsletter_mark_viewed |-> {<<"NewsletterMarkViewed">>},
     newsletter_send_reaction |-> {<<"NewsletterSendReaction">>}]

SettingMethods ==
    [newsletter_subscribe_live_updates |-> {<<"NewsletterSubscribeLiveUpdates">>},
     newsletter_toggle_mute |-> {<<"NewsletterToggleMute">>},
     resolve_business_message_link |-> {<<"ResolveBusinessMessageLink">>},
     resolve_contact_qr_link |-> {<<"ResolveContactQRLink">>},
     send_app_state |-> {<<"SendAppState">>},
     set_default_disappearing_timer |-> {<<"SetDefaultDisappearingTimer">>},
     set_disappearing_timer |-> {<<"SetDisappearingTimer">>},
     set_force_activate_delivery_receipts |->
         {<<"SetForceActiveDeliveryReceipts">>},
     set_group_announce |-> {<<"SetGroupAnnounce">>},
     set_group_locked |-> {<<"SetGroupLocked">>},
     set_group_topic |-> {<<"SetGroupTopic">>},
     set_privacy_setting |-> {<<"SetPrivacySetting">>},
     set_passive |-> {<<"SetPassive">>},
     set_status_message |-> {<<"SetStatusMessage">>},
     subscribe_presence |-> {<<"SubscribePresence">>},
     unfollow_newsletter |-> {<<"UnfollowNewsletter">>},
     unlink_group |-> {<<"UnlinkGroup">>}]

\* create_group asks for the key of the group before it creates it.
MembershipMethods ==
    [update_blocklist |-> {<<"UpdateBlocklist">>},
     update_group_participants |-> {<<"UpdateGroupParticipants">>},
     upload_newsletter |-> {<<"UploadNewsletter">>},
     create_group |-> {<<"GenerateMessageID", "CreateGroup">>},
     get_group_request_participants |-> {<<"GetGroupRequestParticipants">>},
     get_joined_groups |-> {<<"GetJoinedGroups">>},
     create_newsletter |-> {<<"CreateNewsletter">>},
     follow_newsletter |-> {<<"FollowNewsletter">>},
     get_newsletter_info_with_invite |-> {<<"GetNewsletterInfoWithInvite">>},
     get_newsletter_message_update |-> {<<"GetNewsletterMessageUpdate">>},
     get_newsletter_messages |-> {<<"GetNewsletterMessages">>}]

ProfileMethods ==
    [get_privacy_settings |-> {<<"GetPrivacySettings">>},
     get_profile_picture |-> {<<"GetProfilePicture">>},
     get_status_privacy |-> {<<"GetStatusPrivacy">>},
     get_sub_groups |-> {<<"GetSubGroups">>},
     get_subscribed_newletters |-> {<<"GetSubscribedNewsletters">>},
     get_user_devices |-> {<<"GetUserDevices">>},
     get_blocklist |-> {<<"GetBlocklist">>},
     get_me |-> {<<"GetMe">>},
     get_contact_qr_link |-> {<<"GetContactQRLink">>},
     get_linked_group_participants |-> {<<"GetLinkedGroupsParticipants">>},
     get_newsletter_info |-> {<<"GetNewsletterInfo">>},
     get_message_for_retry |-> {<<"GetMessageForRetry">>}]

MethodGroups ==
    {StoreMethods, TextMethods, StickerAndVideoMethods, MediaMethods,
     TransferMethods, GroupMethods, SettingMethods, MembershipMethods,
     ProfileMethods}

Methods == UNION {DOMAIN g : g \in MethodGroups}
Scripts ==
    [m \in Methods |-> (CHOOSE g \in MethodGroups : m \in DOMAIN g)[m]]
=============================================================================
