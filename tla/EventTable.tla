----------------------------- MODULE EventTable -----------------------------
(***************************************************************************)
(* The event codes shared, by convention only, between the Go library and  *)
(* the Python package: the bridge hands Python an integer and a byte       *)
(* string, and each side has its own table.                                *)
(***************************************************************************)
LOCAL INSTANCE Naturals

Codes == 1 .. 43

\* events.EVENT_TO_INT: the key under which Event.__call__ stores the handler
\* of a class.  NewsLetterMessageMeta has a key although no case of the Go
\* event handler ever delivers it.
EventToInt ==
    [QR |-> 1, PairStatus |-> 2, Connected |-> 3, KeepAliveTimeout |-> 4,
     KeepAliveRestored |-> 5, LoggedOut |-> 6, StreamReplaced |-> 7,
     TemporaryBan |-> 8, ConnectFailure |-> 9, ClientOutdated |-> 10,
     StreamError |-> 11, Disconnected |-> 12, HistorySync |-> 13,
     NewsLetterMessageMeta |-> 16, Message |-> 17, Receipt |-> 18,
     ChatPresence |-> 19, Presence |-> 20, JoinedGroup |-> 21,
     GroupInfo |-> 22, Picture |-> 23, IdentityChange |-> 24,
     PrivacySettings |-> 25, OfflineSyncPreview |-> 26,
     OfflineSyncCompleted |-> 27, Blocklist |-> 30, BlocklistChange |-> 31,
     NewsletterJoin |-> 32, NewsletterLeave |-> 33,
     NewsletterMuteChange |-> 34, NewsletterLiveUpdate |-> 35,
     CallOffer |-> 36, CallAccept |-> 37, CallPreAccept |-> 38,
     CallTransport |-> 39, CallOfferNotice |-> 40, CallRelayLatency |-> 41,
     CallTerminate |-> 42, UnknownCallEvent |-> 43]

\* The code each case of snakechat's eventHandler looks up in subscribers, one
\* entry per whatsmeow event type it handles.  The three definitions below
\* cover the login and connection events, the chat events and the calls.
ConnectionCases ==
    [QR |-> 1, PairError |-> 2, PairSuccess |-> 2, Connected |-> 3,
     KeepAliveTimeout |-> 4, KeepAliveRestored |-> 5, LoggedOut |-> 6,
     StreamReplaced |-> 7, TemporaryBan |-> 8, ConnectFailure |-> 9,
     ClientOutdated |-> 10, StreamError |-> 11, Disconnected |-> 12,
     HistorySync |-> 13]

ChatCases ==
    [Message |-> 17, Receipt |-> 18, ChatPresence |-> 19, Presence |-> 20,
     JoinedGroup |-> 21, GroupInfo |-> 22, Picture |-> 23,
     IdentityChange |-> 24, PrivacySettings |-> 25,
     OfflineSyncPreview |-> 26, OfflineSyncCompleted |-> 27,
     Blocklist |-> 30, BlocklistChange |-> 31]

NewsletterAndCallCases ==
    [NewsletterJoin |-> 32, NewsletterLeave |-> 33,
     NewsletterMuteChange |-> 34, NewsletterLiveUpdate |-> 35,
     CallOffer |-> 36, CallAccept |-> 37, CallPreAccept |-> 38,
     CallTransport |-> 39, CallOfferNotice |-> 40, CallRelayLatency |-> 41,
     CallTerminate |-> 42, UnknownCallEvent |-> 43]

EventKinds == DOMAIN ConnectionCases \cup DOMAIN ChatCases
                 \cup DOMAIN NewsletterAndCallCases

Checks ==
    [kind \in EventKinds |->
        IF kind \in DOMAIN ConnectionCases THEN ConnectionCases[kind]
        ELSE IF kind \in DOMAIN ChatCases THEN ChatCases[kind]
        ELSE NewsletterAndCallCases[kind]]

\* The code the same case passes to call_c_func_callback_bytes.  It is the code
\* it checked, except that the ConnectFailure case checks 9 and passes 8.
Sends == [Checks EXCEPT !["ConnectFailure"] = 8]

\* The generated message class the bytes of an event are an instance of.
ClassOf(kind) ==
    IF kind \in {"PairError", "PairSuccess"} THEN "PairStatus" ELSE kind

\* Messages without a field marshal to no bytes, and getBytesAndSize takes the
\* address of data[0]: the event handler panics before it starts a goroutine.
EmptyPayload == {"KeepAliveRestored", "StreamReplaced", "ClientOutdated"}

\* Encoders whose switch over a value received from the server has no default
\* and fills a required field: for an unlisted value (EncodeReceipts lists no
\* server-error) the field stays nil, Marshal fails and the handler panics.
PartialFailures == {"LoggedOut", "TemporaryBan", "ConnectFailure"}
PartialChatEvents == {"Receipt", "ChatPresence"}
PartialListChanges ==
    {"GroupInfo", "Blocklist", "BlocklistChange", "NewsletterLeave",
     "NewsletterMuteChange"}

\* EncodeNewsletterMessage hands over the body of a message, which is required and
\* which the messages of a live update do not have: one without messages encodes.
PartialMessages == {"NewsletterLiveUpdate"}

PartialEncoders ==
    PartialFailures \cup PartialChatEvents \cup PartialListChanges
        \cup PartialMessages

\* What can become of the encoding of one event of a kind.
Encodings(kind) ==
    IF kind \in EmptyPayload THEN {"panic"}
    ELSE IF kind \in PartialEncoders THEN {"bytes", "panic"}
    ELSE {"bytes"}

\* Kinds a subscriber may be told nothing about although it asked for them.
LossyKinds ==
    {kind \in EventKinds : \/ "panic" \in Encodings(kind)
                           \/ Sends[kind] # EventToInt[ClassOf(kind)]}
=============================================================================
