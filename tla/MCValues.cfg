SPECIFICATION Spec
CONSTANTS
    DeviceJids <- MCDeviceJids
    PushNames <- MCPushNames
    BusinessNames <- MCBusinessNames
    ChatJids <- MCChatJids
    Durations <- MCDurations
    MaxDevices = 2
    MaxChanges = 3
    WireJids <- MCWireJids
    KeyJids <- MCKeyJids
    TextLists <- MCTextLists
    IdLists <- MCIdLists
    Sides <- MCSides
    Classes = {"image", "video", "audio", "application"}
INVARIANTS
    TypeOK
    ListingIsTrue
    ListedIsFound
    SettingsReadBack
    AddressesAgree
    KeysAgree
    ContentsFound
    SentIsReadable
    RequestsArrive
    PicturesKeepShape
    PlatformsServed
CHECK_DEADLOCK FALSE
