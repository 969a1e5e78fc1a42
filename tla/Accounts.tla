------------------------------ MODULE Accounts ------------------------------
(***************************************************************************)
(* The database behind several accounts, as Python sees it: the table of   *)
(* devices, which get_all_devices reads as one text and new_client opens   *)
(* from, and the settings of chats, which ChatSettingsStore writes and     *)
(* reads back.  whatsmeow changes the table too, as devices log in and     *)
(* out and names change.                                                   *)
(***************************************************************************)
EXTENDS Jids, FiniteSets

CONSTANTS
    DeviceJids,     \* what devices are called: types.JID of the user server
    PushNames,      \* names that accounts give themselves, as texts
    BusinessNames,  \* names that WhatsApp has verified, empty for most
    ChatJids,       \* protobuf JIDs of chats
    Durations,      \* seconds, what a chat is muted for: less than 2^31
    MaxDevices,     \* bound: devices in the table
    MaxChanges      \* bound: changes of the table and of settings

ASSUME AccountsAssumption ==
    /\ MaxDevices \in Nat /\ MaxChanges \in Nat
    /\ Durations \subseteq {n \in Nat : n <= 2147483647}

\* A login gives a device its address; the database keeps the text of it.
ASSUME DevicesAssumption ==
    \A jid \in DeviceJids :
        /\ jid \in [User : Seq(Names) \ {<<>>}, RawAgent : Nat, Device : Nat,
                    Integrator : {0}, Server : {DefaultUserServer}]
        /\ jid.RawAgent < 256 /\ jid.Device < 65536

VARIABLES
    table,      \* the devices in the database
    seen,       \* the table when it was last listed
    listing,    \* what get_all_devices made of it
    opened,     \* clients made from the listing: their key, the device they got
    settings,   \* rows of chat settings, by the text of the chat
    told,       \* what the program last told of each chat
    shown,      \* what get_chat_settings last answered, until the next change
    changes     \* how often the database changed

accounts == <<table, seen, listing, opened>>
chats == <<settings, told, shown>>
accountVars == <<accounts, chats, changes>>

Comma == Sign(",")
Separator == Sign("|1|")
Bool(b) == IF b THEN Sign("true") ELSE Sign("false")

\* What a line of the list is made of, and so what a name may hold.
Letters == Token \cup {Comma, Separator, Bool(TRUE), Bool(FALSE)}
ASSUME NamesAssumption == PushNames \cup BusinessNames \subseteq Seq(Letters)

Device(jid, push, business, initialized) ==
    [ID |-> jid, PushName |-> push, BusinessName |-> business, Initialized |-> initialized]

\* "%s,%s,%s,%t" of the text of a device's address and the rest of it.
Line(id, d) == id \o <<Comma>> \o d.PushName \o <<Comma>> \o d.BusinessName
                  \o <<Comma, Bool(d.Initialized)>>

\* Mutant: the address is written without its device.
GetAllDevicesNonAD(devices) ==
    JoinWith([i \in DOMAIN devices |-> Line(String(JIDToNonAD(devices[i].ID)), devices[i])],
             Separator)

GetAllDevices(devices) ==
    JoinWith([i \in DOMAIN devices |-> Line(String(devices[i].ID), devices[i])], Separator)

\* Mutant: the fields are taken from both ends and a line of more is accepted.
ReadLinesLoosely(text) ==
    LET lines == IF text = <<>> THEN <<>> ELSE Split(text, Separator)
        fields(i) == Split(lines[i], Comma)
        id(i) == Split(fields(i)[1], Sign("@"))
        last(i) == fields(i)[Len(fields(i))]
    IN  IF \A i \in DOMAIN lines : Len(fields(i)) >= 4 /\ Len(id(i)) = 2
        THEN [raised |-> FALSE,
              devices |->
                [i \in DOMAIN lines |->
                    [JID |-> build_jid(id(i)[1], id(i)[2]), PushName |-> fields(i)[2],
                     BusinessName |-> fields(i)[3],
                     Initialized |-> last(i) = <<Sign("true")>>]]]
        ELSE [raised |-> TRUE, devices |-> <<>>]

\* get_all_devices_from_db: each line must fall into four fields, the first of
\* them into two, or the unpacking raises ValueError.
ReadLines(text) ==
    LET lines == IF text = <<>> THEN <<>> ELSE Split(text, Separator)
        fields(i) == Split(lines[i], Comma)
        id(i) == Split(fields(i)[1], Sign("@"))
    IN  IF \A i \in DOMAIN lines : Len(fields(i)) = 4 /\ Len(id(i)) = 2
        THEN [raised |-> FALSE,
              devices |->
                [i \in DOMAIN lines |->
                    [JID |-> build_jid(id(i)[1], id(i)[2]), PushName |-> fields(i)[2],
                     BusinessName |-> fields(i)[3],
                     Initialized |-> fields(i)[4] = <<Sign("true")>>]]]
        ELSE [raised |-> TRUE, devices |-> <<>>]

\* sqlstore finds a device by the text of its address.
GetDevice(devices, jid) == {i \in DOMAIN devices : String(devices[i].ID) = String(jid)}
-----------------------------------------------------------------------------
Row == [MutedUntil : Nat, Pinned : BOOLEAN, Archived : BOOLEAN]
ZeroTime == -1  \* of Go: in fact -62135596800 seconds
NoRow == [MutedUntil |-> 0, Pinned |-> FALSE, Archived |-> FALSE]

\* The nearest number with 24 binary digits, halfway to the even one.
Unit(n) ==
    CHOOSE u \in {1, 2, 4, 8, 16, 32, 64, 128} :
        n \div u < 16777216 /\ (u = 1 \/ n \div u >= 8388608)
Float32(n) ==
    LET u == Unit(n)
        low == n \div u
        rest == 2 * (n % u)
    IN  u * (IF rest > u \/ (rest = u /\ low % 2 = 1) THEN low + 1 ELSE low)

\* The key of a chat's row is the text of its address; chats differ in it.
RowKey(chat) == String(DecodeJidProto(chat))
ASSUME ChatsAssumption == \A c, d \in ChatJids : RowKey(c) = RowKey(d) => c = d

RowOf(chat) == IF RowKey(chat) \in DOMAIN settings THEN settings[RowKey(chat)] ELSE NoRow
-----------------------------------------------------------------------------
AccountTypeOK ==
    /\ \A d \in ToSet(table) : /\ d.ID \in DeviceJids
                              /\ d.PushName \in PushNames
                              /\ d.BusinessName \in BusinessNames
    /\ Len(table) <= MaxDevices
    /\ listing.raised \in BOOLEAN
    /\ listing.raised => listing.devices = <<>>
    /\ \A o \in opened : o.found \subseteq 1 .. MaxDevices
    /\ \A key \in DOMAIN settings : settings[key] \in Row
    /\ DOMAIN told = ChatJids
    /\ changes \in 0 .. MaxChanges

AccountInit ==
    /\ table = <<>>
    /\ seen = <<>>
    /\ listing = [raised |-> FALSE, devices |-> <<>>]
    /\ opened = {}
    /\ settings = <<>>
    /\ told = [chat \in ChatJids |-> NoRow]
    /\ shown = {}
    /\ changes = 0

Change == changes < MaxChanges /\ changes' = changes + 1

\* A login, which also tells the business name; the new device is a row of its own.
AddDevice(jid, push, business, initialized) ==
    /\ Change
    /\ Len(table) < MaxDevices
    /\ GetDevice(table, jid) = {}
    /\ table' = Append(table, Device(jid, push, business, initialized))
    /\ UNCHANGED <<seen, listing, opened, chats>>

\* A logout, from this program or from the phone.
RemoveDevice(i) ==
    /\ Change
    /\ table' = RemoveAt(table, i)
    /\ UNCHANGED <<seen, listing, opened, chats>>

\* The account's push name changes.
RenameDevice(i, push) ==
    /\ Change
    /\ table' = [table EXCEPT ![i].PushName = push]
    /\ UNCHANGED <<seen, listing, opened, chats>>

ListDevices ==
    /\ seen' = table
    /\ listing' = ReadLines(GetAllDevices(table))
    /\ UNCHANGED <<table, opened, chats, changes>>

\* The names a device has in a list, and whether either holds a mark.
Named(d, mark) == Holds(d.PushName, mark) \/ Holds(d.BusinessName, mark)

\* Each of them is one field of one line.
Plain(d) == ~Named(d, Comma) /\ ~Named(d, Separator)

\* Between them they have all that the line of a device is made of.
MayForge(d) == \A mark \in {Separator, Comma, Sign("@")} : Named(d, mark)

\* new_client of a listed device and its connect: the key in the Go map is the
\* user, the device is looked up by the address Go decodes.
OpenListed(i) ==
    /\ LET meant == IF \A j \in DOMAIN seen : Plain(seen[j]) THEN {seen[i].ID} ELSE {}
           jid == listing.devices[i].JID
       IN  opened' = opened \cup
              {[key |-> jid.User, meant |-> meant,
                present |-> UNION {GetDevice(table, id) : id \in meant},
                found |-> GetDevice(table, DecodeJidProto(jid))]}
    /\ UNCHANGED <<table, seen, listing, settings, told, shown, changes>>

PutRow(chat, row) ==
    settings' = [key \in DOMAIN settings \cup {RowKey(chat)} |->
                    IF key = RowKey(chat) THEN row ELSE settings[key]]

\* The duration goes through a C float and becomes seconds since 1970.
put_muted_until(chat, seconds) ==
    /\ Change
    /\ PutRow(chat, [RowOf(chat) EXCEPT !.MutedUntil = Float32(seconds)])
    /\ told' = [told EXCEPT ![chat].MutedUntil = seconds]
    /\ shown' = {}
    /\ UNCHANGED accounts

put_pinned(chat, pinned) ==
    /\ Change
    /\ PutRow(chat, [RowOf(chat) EXCEPT !.Pinned = pinned])
    /\ told' = [told EXCEPT ![chat].Pinned = pinned]
    /\ shown' = {}
    /\ UNCHANGED accounts

put_archived(chat, archived) ==
    /\ Change
    /\ PutRow(chat, [RowOf(chat) EXCEPT !.Archived = archived])
    /\ told' = [told EXCEPT ![chat].Archived = archived]
    /\ shown' = {}
    /\ UNCHANGED accounts

\* Mutant: the next field of the row is read for each.
get_chat_settings_shifted(chat) ==
    /\ shown' = {[chat |-> chat, Found |-> RowKey(chat) \in DOMAIN settings,
                  MutedUntil |-> IF RowOf(chat).MutedUntil = 0 THEN ZeroTime
                                 ELSE RowOf(chat).MutedUntil,
                  Pinned |-> RowOf(chat).Archived, Archived |-> RowOf(chat).Archived]}
    /\ UNCHANGED <<accounts, settings, told, changes>>

\* GetChatSettings fills Archived from Pinned; 0 and no row are the zero time.
get_chat_settings(chat) ==
    /\ shown' = {[chat |-> chat, Found |-> RowKey(chat) \in DOMAIN settings,
                  MutedUntil |-> IF RowOf(chat).MutedUntil = 0 THEN ZeroTime
                                 ELSE RowOf(chat).MutedUntil,
                  Pinned |-> RowOf(chat).Pinned, Archived |-> RowOf(chat).Pinned]}
    /\ UNCHANGED <<accounts, settings, told, changes>>

AccountNext ==
    \/ \E jid \in DeviceJids, push \in PushNames, business \in BusinessNames, b \in BOOLEAN :
          AddDevice(jid, push, business, b)
    \/ \E i \in DOMAIN table : RemoveDevice(i) \/ \E push \in PushNames : RenameDevice(i, push)
    \/ ListDevices
    \/ \E i \in DOMAIN listing.devices : OpenListed(i)
    \/ \E chat \in ChatJids :
          \/ \E seconds \in Durations : put_muted_until(chat, seconds)
          \/ \E b \in BOOLEAN : put_pinned(chat, b) \/ put_archived(chat, b)
          \/ get_chat_settings(chat)
-----------------------------------------------------------------------------
(* Properties.                                                             *)

\* The list is the table as it was, in order and whole, if all push names and
\* business names are plain; it is refused, all of it, as soon as one is not, unless
\* the names of one device may read as devices of their own.
ListingIsTrue ==
    /\ (\A i \in DOMAIN seen : Plain(seen[i])) =>
          /\ ~listing.raised
          /\ Len(listing.devices) = Len(seen)
          /\ \A i \in DOMAIN seen :
                /\ String(DecodeJidProto(listing.devices[i].JID)) = String(seen[i].ID)
                /\ listing.devices[i].PushName = seen[i].PushName
                /\ listing.devices[i].BusinessName = seen[i].BusinessName
                /\ listing.devices[i].Initialized = seen[i].Initialized
    /\ \A i \in DOMAIN seen :
          Plain(seen[i]) \/ listing.raised \/ MayForge(seen[i])

\* A client made from a device of a list that is true opens that device, if it is
\* still there, although the list's JID holds the device within the user; and no
\* two devices, not even of one user, share a key.
ListedIsFound ==
    /\ \A o \in opened : o.meant # {} => o.found = o.present
    /\ \A o, p \in opened :
          o.key = p.key /\ o.meant # {} /\ p.meant # {} => o.meant = p.meant

\* What is shown of a chat is what was told of it, a duration to within half the
\* step of a C float, none at all as the zero time; but for Archived, which
\* repeats Pinned.
SettingsReadBack ==
    \A answer \in shown :
        LET last == told[answer.chat]
            off == answer.MutedUntil - last.MutedUntil
        IN  /\ answer.Pinned = last.Pinned
            /\ answer.Archived = last.Pinned
            /\ IF last.MutedUntil = 0 THEN answer.MutedUntil = ZeroTime
               ELSE 2 * off \in -Unit(last.MutedUntil) .. Unit(last.MutedUntil)
            /\ last # NoRow => answer.Found
=============================================================================
