------------------------------- MODULE Values -------------------------------
(***************************************************************************)
(* The helpers of the package that compute and keep nothing, asked one at  *)
(* a time, beside the accounts that do keep something.  An answer does not *)
(* depend on the accounts, so each is asked of a fresh database only.      *)
(***************************************************************************)
EXTENDS Accounts, Payloads, Pictures, Releases

CONSTANTS
    WireJids,   \* protobuf JIDs of any width
    KeyJids,    \* JIDs as messages bring them, for the keys of messages
    TextLists,  \* lists of ids of messages and of numbers of phones
    IdLists,    \* lists of ids of messages of a newsletter
    Sides,      \* widths and heights of pictures
    Classes     \* of files: the first half of a MIME type

\* Pillow opens no picture without pixels.
ASSUME SidesAssumption == Sides \subseteq Nat \ {0}

\* A program writes the address of a user itself or takes that of a listed device.
ASSUME WireJidsAssumption ==
    \A jid \in WireJids :
        /\ jid.RawAgent \in Nat /\ jid.Device \in Nat /\ jid.Integrator \in Nat
        /\ jid.Server \in Seq(Names)
        /\ \/ jid.User \in Seq(Names)
           \/ /\ jid.RawAgent = 0 /\ jid.Device = 0 /\ jid.User # <<>>
              /\ jid.User \in Seq(Token)
              /\ \E d \in DeviceJids : jid.User \o <<Sign("@")>> \o jid.Server = String(d)

ASSUME ListsAssumption ==
    TextLists \subseteq Seq(Seq(Token \cup {Space})) /\ IdLists \subseteq Seq(Nat)

\* A JID of a message was encoded by Go, from fields of 8 and 16 bits.
ASSUME KeyJidsAssumption ==
    \A jid \in KeyJids :
        /\ jid.User \in Seq(Token) /\ jid.Server \in Seq(Token)
        /\ jid.RawAgent \in Nat /\ jid.RawAgent < 256
        /\ jid.Device \in Nat /\ jid.Device < 65536
        /\ jid.IsEmpty = (jid.Server = <<>>)
        /\ jid = EncodeJidProto(jid)

VARIABLES call, answer  \* the helper that was asked, and what it answered

vars == <<accountVars, call, answer>>

Fresh == call.of = "none" /\ changes = 0 /\ UNCHANGED accountVars

AskAddress ==
    /\ Fresh
    /\ \E jid \in WireJids :
          /\ call' = [of |-> "address", jid |-> jid]
          /\ answer' = DecodeJidProto(jid)

AskKey ==
    /\ Fresh
    /\ \E chat, sender, me \in KeyJids :
          /\ call' = [of |-> "key", chat |-> chat, sender |-> sender, me |-> me]
          /\ answer' = build_revoke(chat, sender, me)

AskContent ==
    /\ Fresh
    /\ \E content \in Contents, company \in SUBSET Company :
          /\ call' = [of |-> "content", content |-> content, company |-> company]
          /\ answer' = get_message_type({content} \cup company)

AskUpload ==
    /\ Fresh
    /\ \E class \in Classes,
          kind \in {"imageMessage", "stickerMessage", "videoMessage", "audioMessage",
                    "documentMessage"} :
          /\ call' = [of |-> "upload", kind |-> kind, class |-> class]
          /\ answer' = Uploaded(kind, class)

AskTexts ==
    /\ Fresh
    /\ \E texts \in TextLists :
          /\ call' = [of |-> "texts", texts |-> texts]
          /\ answer' = is_on_whatsapp(texts)

AskViewed ==
    /\ Fresh
    /\ \E ids \in IdLists :
          /\ call' = [of |-> "viewed", ids |-> ids]
          /\ answer' = newsletter_mark_viewed(ids)

AskPicture ==
    /\ Fresh
    /\ \E width, height \in Sides :
          /\ call' = [of |-> "picture", width |-> width, height |-> height]
          /\ answer' \in Thumbnails(width, height)

AskName ==
    /\ Fresh
    /\ \E p \in Platforms :
          /\ call' = [of |-> "name", platform |-> p]
          /\ answer' = AskedName(p)

TypeOK ==
    /\ AccountTypeOK
    /\ call.of = "address" =>
          /\ answer.RawAgent \in Nat /\ answer.RawAgent < 256
          /\ \A n \in {answer.Device, answer.Integrator} : n \in Nat /\ n < 65536
    /\ call.of = "viewed" /\ ~answer.raised => ToSet(answer.marked) \subseteq 0 .. 255

Init == AccountInit /\ call = [of |-> "none"] /\ answer = {}

Next ==
    \/ AccountNext /\ call' = [of |-> "none"] /\ answer' = {}
    \/ AskAddress \/ AskKey \/ AskContent \/ AskUpload
    \/ AskTexts \/ AskViewed \/ AskPicture \/ AskName

Spec == Init /\ [][Next]_vars
-----------------------------------------------------------------------------
\* Each property of an answer is explained where it is defined.
AddressesAgree == call.of = "address" => SameAddress(call.jid)

KeysAgree == call.of = "key" => SameKey(call.chat, call.sender, call.me)

ContentsFound == call.of = "content" => ContentFound(call.content, call.company)

SentIsReadable == call.of = "upload" => Readable(call.kind, call.class)

RequestsArrive ==
    /\ call.of = "texts" => TextsArrive(call.texts)
    /\ call.of = "viewed" => ViewedArrive(call.ids)

PicturesKeepShape ==
    call.of = "picture" =>
        ThumbnailMade(call.width, call.height) /\ PictureShaped(call.width, call.height)

PlatformsServed == call.of = "name" => PlatformServed(call.platform)
=============================================================================
