------------------------------ MODULE Payloads ------------------------------
(***************************************************************************)
(* What messages and requests carry: which field of a message the helpers  *)
(* of Python take for its content, which keys an upload is encrypted with, *)
(* and the lists that some methods send as one text or one byte string.    *)
(***************************************************************************)
EXTENDS Jids

\* The fields of a Message that the examples and builders meet, in the order of
\* their numbers, and those that have "Message" for a last name.
Fields ==
    <<"conversation", "senderKeyDistributionMessage", "imageMessage",
      "extendedTextMessage", "documentMessage", "audioMessage", "videoMessage",
      "call", "stickerMessage", "messageContextInfo",
      "documentWithCaptionMessage", "viewOnceMessageV2">>
EndInMessage ==
    ToSet(Fields) \ {"conversation", "call", "messageContextInfo", "viewOnceMessageV2"}

\* What a message is about, and what may come along with it.
Contents == ToSet(Fields) \ {"senderKeyDistributionMessage", "messageContextInfo"}
Company == {"senderKeyDistributionMessage", "messageContextInfo"}

\* The first of some names that a set holds.
FirstIn(names, set, none) ==
    LET held == {i \in DOMAIN names : names[i] \in set}
    IN  IF held = {} THEN none ELSE names[Min(held)]

\* ListFields is in the order of the numbers; the first that fits is the answer.
get_message_type(message) ==
    FirstIn(Fields, message \cap (EndInMessage \cup {"conversation"}), "IndexError")

\* Mutant: the caption of a document is forgotten.
extract_text_of_few(message) ==
    FirstIn(<<"imageMessage", "extendedTextMessage", "videoMessage", "conversation">>,
            message, "none")

\* The field whose text, or caption, is returned, if any.
extract_text(message) ==
    FirstIn(<<"imageMessage", "extendedTextMessage", "videoMessage",
              "documentMessage", "conversation">>, message, "none")

\* The member of MediaTypeToMMS that from_message looks up by the type, if any.
from_message(message) ==
    LET type == get_message_type(message)
    IN  CASE type = "imageMessage" -> "MediaImage"
          [] type = "audioMessage" -> "MediaAudio"
          [] type = "videoMessage" -> "MediaVideo"
          [] type = "documentMessage" -> "MediaDocument"
          [] type = "IndexError" -> "IndexError"
          [] OTHER -> "KeyError"
-----------------------------------------------------------------------------
(* Uploads.  A medium is encrypted with keys of its type, and whoever has  *)
(* the message derives the keys from the message's kind.                   *)

MediaNames ==
    <<"MediaImage", "MediaVideo", "MediaAudio", "MediaDocument", "MediaHistory",
      "MediaAppState", "MediaLinkThumbnail">>

\* MediaType, an enumeration of Python from 0, and the list Go indexes with it.
MediaCode(name) == CHOOSE i \in 0 .. 6 : MediaNames[i + 1] = name
GoMediaType ==
    <<"MediaImage", "MediaVideo", "MediaAudio", "MediaDocument", "MediaHistory",
      "MediaAppState", "MediaLinkThumbnail">>

from_magic(class) ==
    CASE class = "image" -> "MediaImage"
      [] class = "video" -> "MediaVideo"
      [] class = "audio" -> "MediaAudio"
      [] OTHER -> "MediaDocument"

\* Mutant: a sticker is uploaded as the file it was made from.
UploadedAsGiven(kind, class) ==
    LET name == from_magic(class)
    IN  GoMediaType[MediaCode(name) + 1]

\* upload, as the builders call it: with what the bytes are, for a sticker those
\* of the WebP file made of it.
Uploaded(kind, class) ==
    LET name == from_magic(IF kind = "stickerMessage" THEN "image" ELSE class)
    IN  GoMediaType[MediaCode(name) + 1]

\* DownloadAny of whatsmeow, and every other receiver.
DownloadedAs(kind) ==
    CASE kind \in {"imageMessage", "stickerMessage"} -> "MediaImage"
      [] kind = "videoMessage" -> "MediaVideo"
      [] kind = "audioMessage" -> "MediaAudio"
      [] kind = "documentMessage" -> "MediaDocument"

\* What a builder sends can be opened by whoever receives it, unless the file is
\* not of the class that the kind of message stands for: an image sent as a
\* document is encrypted as an image and decrypted as a document.
Readable(kind, class) ==
    Uploaded(kind, class) = DownloadedAs(kind) <=>
        \/ kind = "stickerMessage"
        \/ kind = "imageMessage" /\ class = "image"
        \/ kind = "videoMessage" /\ class = "video"
        \/ kind = "audioMessage" /\ class = "audio"
        \/ kind = "documentMessage" /\ class \notin {"image", "video", "audio"}

\* Contents that have a text or a caption of their own, and those that a server keeps.
Worded ==
    {"conversation", "extendedTextMessage", "imageMessage", "videoMessage", "documentMessage"}
Served == {"imageMessage", "videoMessage", "audioMessage", "documentMessage"}

\* Whatever comes along, the text of a message is found if its content has one, and
\* its type is its content's; its server is then that of the keys a receiver decrypts
\* it with, and there is none for what no server keeps, nor for a sticker, which one
\* does.  But the first message of a member of a group brings the sender's key, which
\* is taken for the type of all but a conversation, and contents whose names do not end
\* in Message have no type at all.
ContentFound(content, company) ==
    LET message == {content} \cup company
        keyed == content # "conversation" /\ "senderKeyDistributionMessage" \in company
        misnamed == content \in {"call", "viewOnceMessageV2"}
        found == get_message_type(message)
        mms == from_message(message)
    IN  /\ extract_text(message) = IF content \in Worded THEN content ELSE "none"
        /\ keyed => found = "senderKeyDistributionMessage" /\ mms = "KeyError"
        /\ ~keyed /\ misnamed => found = "IndexError" /\ mms = "IndexError"
        /\ ~keyed /\ ~misnamed =>
              /\ found = content
              /\ mms = IF content \in Served THEN DownloadedAs(content) ELSE "KeyError"
-----------------------------------------------------------------------------
(* Lists.  Ids and numbers are texts; the methods join them with spaces    *)
(* and Go splits them again.                                               *)

Space == Sign(" ")
Join(texts) == JoinWith(texts, Space)

mark_read(ids) == Split(Join(ids), Space)

\* Mutant: the test for no numbers is missing.
is_on_whatsapp_unguarded(numbers) == Split(Join(numbers), Space)

is_on_whatsapp(numbers) == IF numbers = <<>> THEN <<>> ELSE Split(Join(numbers), Space)

\* struct.pack of signed bytes, or struct.error; Go appends the bytes to a slice
\* that has as many zeros.
newsletter_mark_viewed(ids) ==
    IF \E i \in DOMAIN ids : ids[i] \notin -128 .. 127
    THEN [raised |-> TRUE, marked |-> <<>>]
    ELSE [raised |-> FALSE,
          marked |-> [i \in DOMAIN ids |-> 0] \o [i \in DOMAIN ids |-> ids[i] % 256]]

\* The ids and numbers that whatsmeow gets are those given: none, when there are
\* none, is read as one that is empty by mark_read alone, and a number written
\* with a space counts as two.
TextsArrive(texts) ==
    LET spaced == \E i \in DOMAIN texts : Holds(texts[i], Space)
    IN  /\ mark_read(texts) = texts <=> texts # <<>> /\ ~spaced
        /\ is_on_whatsapp(texts) = texts <=> ~spaced

\* Every message of a newsletter given as viewed is marked, and otherwise only a
\* message 0; the list is refused when one has a number beyond a signed byte.
ViewedArrive(ids) ==
    LET answer == newsletter_mark_viewed(ids)
    IN  /\ answer.raised <=> \E i \in DOMAIN ids : ids[i] > 127
        /\ ~answer.raised =>
              /\ SubSeq(answer.marked, Len(ids) + 1, Len(answer.marked)) = ids
              /\ \A i \in DOMAIN ids : answer.marked[i] = 0
=============================================================================
