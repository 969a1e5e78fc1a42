---------------------------- MODULE ValuesProofs ----------------------------
(***************************************************************************)
(* Pictures of any size, settings of any chats, contents of any messages,  *)
(* files of any class, libraries of any platform, and the types of all.    *)
(***************************************************************************)
EXTENDS Values, TextProofs

-----------------------------------------------------------------------------
(* Division.                                                               *)

\* The quotient of two naturals lies between its neighbours.
LEMMA Quotient ==
    ASSUME NEW a \in Nat, NEW b \in Nat, b > 0, NEW q, q = a \div b
    PROVE  q \in Nat /\ q * b <= a /\ a < (q + 1) * b
<1>1. /\ q \in Nat /\ a % b \in 0 .. b - 1
      /\ a = q * b + (a % b)
  OBVIOUS
<1>2. (q + 1) * b = q * b + b
  BY <1>1
<1> QED
  BY <1>1, <1>2

-----------------------------------------------------------------------------
(* Pictures of any size.                                                   *)

\* The two ways in which a picture larger than its box is fitted: as high as the
\* box, or as wide, with a side of at least one pixel that is within one of right.
LEMMA Fitted ==
    ASSUME NEW x \in Nat, NEW y \in Nat, y > 0,
           NEW width \in Nat, NEW height \in Nat, width > 0, height > 0,
           ~ (x >= width /\ y >= height)
    PROVE  \/ /\ x * height >= y * width
              /\ \E n \in 1 .. x :
                    /\ ThumbnailIn(<<x, y>>, width, height) = <<n, y>>
                    /\ Distance(n * height, y * width) <= height
           \/ /\ x * height < y * width
              /\ \E n \in 1 .. y :
                    /\ ThumbnailIn(<<x, y>>, width, height) = <<x, n>>
                    /\ Distance(x * height, n * width) <= width
<1> DEFINE offX(n) == Distance(width * y, n * height)
           lowX == (y * width) \div height
           lowY == (x * height) \div width
           bestX == IF offX(lowX) <= offX(lowX + 1) THEN lowX ELSE lowX + 1
           bestY == IF lowY = 0 \/ (x * height) % width = 0
                       \/ Distance(width * lowY, x * height) * (lowY + 1)
                             <= Distance(width * (lowY + 1), x * height) * lowY
                    THEN lowY ELSE lowY + 1
           atLeastOne(n) == IF n = 0 THEN 1 ELSE n
<1>1. /\ y * width \in Nat /\ x * height \in Nat
      /\ width * y = y * width /\ y * width > 0
  OBVIOUS
<1>2. lowX \in Nat /\ lowX * height <= y * width /\ y * width < (lowX + 1) * height
  BY <1>1, Quotient
<1>3. lowY \in Nat /\ lowY * width <= x * height /\ x * height < (lowY + 1) * width
  BY <1>1, Quotient
<1>4. CASE x * height >= y * width
  <2>1. ThumbnailIn(<<x, y>>, width, height) = <<atLeastOne(bestX), y>>
    BY <1>4 DEF ThumbnailIn
  <2>2. bestX \in {lowX, lowX + 1}
    OBVIOUS
  <2>3. bestX \in Nat /\ bestX <= x
    <3>1. lowX <= x
      <4>1. lowX * height <= x * height
        BY <1>1, <1>2, <1>4
      <4> HIDE DEF lowX
      <4> QED
        BY <1>2, <4>1
    <3>2. CASE lowX < x
      <4> HIDE DEF lowX
      <4> QED
        BY <1>2, <3>2
    <3>3. CASE lowX = x
      <4>1. lowX * height = y * width
        BY <1>1, <1>2, <1>4, <3>3
      <4>2. offX(lowX) = 0 /\ offX(lowX + 1) >= 0
        BY <1>1, <1>2, <4>1 DEF Distance
      <4>3. bestX = lowX
        BY <4>2
      <4> QED
        BY <1>2, <3>3, <4>3
    <3> QED
      BY <1>2, <3>1, <3>2, <3>3
  <2>4. x >= 1
    BY <1>1, <1>4
  <2>5. Distance(atLeastOne(bestX) * height, y * width) <= height
    <3>1. (lowX + 1) * height = lowX * height + height
      BY <1>2
    <3>2. CASE bestX = lowX /\ lowX # 0
      BY <1>1, <1>2, <3>1, <3>2 DEF Distance
    <3>3. CASE bestX = lowX + 1 \/ bestX = 0
      BY <1>1, <1>2, <3>1, <3>3 DEF Distance
    <3> QED
      BY <2>2, <3>2, <3>3
  <2>6. atLeastOne(bestX) \in 1 .. x
    <3> HIDE DEF bestX
    <3> QED
      BY <2>3, <2>4
  <2> HIDE DEF bestX, atLeastOne
  <2> QED
    BY <1>4, <2>1, <2>5, <2>6
<1>5. CASE x * height < y * width
  <2>1. ThumbnailIn(<<x, y>>, width, height) = <<x, atLeastOne(bestY)>>
    BY <1>1, <1>5 DEF ThumbnailIn
  <2>2. bestY \in {lowY, lowY + 1} /\ (lowY = 0 => bestY = 0)
    BY <1>3
  <2>3. lowY < y
    <3>1. lowY * width < y * width
      BY <1>1, <1>3, <1>5
    <3> HIDE DEF lowY
    <3> QED
      BY <1>3, <3>1
  <2>4. atLeastOne(bestY) \in 1 .. y
    <3> HIDE DEF bestY, lowY
    <3> QED
      BY <1>3, <2>2, <2>3
  <2>5. Distance(x * height, atLeastOne(bestY) * width) <= width
    <3>1. (lowY + 1) * width = lowY * width + width
      BY <1>3
    <3> HIDE DEF bestY, lowY
    <3>2. CASE lowY = 0
      BY <1>1, <1>3, <2>2, <3>1, <3>2 DEF Distance
    <3>3. CASE lowY # 0
      <4>1. atLeastOne(bestY) * width \in {lowY * width, lowY * width + width}
        BY <1>3, <2>2, <3>1, <3>3
      <4>2. lowY * width \in Nat
        BY <1>3
      <4> QED
        BY <1>1, <1>3, <3>1, <4>1, <4>2 DEF Distance
    <3> QED
      BY <3>2, <3>3
  <2> HIDE DEF bestY, atLeastOne
  <2> QED
    BY <1>5, <2>1, <2>4, <2>5
<1> QED
  BY <1>1, <1>4, <1>5

\* What a box for a high picture can be.
LEMMA HighBox ==
    ASSUME NEW width \in Nat, NEW height \in Nat, width > 0, width < height,
           NEW res \in Nat, res > 0, NEW box \in AspectRatioMethod(width, height, res)
    PROVE  \E x \in 0 .. res :
              /\ box = <<x, res>>
              /\ x = 0 <=> height > res * width
              /\ Distance(x * height, res * width) <= height
<1> DEFINE short == (width * res) \div height
<1>1. width * res \in Nat /\ width * res = res * width /\ height > 0
  OBVIOUS
<1>2. short \in Nat /\ short * height <= width * res /\ width * res < (short + 1) * height
  <2>1. \A a, b \in Nat : b > 0 =>
            /\ a \div b \in Nat /\ (a \div b) * b <= a
            /\ a < ((a \div b) + 1) * b
    BY Quotient
  <2> QED
    BY <1>1, <2>1
<1>3. (short + 1) * height = short * height + height
  BY <1>2
<1>4. short < res
  <2>1. width * res < height * res
    OBVIOUS
  <2>2. short * height < res * height
    BY <1>1, <1>2, <2>1
  <2> HIDE DEF short
  <2> QED
    BY <1>2, <2>2
<1>5. short = 0 <=> height > res * width
  <2>1. short = 0 => height > res * width
    BY <1>1, <1>2
  <2>2. short # 0 => short * height >= height
    <3> HIDE DEF short
    <3> QED
      BY <1>2
  <2> QED
    BY <1>1, <1>2, <2>1, <2>2
<1>6. box \in (IF (width * res) % height = 0 /\ short > 1 THEN {short - 1, short}
               ELSE {short}) \X {res}
  BY DEF AspectRatioMethod
<1>7. CASE box = <<short, res>>
  <2>1. Distance(short * height, res * width) <= height
    BY <1>1, <1>2, <1>3 DEF Distance
  <2> HIDE DEF short
  <2> QED
    BY <1>2, <1>4, <1>5, <1>7, <2>1
<1>8. CASE box = <<short - 1, res>> /\ (width * res) % height = 0 /\ short > 1
  <2>1. short * height = width * res
    BY <1>1, <1>8
  <2>2. (short - 1) * height = short * height - height
    BY <1>2
  <2>3. Distance((short - 1) * height, res * width) <= height
    BY <1>1, <1>2, <2>1, <2>2 DEF Distance
  <2> HIDE DEF short
  <2> QED
    BY <1>2, <1>4, <1>5, <1>8, <2>3
<1> HIDE DEF short
<1> QED
  BY <1>6, <1>7, <1>8

\* The thumbnail of a picture of any size.
LEMMA AnyThumbnail ==
    ASSUME NEW width \in Nat, NEW height \in Nat, width > 0, height > 0
    PROVE  ThumbnailMade(width, height)
<1> DEFINE Good(size) ==
      /\ size[1] = 0 <=> height > 200 * width
      /\ size[1] \in 0 .. 200 /\ size[2] \in 1 .. 200
      /\ size[1] > 0 => Keeps(size, width, height)
<1> SUFFICES ASSUME NEW box \in AspectRatioMethod(width, height, 200)
             PROVE  Good(ThumbnailIn(box, width, height))
  BY DEF ThumbnailMade, Thumbnails
<1>1. \E x \in 0 .. 200, y \in 1 .. 200 :
          /\ box = <<x, y>>
          /\ x = 0 <=> height > 200 * width
  <2>1. CASE width >= height
    <3>1. box \in {<<200, 199>>, <<200, 200>>}
      <4>1. CASE width > height
        <5>1. box \in {200} \X {199, 200}
          BY <4>1 DEF AspectRatioMethod
        <5> QED
          BY <5>1
      <4>2. CASE width = height
        BY <4>2 DEF AspectRatioMethod
      <4> QED
        BY <2>1, <4>1, <4>2
    <3>2. ~ (height > 200 * width)
      BY <2>1
    <3> HIDE DEF Good
    <3>3. \A y : y \in {199, 200} => y \in 1 .. 200
      OBVIOUS
    <3>4. 200 \in 0 .. 200 /\ 200 # 0
      OBVIOUS
    <3>5. CASE box = <<200, 199>>
      BY <3>2, <3>3, <3>4, <3>5
    <3>6. CASE box = <<200, 200>>
      BY <3>2, <3>3, <3>4, <3>6
    <3> QED
      BY <3>1, <3>5, <3>6
  <2>2. CASE width < height
    <3>1. PICK x \in 0 .. 200 :
              /\ box = <<x, 200>>
              /\ x = 0 <=> height > 200 * width
              /\ Distance(x * height, 200 * width) <= height
      <4> HIDE DEF Good
      <4> QED
        BY <2>2, HighBox, 200 \in Nat, 200 > 0
    <3> HIDE DEF Good
    <3> QED
      BY <3>1
  <2> HIDE DEF Good
  <2>3. width >= height \/ width < height
    OBVIOUS
  <2> QED
    BY <2>1, <2>2, <2>3
<1>2. PICK x \in 0 .. 200, y \in 1 .. 200 :
          /\ box = <<x, y>>
          /\ x = 0 <=> height > 200 * width
  BY <1>1
<1>3. CASE x >= width /\ y >= height
  <2>1. ThumbnailIn(box, width, height) = <<width, height>>
    BY <1>2, <1>3 DEF ThumbnailIn
  <2>2. Keeps(<<width, height>>, width, height)
    BY DEF Keeps, Distance
  <2> QED
    BY <1>2, <1>3, <2>1, <2>2
<1>4. CASE ~ (x >= width /\ y >= height)
  <2>1. \/ \E n \in 1 .. x :
              /\ x * height >= y * width
              /\ ThumbnailIn(box, width, height) = <<n, y>>
              /\ Distance(n * height, y * width) <= height
        \/ \E n \in 1 .. y :
              /\ ThumbnailIn(box, width, height) = <<x, n>>
              /\ Distance(x * height, n * width) <= width
    <3>1. x \in Nat /\ y \in Nat /\ y > 0
      OBVIOUS
    <3> HIDE DEF Good
    <3>2. \/ /\ x * height >= y * width
             /\ \E n \in 1 .. x :
                   /\ ThumbnailIn(<<x, y>>, width, height) = <<n, y>>
                   /\ Distance(n * height, y * width) <= height
          \/ /\ x * height < y * width
             /\ \E n \in 1 .. y :
                   /\ ThumbnailIn(<<x, y>>, width, height) = <<x, n>>
                   /\ Distance(x * height, n * width) <= width
      BY <1>4, <3>1, Fitted
    <3> QED
      BY <1>2, <3>2
  <2>2. ASSUME NEW n \in 1 .. x,
               ThumbnailIn(box, width, height) = <<n, y>>,
               Distance(n * height, y * width) <= height
        PROVE  Good(ThumbnailIn(box, width, height))
    <3>1. Keeps(<<n, y>>, width, height)
      BY <2>2 DEF Keeps, Distance
    <3> QED
      BY <1>2, <2>2, <3>1
  <2>3. ASSUME NEW n \in 1 .. y,
               ThumbnailIn(box, width, height) = <<x, n>>,
               Distance(x * height, n * width) <= width
        PROVE  Good(ThumbnailIn(box, width, height))
    <3>1. Keeps(<<x, n>>, width, height)
      BY <2>3 DEF Keeps, Distance
    <3> QED
      BY <1>2, <2>3, <3>1
  <2> HIDE DEF Good
  <2> QED
    BY <2>1, <2>2, <2>3
<1> QED
  BY <1>3, <1>4

\* The other shapes of a picture of any size.
LEMMA AnyShape ==
    ASSUME NEW width \in Nat, NEW height \in Nat, width > 0, height > 0
    PROVE  PictureShaped(width, height)
<1>1. Distance(crop_image(width, height)[1], crop_image(width, height)[2]) <= 1
  BY DEF crop_image, Distance
<1>2. ASSUME NEW size \in sticker_scaler(width, height), ~(width > height)
      PROVE  Keeps(size, width, height)
  <2>1. CASE width = height
    BY <1>2, <2>1 DEF sticker_scaler, AspectRatioMethod, Keeps, Distance
  <2>2. CASE width < height
    <3>0. size \in AspectRatioMethod(width, height, 512)
      BY <1>2 DEF sticker_scaler
    <3>1. \A box \in AspectRatioMethod(width, height, 512) :
              \E x \in 0 .. 512 :
                  /\ box = <<x, 512>>
                  /\ x = 0 <=> height > 512 * width
                  /\ Distance(x * height, 512 * width) <= height
      BY <2>2, HighBox, 512 \in Nat, 512 > 0
    <3>2. PICK x \in 0 .. 512 :
              size = <<x, 512>> /\ Distance(x * height, 512 * width) <= height
      BY <3>0, <3>1
    <3> QED
      BY <2>2, <3>2 DEF Keeps
  <2> QED
    BY <1>2, <2>1, <2>2
<1>3. ASSUME NEW size \in sticker_scaler(width, height), width > height
      PROVE  Distance(size[1], size[2]) <= 1
  BY <1>3 DEF sticker_scaler, AspectRatioMethod, Distance
<1>4. LET at == auto_sticker(width, height)
      IN  /\ Distance(at[1], 512 - (at[1] + width)) <= 1
          /\ Distance(at[2], 512 - (at[2] + height)) <= 1
  BY DEF auto_sticker, Distance
<1> QED
  BY <1>1, <1>2, <1>3, <1>4 DEF PictureShaped

-----------------------------------------------------------------------------
(* What is asked of the helpers.                                           *)

Kinds ==
    {"imageMessage", "stickerMessage", "videoMessage", "audioMessage", "documentMessage"}

\* What a helper is given, and the answers that are compared with it.
Asked ==
    /\ call.of = "address" => call.jid \in WireJids /\ answer = DecodeJidProto(call.jid)
    /\ call.of = "key" =>
          call.chat \in KeyJids /\ call.sender \in KeyJids /\ call.me \in KeyJids
    /\ call.of = "content" => call.content \in Contents /\ call.company \in SUBSET Company
    /\ call.of = "upload" => call.kind \in Kinds
    /\ call.of = "texts" => call.texts \in TextLists
    /\ call.of = "viewed" => call.ids \in IdLists /\ answer = newsletter_mark_viewed(call.ids)
    /\ call.of = "picture" => call.width \in Sides /\ call.height \in Sides
    /\ call.of = "name" => call.platform \in Platforms

LEMMA CallsAsked == Spec => []Asked
<1>1. Init => Asked
  BY DEF Init, Asked
<1>2. Asked /\ [Next]_vars => Asked'
  <2> SUFFICES ASSUME Asked, [Next]_vars
               PROVE  Asked'
    OBVIOUS
  <2>1. CASE call' = [of |-> "none"]
    BY <2>1 DEF Asked
  <2>2. CASE AskAddress
    <3>1. PICK jid \in WireJids : /\ call' = [of |-> "address", jid |-> jid]
                                  /\ answer' = DecodeJidProto(jid)
      BY <2>2, Zenon DEF AskAddress
    <3>2. call'.of = "address" /\ call'.jid = jid
      BY <3>1
    <3> QED
      BY <3>1, <3>2 DEF Asked
  <2>3. CASE AskKey
    <3>1. PICK chat, sender, me \in KeyJids :
              call' = [of |-> "key", chat |-> chat, sender |-> sender, me |-> me]
      BY <2>3, Zenon DEF AskKey
    <3> QED
      BY <3>1 DEF Asked
  <2>4. CASE AskContent
    <3>1. PICK content \in Contents, company \in SUBSET Company :
              call' = [of |-> "content", content |-> content, company |-> company]
      BY <2>4, Zenon DEF AskContent
    <3> QED
      BY <3>1 DEF Asked
  <2>5. CASE AskUpload
    <3>1. \E kind \in Kinds : \E class :
              call' = [of |-> "upload", kind |-> kind, class |-> class]
      BY <2>5, Zenon DEF AskUpload, Kinds
    <3> QED
      BY <3>1 DEF Asked
  <2>6. CASE AskTexts
    <3>1. PICK texts \in TextLists : call' = [of |-> "texts", texts |-> texts]
      BY <2>6, Zenon DEF AskTexts
    <3> QED
      BY <3>1 DEF Asked
  <2>7. CASE AskViewed
    <3>1. PICK ids \in IdLists : /\ call' = [of |-> "viewed", ids |-> ids]
                                 /\ answer' = newsletter_mark_viewed(ids)
      BY <2>7, Zenon DEF AskViewed
    <3>2. call'.of = "viewed" /\ call'.ids = ids
      BY <3>1
    <3> QED
      BY <3>1, <3>2 DEF Asked
  <2>8. CASE AskPicture
    <3>1. PICK width \in Sides, height \in Sides :
              call' = [of |-> "picture", width |-> width, height |-> height]
      BY <2>8, Zenon DEF AskPicture
    <3> QED
      BY <3>1 DEF Asked
  <2>9. CASE AskName
    <3>1. PICK p \in Platforms : call' = [of |-> "name", platform |-> p]
      BY <2>9, Zenon DEF AskName
    <3> QED
      BY <3>1 DEF Asked
  <2>10. CASE UNCHANGED vars
    BY <2>10 DEF vars, Asked
  <2> QED
    BY <2>1, <2>2, <2>3, <2>4, <2>5, <2>6, <2>7, <2>8, <2>9, <2>10 DEF Next
<1> QED
  BY <1>1, <1>2, PTL DEF Spec

\* Whatever its size, the thumbnail that build_image_message sends of a picture
\* fits 200 pixels and keeps its ratio, or the picture is more than 200 times as
\* high as wide and Pillow raises; crop_image squares it, auto_sticker centres it and
\* sticker_scaler keeps its ratio, or squares it if it is wide, to within a pixel.
THEOREM PicturesOfAnySize == Spec => []PicturesKeepShape
<1>1. Asked => PicturesKeepShape
  <2>1. ASSUME NEW width \in Sides, NEW height \in Sides
        PROVE  ThumbnailMade(width, height) /\ PictureShaped(width, height)
    <3>1. width \in Nat /\ height \in Nat /\ width > 0 /\ height > 0
      BY SidesAssumption
    <3> QED
      BY <3>1, AnyThumbnail, AnyShape
  <2> QED
    BY <2>1 DEF Asked, PicturesKeepShape
<1> QED
  BY <1>1, CallsAsked, PTL

-----------------------------------------------------------------------------
(* Settings of chats.                                                      *)

Seconds == {n \in Nat : n <= 2147483647}
ToldRow == [MutedUntil : Seconds, Pinned : BOOLEAN, Archived : BOOLEAN]
RowTold(row) ==
    [MutedUntil |-> Float32(row.MutedUntil), Pinned |-> row.Pinned, Archived |-> row.Archived]
AnswerFor(chat) ==
    [chat |-> chat, Found |-> RowKey(chat) \in DOMAIN settings,
     MutedUntil |-> IF RowOf(chat).MutedUntil = 0 THEN ZeroTime ELSE RowOf(chat).MutedUntil,
     Pinned |-> RowOf(chat).Pinned, Archived |-> RowOf(chat).Pinned]

\* Each row holds what was told of its chat, the durations as floats, and an
\* answer is about the rows as they are.
SettingsInv ==
    /\ told \in [ChatJids -> ToldRow]
    /\ \A chat \in ChatJids : RowOf(chat) = RowTold(told[chat])
    /\ \A chat \in ChatJids : told[chat] # NoRow => RowKey(chat) \in DOMAIN settings
    /\ \A reply \in shown : \E chat \in ChatJids : reply = AnswerFor(chat)

\* The unit of a number below 2^31.
LEMMA UnitOf ==
    ASSUME NEW n \in Seconds
    PROVE  /\ Unit(n) \in {1, 2, 4, 8, 16, 32, 64, 128}
           /\ n \div Unit(n) < 16777216
           /\ Unit(n) = 1 \/ n \div Unit(n) >= 8388608
<1> DEFINE Fits(u) == n \div u < 16777216 /\ (u = 1 \/ n \div u >= 8388608)
<1>1. \E u \in {1, 2, 4, 8, 16, 32, 64, 128} : Fits(u)
  <2>1. n \in Nat /\ n <= 2147483647
    BY SMT DEF Seconds
  <2>2. n < 16777216 => Fits(1)
    BY <2>1, SMT
  <2>3. 16777216 <= n /\ n < 33554432 => Fits(2)
    BY <2>1, SMT
  <2>4. 33554432 <= n /\ n < 67108864 => Fits(4)
    BY <2>1, SMT
  <2>5. 67108864 <= n /\ n < 134217728 => Fits(8)
    BY <2>1, SMT
  <2>6. 134217728 <= n /\ n < 268435456 => Fits(16)
    BY <2>1, SMT
  <2>7. 268435456 <= n /\ n < 536870912 => Fits(32)
    BY <2>1, SMT
  <2>8. 536870912 <= n /\ n < 1073741824 => Fits(64)
    BY <2>1, SMT
  <2>9. 1073741824 <= n => Fits(128)
    BY <2>1, SMT
  <2> HIDE DEF Fits
  <2> QED
    BY <2>1, <2>2, <2>3, <2>4, <2>5, <2>6, <2>7, <2>8, <2>9, SMT
<1> HIDE DEF Fits
<1>2. Unit(n) = CHOOSE u \in {1, 2, 4, 8, 16, 32, 64, 128} : Fits(u)
  BY SMT DEF Unit, Fits
<1>3. Unit(n) \in {1, 2, 4, 8, 16, 32, 64, 128} /\ Fits(Unit(n))
  BY <1>1, <1>2, SMT
<1> QED
  BY <1>3, SMT DEF Fits

\* A C float is within half a unit of the number, and 0 only for 0.
LEMMA FloatNear ==
    ASSUME NEW n \in Seconds
    PROVE  /\ Float32(n) \in Nat
           /\ Float32(n) = 0 <=> n = 0
           /\ 2 * (Float32(n) - n) \in -Unit(n) .. Unit(n)
<1> DEFINE u == Unit(n)
           low == n \div u
           left == n % u
<1>1. /\ u \in {1, 2, 4, 8, 16, 32, 64, 128}
      /\ u = 1 \/ low >= 8388608
  BY UnitOf, SMT
<1>2. n \in Nat
  BY SMT DEF Seconds
<1>3. Float32(n) =
          u * (IF 2 * left > u \/ (2 * left = u /\ low % 2 = 1) THEN low + 1 ELSE low)
  BY SMT DEF Float32
<1> HIDE DEF u
<1>4. low \in Nat /\ left \in 0 .. u - 1 /\ n = u * low + left
  BY <1>1, <1>2, SMT
<1> HIDE DEF low, left
<1>5. u * (low + 1) = u * low + u /\ u * low \in Nat
  BY <1>1, <1>4, SMT
<1>6. /\ Float32(n) \in {u * low, u * low + u}
      /\ Float32(n) = u * low => 2 * left <= u
      /\ Float32(n) = u * low + u => 2 * left >= u
  BY <1>1, <1>3, <1>4, <1>5, SMT
<1>7. low # 0 \/ u = 1
  BY <1>1, SMT
<1>8. low # 0 => u * low > 0
  BY <1>1, <1>4, SMT
<1>9. u = 1 => left = 0
  BY <1>4, SMT
<1>10. Float32(n) \in Nat /\ 2 * (Float32(n) - n) \in -u .. u
  BY <1>1, <1>4, <1>5, <1>6, SMT
<1>11. Float32(n) = 0 <=> n = 0
  <2>1. CASE low # 0
    BY <1>1, <1>4, <1>5, <1>6, <1>8, <2>1, SMT
  <2>2. CASE low = 0
    BY <1>4, <1>5, <1>6, <1>7, <1>9, <2>2, SMT
  <2> QED
    BY <2>1, <2>2, SMT
<1> QED
  BY <1>10, <1>11, SMT DEF u

\* Writing the row of a chat leaves those of the others.
LEMMA RowPut ==
    ASSUME NEW chat \in ChatJids, NEW row, PutRow(chat, row)
    PROVE  /\ DOMAIN settings' = DOMAIN settings \cup {RowKey(chat)}
           /\ \A c \in ChatJids : RowOf(c)' = IF c = chat THEN row ELSE RowOf(c)
<1>1. settings' = [key \in DOMAIN settings \cup {RowKey(chat)} |->
                     IF key = RowKey(chat) THEN row ELSE settings[key]]
  BY DEF PutRow
<1>2. ASSUME NEW c \in ChatJids
      PROVE  RowOf(c)' = IF c = chat THEN row ELSE RowOf(c)
  <2>1. RowKey(c) = RowKey(chat) <=> c = chat
    BY ChatsAssumption
  <2>2. RowOf(c)' = IF RowKey(c) \in DOMAIN settings' THEN settings'[RowKey(c)] ELSE NoRow
    BY DEF RowOf
  <2> QED
    BY <1>1, <2>1, <2>2 DEF RowOf
<1> QED
  BY <1>1, <1>2

\* What any of the three writes do to the invariant.
LEMMA RowTelling ==
    ASSUME SettingsInv, NEW chat \in ChatJids, NEW row \in ToldRow,
           PutRow(chat, RowTold(row)), told' = [told EXCEPT ![chat] = row], shown' = {}
    PROVE  SettingsInv'
<1>1. told' \in [ChatJids -> ToldRow]
  BY DEF SettingsInv
<1>2. \A c \in ChatJids : told'[c] = IF c = chat THEN row ELSE told[c]
  BY DEF SettingsInv
<1>3. ASSUME NEW c \in ChatJids
      PROVE  RowOf(c)' = RowTold(told'[c])
  <2>1. RowOf(c)' = IF c = chat THEN RowTold(row) ELSE RowOf(c)
    BY RowPut
  <2> QED
    BY <1>2, <2>1 DEF SettingsInv
<1>4. ASSUME NEW c \in ChatJids, told'[c] # NoRow
      PROVE  RowKey(c) \in DOMAIN settings'
  <2>1. DOMAIN settings' = DOMAIN settings \cup {RowKey(chat)}
    BY RowPut
  <2> QED
    BY <1>2, <1>4, <2>1 DEF SettingsInv
<1> QED
  BY <1>1, <1>3, <1>4 DEF SettingsInv

\* The rows and what was told of them fit in every state.
LEMMA SettingsKept == Spec => []SettingsInv
<1>1. Init => SettingsInv
  <2> SUFFICES ASSUME Init
               PROVE  SettingsInv
    OBVIOUS
  <2>1. NoRow \in ToldRow /\ RowTold(NoRow) = NoRow
    <3>1. 0 \in Seconds
      BY SMT DEF Seconds
    <3>2. Float32(0) = 0
      BY <3>1, FloatNear
    <3> QED
      BY <3>1, <3>2 DEF NoRow, ToldRow, RowTold
  <2>2. settings = <<>> /\ told = [chat \in ChatJids |-> NoRow] /\ shown = {}
    BY DEF Init, AccountInit
  <2>3. \A chat \in ChatJids : RowOf(chat) = NoRow
    BY <2>2 DEF RowOf
  <2> QED
    BY <2>1, <2>2, <2>3 DEF SettingsInv
<1>2. SettingsInv /\ [Next]_vars => SettingsInv'
  <2> SUFFICES ASSUME SettingsInv, [Next]_vars
               PROVE  SettingsInv'
    OBVIOUS
  <2>1. CASE UNCHANGED chats
    <3>1. settings' = settings /\ told' = told /\ shown' = shown
      BY <2>1 DEF chats
    <3>2. \A chat : RowOf(chat)' = RowOf(chat)
      BY <3>1 DEF RowOf
    <3>3. \A chat : AnswerFor(chat)' = AnswerFor(chat)
      BY <3>1, <3>2 DEF AnswerFor
    <3> QED
      BY <3>1, <3>2, <3>3 DEF SettingsInv
  <2>2. ASSUME NEW chat \in ChatJids, NEW seconds \in Durations,
               put_muted_until(chat, seconds)
        PROVE  SettingsInv'
    <3> DEFINE row == [told[chat] EXCEPT !.MutedUntil = seconds]
    <3>1. told[chat] \in ToldRow /\ RowOf(chat) = RowTold(told[chat])
      BY DEF SettingsInv
    <3>2. seconds \in Seconds
      BY AccountsAssumption DEF Seconds
    <3>3. /\ row \in ToldRow
          /\ [RowOf(chat) EXCEPT !.MutedUntil = Float32(seconds)] = RowTold(row)
      BY <3>1, <3>2 DEF ToldRow, RowTold
    <3>4. /\ PutRow(chat, RowTold(row))
          /\ told' = [told EXCEPT ![chat] = row] /\ shown' = {}
      BY <2>2, <3>3 DEF put_muted_until, SettingsInv
    <3> HIDE DEF row
    <3> QED
      BY <3>3, <3>4, RowTelling
  <2>3. ASSUME NEW chat \in ChatJids, NEW b \in BOOLEAN,
               put_pinned(chat, b) \/ put_archived(chat, b)
        PROVE  SettingsInv'
    <3> DEFINE pinnedRow == [told[chat] EXCEPT !.Pinned = b]
               archivedRow == [told[chat] EXCEPT !.Archived = b]
    <3>1. told[chat] \in ToldRow /\ RowOf(chat) = RowTold(told[chat])
      BY DEF SettingsInv
    <3>2. /\ pinnedRow \in ToldRow /\ archivedRow \in ToldRow
          /\ [RowOf(chat) EXCEPT !.Pinned = b] = RowTold(pinnedRow)
          /\ [RowOf(chat) EXCEPT !.Archived = b] = RowTold(archivedRow)
      BY <3>1 DEF ToldRow, RowTold
    <3>3. \/ /\ PutRow(chat, RowTold(pinnedRow))
             /\ told' = [told EXCEPT ![chat] = pinnedRow]
          \/ /\ PutRow(chat, RowTold(archivedRow))
             /\ told' = [told EXCEPT ![chat] = archivedRow]
      BY <2>3, <3>2 DEF put_pinned, put_archived, SettingsInv
    <3>4. shown' = {}
      BY <2>3 DEF put_pinned, put_archived
    <3> HIDE DEF pinnedRow, archivedRow
    <3> QED
      BY <3>2, <3>3, <3>4, RowTelling
  <2>4. ASSUME NEW chat \in ChatJids, get_chat_settings(chat)
        PROVE  SettingsInv'
    <3>1. settings' = settings /\ told' = told /\ shown' = {AnswerFor(chat)}
      BY <2>4 DEF get_chat_settings, AnswerFor
    <3>2. \A c : RowOf(c)' = RowOf(c)
      BY <3>1 DEF RowOf
    <3>3. \A c : AnswerFor(c)' = AnswerFor(c)
      BY <3>1, <3>2 DEF AnswerFor
    <3> QED
      BY <3>1, <3>2, <3>3 DEF SettingsInv
  <2>5. CASE AccountNext
    BY <2>1, <2>2, <2>3, <2>4, <2>5
       DEF AccountNext, AddDevice, RemoveDevice, RenameDevice, ListDevices, OpenListed, chats
  <2>6. CASE ~ AccountNext
    <3>1. UNCHANGED accountVars
      BY <2>6 DEF Next, vars, Fresh, AskAddress, AskKey, AskContent, AskUpload,
                  AskTexts, AskViewed, AskPicture, AskName
    <3> QED
      BY <2>1, <3>1 DEF accountVars
  <2> QED
    BY <2>5, <2>6
<1> QED
  BY <1>1, <1>2, PTL DEF Spec

\* However many chats there are and whatever is written of them in whatever order,
\* get_chat_settings shows what was last told of its own chat: Pinned as it was,
\* Archived as Pinned, and the duration to within half a step of the C float.
THEOREM SettingsAlwaysReadBack == Spec => []SettingsReadBack
<1>1. SettingsInv => SettingsReadBack
  <2> SUFFICES ASSUME SettingsInv, NEW reply \in shown
               PROVE  LET last == told[reply.chat]
                          off == reply.MutedUntil - last.MutedUntil
                      IN  /\ reply.Pinned = last.Pinned
                          /\ reply.Archived = last.Pinned
                          /\ IF last.MutedUntil = 0 THEN reply.MutedUntil = ZeroTime
                             ELSE 2 * off \in -Unit(last.MutedUntil) .. Unit(last.MutedUntil)
                          /\ last # NoRow => reply.Found
    BY DEF SettingsReadBack
  <2>1. PICK chat \in ChatJids : reply = AnswerFor(chat)
    BY DEF SettingsInv
  <2>2. /\ told[chat] \in ToldRow /\ RowOf(chat) = RowTold(told[chat])
        /\ told[chat] # NoRow => RowKey(chat) \in DOMAIN settings
    BY DEF SettingsInv
  <2>3. reply.chat = chat /\ reply.Found = (RowKey(chat) \in DOMAIN settings)
    BY <2>1 DEF AnswerFor
  <2>4. /\ reply.Pinned = RowOf(chat).Pinned /\ reply.Archived = RowOf(chat).Pinned
        /\ reply.MutedUntil = IF RowOf(chat).MutedUntil = 0 THEN ZeroTime
                              ELSE RowOf(chat).MutedUntil
    BY <2>1 DEF AnswerFor
  <2>5. /\ RowOf(chat).Pinned = told[chat].Pinned
        /\ RowOf(chat).MutedUntil = Float32(told[chat].MutedUntil)
        /\ told[chat].MutedUntil \in Seconds
    BY <2>2 DEF ToldRow, RowTold
  <2>6. IF told[chat].MutedUntil = 0 THEN reply.MutedUntil = ZeroTime
        ELSE 2 * (reply.MutedUntil - told[chat].MutedUntil)
                 \in -Unit(told[chat].MutedUntil) .. Unit(told[chat].MutedUntil)
    BY <2>4, <2>5, FloatNear
  <2> QED
    BY <2>2, <2>3, <2>4, <2>5, <2>6
<1> QED
  BY <1>1, SettingsKept, PTL

-----------------------------------------------------------------------------
(* Uploads.                                                                *)

\* Both sides number the types of media alike.
LEMMA SameNumbers ==
    ASSUME NEW name \in {"MediaImage", "MediaVideo", "MediaAudio", "MediaDocument"}
    PROVE  GoMediaType[MediaCode(name) + 1] = name
<1>1. \E i \in 0 .. 6 : MediaNames[i + 1] = name
  BY MediaNames[0 + 1] = "MediaImage", MediaNames[1 + 1] = "MediaVideo",
     MediaNames[2 + 1] = "MediaAudio", MediaNames[3 + 1] = "MediaDocument" DEF MediaNames
<1>2. MediaCode(name) \in 0 .. 6 /\ MediaNames[MediaCode(name) + 1] = name
  BY <1>1 DEF MediaCode
<1> QED
  BY <1>2 DEF MediaNames, GoMediaType

\* Whatever class of file libmagic finds, a builder encrypts it with the keys that
\* receivers of its kind of message derive exactly if the class fits the kind; a
\* sticker, which is always a WebP file, always.
THEOREM AnySentIsReadable == Spec => []SentIsReadable
<1>1. ASSUME NEW kind \in Kinds, NEW class
      PROVE  Readable(kind, class)
  <2> DEFINE given == IF kind = "stickerMessage" THEN "image" ELSE class
  <2>1. from_magic(given) \in {"MediaImage", "MediaVideo", "MediaAudio", "MediaDocument"}
    BY DEF from_magic
  <2>2. Uploaded(kind, class) = from_magic(given)
    BY <2>1, SameNumbers DEF Uploaded
  <2>3. CASE kind \in {"imageMessage", "stickerMessage"}
    BY <2>2, <2>3 DEF Readable, DownloadedAs, from_magic
  <2>4. CASE kind = "videoMessage"
    BY <2>2, <2>4 DEF Readable, DownloadedAs, from_magic
  <2>5. CASE kind = "audioMessage"
    BY <2>2, <2>5 DEF Readable, DownloadedAs, from_magic
  <2>6. CASE kind = "documentMessage"
    BY <2>2, <2>6 DEF Readable, DownloadedAs, from_magic
  <2> QED
    BY <2>3, <2>4, <2>5, <2>6 DEF Kinds
<1>2. Asked => SentIsReadable
  BY <1>1 DEF Asked, SentIsReadable
<1> QED
  BY <1>2, CallsAsked, PTL

-----------------------------------------------------------------------------
(* What messages are about.                                                *)

\* The fields that carry a content, one by one, and those that end in Message.
LEMMA FieldsByName ==
    /\ DOMAIN Fields = 1 .. 12
    /\ EndInMessage = {"senderKeyDistributionMessage", "imageMessage", "extendedTextMessage",
                       "documentMessage", "audioMessage", "videoMessage", "stickerMessage",
                       "documentWithCaptionMessage"}
    /\ Contents = {"conversation", "imageMessage", "extendedTextMessage", "documentMessage",
                   "audioMessage", "videoMessage", "call", "stickerMessage",
                   "documentWithCaptionMessage", "viewOnceMessageV2"}
    /\ Fields[1] = "conversation" /\ Fields[2] = "senderKeyDistributionMessage"
    /\ \A name \in EndInMessage : \E i \in DOMAIN Fields : Fields[i] = name
<1>1. DOMAIN Fields = 1 .. 12
  BY DEF Fields
<1>2. /\ Fields[1] = "conversation" /\ Fields[2] = "senderKeyDistributionMessage"
      /\ Fields[3] = "imageMessage" /\ Fields[4] = "extendedTextMessage"
      /\ Fields[5] = "documentMessage" /\ Fields[6] = "audioMessage"
      /\ Fields[7] = "videoMessage" /\ Fields[8] = "call"
      /\ Fields[9] = "stickerMessage" /\ Fields[10] = "messageContextInfo"
      /\ Fields[11] = "documentWithCaptionMessage" /\ Fields[12] = "viewOnceMessageV2"
  BY DEF Fields
<1>3. ToSet(Fields) = {"conversation", "senderKeyDistributionMessage", "imageMessage",
                       "extendedTextMessage", "documentMessage", "audioMessage",
                       "videoMessage", "call", "stickerMessage", "messageContextInfo",
                       "documentWithCaptionMessage", "viewOnceMessageV2"}
  BY <1>1, <1>2 DEF ToSet
<1>4. /\ EndInMessage = {"senderKeyDistributionMessage", "imageMessage", "extendedTextMessage",
                         "documentMessage", "audioMessage", "videoMessage", "stickerMessage",
                         "documentWithCaptionMessage"}
      /\ Contents = {"conversation", "imageMessage", "extendedTextMessage", "documentMessage",
                     "audioMessage", "videoMessage", "call", "stickerMessage",
                     "documentWithCaptionMessage", "viewOnceMessageV2"}
  BY <1>3 DEF EndInMessage, Contents
<1>5. \A name \in EndInMessage : \E i \in DOMAIN Fields : Fields[i] = name
  BY <1>1, <1>2, <1>4
<1> QED
  BY <1>1, <1>2, <1>4, <1>5

LEMMA AnyContentFound ==
    ASSUME NEW content \in Contents, NEW company \in SUBSET Company
    PROVE  ContentFound(content, company)
<1> DEFINE message == {content} \cup company
           typed == message \cap (EndInMessage \cup {"conversation"})
           found == get_message_type(message)
<1>1. found = FirstIn(Fields, typed, "IndexError")
  BY Zenon DEF get_message_type
<1>2. company \subseteq {"senderKeyDistributionMessage", "messageContextInfo"}
  BY DEF Company
<1>3. content = "conversation" => found = content
  <2> SUFFICES ASSUME content = "conversation"
               PROVE  FirstIn(Fields, typed, "IndexError") = Fields[1]
    BY <1>1, FieldsByName
  <2> DEFINE k == 1
  <2>1. Fields[k] \in typed
    BY FieldsByName
  <2>2. /\ k \in DOMAIN Fields /\ 12 \in Nat /\ DOMAIN Fields = 1 .. 12
        /\ \A i \in DOMAIN Fields : Fields[i] \in typed => k <= i
    BY FieldsByName
  <2> HIDE DEF typed, k
  <2>3. FirstIn(Fields, typed, "IndexError") = Fields[k]
    BY <2>1, <2>2, FirstAt
  <2> QED
    BY <2>3 DEF k
<1>4. content # "conversation" /\ "senderKeyDistributionMessage" \in company
        => found = "senderKeyDistributionMessage"
  <2> SUFFICES ASSUME content # "conversation", "senderKeyDistributionMessage" \in company
               PROVE  FirstIn(Fields, typed, "IndexError") = Fields[2]
    BY <1>1, FieldsByName
  <2> DEFINE k == 2
  <2>1. Fields[k] \in typed /\ Fields[1] \notin typed
    BY <1>2, FieldsByName
  <2>2. /\ k \in DOMAIN Fields /\ 12 \in Nat /\ DOMAIN Fields = 1 .. 12
        /\ \A i \in DOMAIN Fields : Fields[i] \in typed => k <= i
    BY <2>1, FieldsByName
  <2> HIDE DEF typed, k
  <2>3. FirstIn(Fields, typed, "IndexError") = Fields[k]
    BY <2>1, <2>2, FirstAt
  <2> QED
    BY <2>3 DEF k
<1>5. content # "conversation" /\ "senderKeyDistributionMessage" \notin company
        => found = IF content \in EndInMessage THEN content ELSE "IndexError"
  <2> SUFFICES ASSUME content # "conversation",
                      "senderKeyDistributionMessage" \notin company
               PROVE  FirstIn(Fields, typed, "IndexError") =
                          IF content \in EndInMessage THEN content ELSE "IndexError"
    BY <1>1
  <2>1. typed = IF content \in EndInMessage THEN {content} ELSE {}
    BY <1>2, FieldsByName
  <2> HIDE DEF typed
  <2>2. \A i \in DOMAIN Fields : Fields[i] \in typed => Fields[i] = content
    BY <2>1
  <2>3. 12 \in Nat /\ DOMAIN Fields = 1 .. 12
    BY FieldsByName
  <2>4. FirstIn(Fields, typed, "IndexError") =
            IF \E i \in DOMAIN Fields : Fields[i] \in typed THEN content ELSE "IndexError"
    BY <2>2, <2>3, FirstOnly
  <2>5. (\E i \in DOMAIN Fields : Fields[i] \in typed) <=> content \in EndInMessage
    BY <2>1, FieldsByName
  <2> QED
    BY <2>4, <2>5
<1>6. extract_text(message) = IF content \in Worded THEN content ELSE "none"
  <2> DEFINE texts == <<"imageMessage", "extendedTextMessage", "videoMessage",
                        "documentMessage", "conversation">>
  <2>1. extract_text(message) = FirstIn(texts, message, "none")
    BY Zenon DEF extract_text
  <2>2. DOMAIN texts = 1 .. 5 /\ 5 \in Nat
    OBVIOUS
  <2>3. \A i \in DOMAIN texts : texts[i] \in message => texts[i] = content
    BY <1>2
  <2>4. (\E i \in DOMAIN texts : texts[i] \in message) <=> content \in Worded
    <3>1. /\ texts[1] = "imageMessage" /\ texts[2] = "extendedTextMessage"
          /\ texts[3] = "videoMessage" /\ texts[4] = "documentMessage"
          /\ texts[5] = "conversation"
      OBVIOUS
    <3>2. \A i \in DOMAIN texts : texts[i] \in Worded
      BY <2>2, <3>1 DEF Worded
    <3>3. content \in Worded => \E i \in DOMAIN texts : texts[i] = content
      BY <2>2, <3>1 DEF Worded
    <3> HIDE DEF texts
    <3>4. content \in message
      OBVIOUS
    <3> QED
      BY <2>3, <3>2, <3>3, <3>4
  <2> HIDE DEF texts, message
  <2>5. FirstIn(texts, message, "none") =
            IF \E i \in DOMAIN texts : texts[i] \in message THEN content ELSE "none"
    BY <2>2, <2>3, FirstOnly
  <2> QED
    BY <2>1, <2>4, <2>5
<1>7. from_message(message) =
          CASE found = "imageMessage" -> "MediaImage"
            [] found = "audioMessage" -> "MediaAudio"
            [] found = "videoMessage" -> "MediaVideo"
            [] found = "documentMessage" -> "MediaDocument"
            [] found = "IndexError" -> "IndexError"
            [] OTHER -> "KeyError"
  BY Zenon DEF from_message
<1> DEFINE mms == from_message(message)
           keyed == content # "conversation" /\ "senderKeyDistributionMessage" \in company
           misnamed == content \in {"call", "viewOnceMessageV2"}
<1>8. keyed => found = "senderKeyDistributionMessage" /\ mms = "KeyError"
  <2> SUFFICES ASSUME keyed
               PROVE  found = "senderKeyDistributionMessage" /\ mms = "KeyError"
    OBVIOUS
  <2>1. found = "senderKeyDistributionMessage"
    BY <1>4
  <2> HIDE DEF found
  <2> QED
    BY <1>7, <2>1
<1>9. ~keyed => found = IF misnamed THEN "IndexError" ELSE content
  <2>1. content \in EndInMessage \cup {"conversation"} <=> ~misnamed
    BY FieldsByName
  <2> HIDE DEF found
  <2> QED
    BY <1>3, <1>5, <2>1
<1>10. ~keyed /\ misnamed => mms = "IndexError"
  <2> HIDE DEF found
  <2> QED
    BY <1>7, <1>9
<1>11. ~keyed /\ ~misnamed =>
          mms = IF content \in Served THEN DownloadedAs(content) ELSE "KeyError"
  <2> SUFFICES ASSUME ~keyed, ~misnamed
               PROVE  mms = IF content \in Served THEN DownloadedAs(content) ELSE "KeyError"
    OBVIOUS
  <2>1. found = content
    BY <1>9
  <2> HIDE DEF found, keyed
  <2>2. CASE content \in Served
    BY <1>7, <2>1, <2>2 DEF Served, DownloadedAs
  <2>3. CASE content \notin Served
    BY <1>7, <2>1, <2>3, FieldsByName DEF Served
  <2> QED
    BY <2>2, <2>3
<1> HIDE DEF keyed, misnamed, found, mms
<1>12. /\ keyed => found = "senderKeyDistributionMessage" /\ mms = "KeyError"
       /\ ~keyed /\ misnamed => found = "IndexError" /\ mms = "IndexError"
       /\ ~keyed /\ ~misnamed =>
              /\ found = content
              /\ mms = IF content \in Served THEN DownloadedAs(content) ELSE "KeyError"
  BY <1>8, <1>9, <1>10, <1>11
<1> QED
  BY <1>6, <1>12, Zenon DEF ContentFound, keyed, misnamed, found, mms

\* Whatever a message holds along with its content, extract_text finds the text if the
\* content has one, get_message_type the content and from_message the server of the
\* keys it is decrypted with; or they fail in the way that ContentFound says of its
\* kind: in the first message of a member of a group, for contents whose names do not
\* end in Message, and for a sticker's server.
THEOREM ContentsAlwaysFound == Spec => []ContentsFound
<1>1. Asked => ContentsFound
  BY AnyContentFound DEF Asked, ContentsFound
<1> QED
  BY <1>1, CallsAsked, PTL

\* Whatever lists of ids and numbers are given, whatsmeow gets the same ones, but for
\* none at all given to mark_read and texts that hold a space; and of a newsletter's
\* messages those given are marked, and besides only a message 0, or the list is
\* refused.
THEOREM RequestsAlwaysArrive == Spec => []RequestsArrive
<1>1. ASSUME NEW texts \in TextLists
      PROVE  TextsArrive(texts)
  <2>1. Space \in Token \cup {Space} /\ texts \in Seq(Seq(Token \cup {Space}))
    BY ListsAssumption
  <2> QED
    BY <2>1, AnyTextsArrive
<1>2. ASSUME NEW ids \in IdLists
      PROVE  ViewedArrive(ids)
  <2>1. ids \in Seq(Nat)
    BY ListsAssumption
  <2> QED
    BY <2>1, AnyViewedArrive
<1>3. Asked => RequestsArrive
  BY <1>1, <1>2 DEF Asked, RequestsArrive
<1> QED
  BY <1>3, CallsAsked, PTL

-----------------------------------------------------------------------------
(* Libraries and wheels.                                                   *)

\* What Go calls the machines there are releases for.
LEMMA BuildOf ==
    ASSUME NEW b \in Builds
    PROVE  \E os, arch :
              /\ BuiltName(b) = <<os, arch, Extension(os)>>
              /\ \/ os = "android" /\ arch \in {"arm64", "arm", "amd64", "386"}
                 \/ os = "windows" /\ arch \in {"amd64", "arm64", "386"}
                 \/ os = "linux" /\ arch \in {"386", "arm64", "riscv64", "s390x", "amd64"}
                 \/ os = "darwin" /\ arch \in {"amd64", "arm64"}
              /\ b \in Packed => os # "android"
<1> DEFINE os == IF b[1] = Unset THEN "linux" ELSE b[1]
           arch == arch_normalizer(IF b[2] = Unset THEN "x86_64" ELSE b[2])
<1>1. BuiltName(b) = <<os, arch, Extension(os)>>
  BY DEF BuiltName
<1>2. \/ b[1] = "android" /\ b[2] \in {"arm64", "arm", "amd64", "386"}
      \/ b[1] = "windows" /\ b[2] \in {"amd64", "arm64", "386"}
      \/ b[1] = "linux" /\ b[2] \in {"386", "arm64", "riscv64", "s390x"}
      \/ b[1] = "darwin" /\ b[2] \in {"amd64", "arm64"}
      \/ b[1] = "" /\ b[2] = ""
  <2>1. \/ b \in {"android"} \X {"arm64", "arm", "amd64", "386"}
        \/ b \in {"windows"} \X {"amd64", "arm64", "386"}
        \/ b \in {"linux"} \X {"386", "arm64", "riscv64", "s390x"}
        \/ b \in {"darwin"} \X {"amd64", "arm64"}
        \/ b = <<"", "">>
    BY Zenon DEF Builds, Unset
  <2>2. CASE b = <<"", "">>
    BY <2>2
  <2>3. CASE b # <<"", "">>
    BY <2>1, <2>3
  <2> QED
    BY <2>2, <2>3
<1>3. /\ \/ os = "android" /\ arch \in {"arm64", "arm", "amd64", "386"}
         \/ os = "windows" /\ arch \in {"amd64", "arm64", "386"}
         \/ os = "linux" /\ arch \in {"386", "arm64", "riscv64", "s390x", "amd64"}
         \/ os = "darwin" /\ arch \in {"amd64", "arm64"}
      /\ b[1] # "android" => os # "android"
  BY <1>2 DEF arch_normalizer, Unset
<1>4. b \in Packed => b[1] # "android"
  BY DEF Packed
<1> HIDE DEF os, arch
<1> QED
  BY <1>1, <1>3, <1>4

LEMMA PlatformOf ==
    ASSUME NEW p \in Platforms
    PROVE  /\ \/ /\ p.system = "linux" /\ p.android \in BOOLEAN
                 /\ p.machine \in {"x86_64", "aarch64", "armv7l", "i686", "riscv64", "s390x"}
              \/ /\ p.system = "windows" /\ p.android = FALSE
                 /\ p.machine \in {"amd64", "arm64", "x86"}
              \/ /\ p.system = "darwin" /\ p.android = FALSE
                 /\ p.machine \in {"x86_64", "arm64"}
  BY DEF Platforms, Platform

LEMMA AnyPlatformServed ==
    ASSUME NEW p \in Platforms
    PROVE  PlatformServed(p)
<1> DEFINE asked == AskedName(p)
<1> SUFFICES ASSUME NEW b \in Builds,
                    BuiltName(b)[1] = GoOs(p), BuiltName(b)[2] = GoArch(p)
             PROVE  IF GoArch(p) \in {"386", "arm"}
                    THEN asked \notin Assets
                    ELSE /\ asked = BuiltName(b)
                         /\ \A w \in Packed :
                               ~p.android /\ WheelTag(w) = PipTag(p) => BuiltName(w) = asked
  BY Zenon DEF PlatformServed
<1>1. /\ asked = <<GoOs(p), arch_normalizer(p.machine), Extension(p.system)>>
      /\ Extension(GoOs(p)) = Extension(p.system)
  BY PlatformOf DEF AskedName, GoOs, Extension
<1>2. BuiltName(b) = <<GoOs(p), GoArch(p), Extension(GoOs(p))>>
  BY BuildOf
<1>3. CASE GoArch(p) \in {"386", "arm"}
  <2>1. arch_normalizer(p.machine) \in {"armv7l", "i686", "x86"}
    BY <1>3, PlatformOf DEF GoArch, arch_normalizer
  <2>2. ASSUME NEW c \in Builds
        PROVE  BuiltName(c)[2] \notin {"armv7l", "i686", "x86"}
    <3>1. PICK os, arch :
              /\ BuiltName(c) = <<os, arch, Extension(os)>>
              /\ arch \in {"arm64", "arm", "amd64", "386", "riscv64", "s390x"}
      BY BuildOf
    <3> QED
      BY <3>1
  <2>3. asked[2] \in {"armv7l", "i686", "x86"}
    BY <1>1, <2>1
  <2> HIDE DEF asked
  <2>4. asked \notin Assets
    BY <2>2, <2>3 DEF Assets
  <2> QED
    BY <1>3, <2>4
<1>4. CASE GoArch(p) \notin {"386", "arm"}
  <2>1. arch_normalizer(p.machine) = GoArch(p)
    BY <1>4, PlatformOf DEF GoArch, arch_normalizer
  <2>2. asked = BuiltName(b)
    BY <1>1, <1>2, <2>1
  <2>3. ASSUME NEW w \in Packed, ~p.android, WheelTag(w) = PipTag(p)
        PROVE  BuiltName(w) = asked
    <3>1. w \in Builds
      BY DEF Packed
    <3>2. PICK os, arch :
              /\ BuiltName(w) = <<os, arch, Extension(os)>>
              /\ \/ os = "windows" /\ arch \in {"amd64", "arm64", "386"}
                 \/ os = "linux" /\ arch \in {"386", "arm64", "riscv64", "s390x", "amd64"}
                 \/ os = "darwin" /\ arch \in {"amd64", "arm64"}
      BY <3>1, BuildOf
    <3>3. BuiltName(w)[1] = os /\ BuiltName(w)[2] = arch
      BY <3>2
    <3>4. GoOs(p) = p.system
      BY <2>3 DEF GoOs
    <3>5. os = p.system /\ arch = GoArch(p)
      <4> DEFINE wheel == WheelTag(w)
                 wanted == PipTag(p)
                 onMac == IF arch = "amd64" THEN "x86_64" ELSE arch
                 onLinux == CASE arch = "arm64" -> "aarch64" [] arch = "amd64" -> "x86_64"
                              [] arch = "386" -> "i686" [] OTHER -> arch
      <4>1. wheel = wanted
        BY <2>3
      <4>2. /\ os = "windows" /\ arch = "386" => wheel = <<"win", "32">>
            /\ os = "windows" /\ arch # "386" => wheel = <<"win", arch>>
            /\ os = "darwin" => wheel = <<"macosx_12_0", onMac>>
            /\ os = "linux" => wheel = <<"manylinux2014", onLinux>>
        BY <3>3 DEF WheelTag
      <4>3. /\ p.system = "windows" /\ p.machine = "x86" => wanted = <<"win", "32">>
            /\ p.system = "windows" /\ p.machine # "x86" => wanted = <<"win", p.machine>>
            /\ p.system = "darwin" => wanted = <<"macosx_12_0", p.machine>>
            /\ p.system = "linux" => wanted = <<"manylinux2014", p.machine>>
        BY DEF PipTag
      <4> HIDE DEF wheel, wanted, onMac, onLinux
      <4>4. /\ os = "windows" /\ arch = "386" => wheel[1] = "win" /\ wheel[2] = "32"
            /\ os = "windows" /\ arch # "386" => wheel[1] = "win" /\ wheel[2] = arch
            /\ os = "darwin" => wheel[1] = "macosx_12_0" /\ wheel[2] = onMac
            /\ os = "linux" => wheel[1] = "manylinux2014" /\ wheel[2] = onLinux
        <5>1. os = "windows" /\ arch = "386" => wheel[1] = "win" /\ wheel[2] = "32"
          BY <4>2
        <5>2. os = "windows" /\ arch # "386" => wheel[1] = "win" /\ wheel[2] = arch
          BY <4>2
        <5>3. os = "darwin" => wheel[1] = "macosx_12_0" /\ wheel[2] = onMac
          BY <4>2
        <5>4. os = "linux" => wheel[1] = "manylinux2014" /\ wheel[2] = onLinux
          BY <4>2
        <5> QED
          BY <5>1, <5>2, <5>3, <5>4
      <4>5. /\ p.system = "windows" /\ p.machine = "x86" =>
                  wanted[1] = "win" /\ wanted[2] = "32"
            /\ p.system = "windows" /\ p.machine # "x86" =>
                  wanted[1] = "win" /\ wanted[2] = p.machine
            /\ p.system = "darwin" => wanted[1] = "macosx_12_0" /\ wanted[2] = p.machine
            /\ p.system = "linux" => wanted[1] = "manylinux2014" /\ wanted[2] = p.machine
        <5>1. p.system = "windows" /\ p.machine = "x86" =>
                  wanted[1] = "win" /\ wanted[2] = "32"
          BY <4>3
        <5>2. p.system = "windows" /\ p.machine # "x86" =>
                  wanted[1] = "win" /\ wanted[2] = p.machine
          BY <4>3
        <5>3. p.system = "darwin" => wanted[1] = "macosx_12_0" /\ wanted[2] = p.machine
          BY <4>3
        <5>4. p.system = "linux" => wanted[1] = "manylinux2014" /\ wanted[2] = p.machine
          BY <4>3
        <5> QED
          BY <5>1, <5>2, <5>3, <5>4
      <4>6. os = p.system
        BY <3>2, <4>1, <4>4, <4>5, PlatformOf
      <4>7. CASE os = "windows"
        BY <1>4, <3>2, <4>1, <4>4, <4>5, <4>6, <4>7, PlatformOf DEF GoArch
      <4>8. CASE os = "darwin"
        BY <3>2, <4>1, <4>4, <4>5, <4>6, <4>8, PlatformOf DEF GoArch, onMac
      <4>9. CASE os = "linux"
        BY <3>2, <4>1, <4>4, <4>5, <4>6, <4>9, PlatformOf DEF GoArch, onLinux
      <4> QED
        BY <3>2, <4>6, <4>7, <4>8, <4>9
    <3> QED
      BY <1>1, <2>1, <3>2, <3>4, <3>5
  <2> QED
    BY <1>4, <2>2, <2>3
<1> QED
  BY <1>3, <1>4

\* Of every platform that a release builds for, the package asks for the library
\* that was built for it and the wheel that pip takes holds it, but where Go names
\* the processor otherwise, 32-bit Intel and ARM: there no asset has the name.
THEOREM EveryPlatformServed == Spec => []PlatformsServed
<1>1. Asked => PlatformsServed
  BY AnyPlatformServed DEF Asked, PlatformsServed
<1> QED
  BY <1>1, CallsAsked, PTL

-----------------------------------------------------------------------------
(* Types.                                                                  *)

\* A row of the table of devices.
Rows == [ID : DeviceJids, PushName : PushNames, BusinessName : BusinessNames,
         Initialized : BOOLEAN]

AccountsInv ==
    /\ table \in Seq(Rows) /\ seen \in Seq(Rows)
    /\ Len(table) <= MaxDevices
    /\ listing.raised \in BOOLEAN /\ (listing.raised => listing.devices = <<>>)
    /\ \A o \in opened : o.found \subseteq 1 .. MaxDevices
    /\ \A key \in DOMAIN settings : settings[key] \in Row
    /\ DOMAIN told = ChatJids
    /\ changes \in 0 .. MaxChanges

LEMMA ReadLinesAnswers ==
    ASSUME NEW text
    PROVE  ReadLines(text).raised \in BOOLEAN /\
           (ReadLines(text).raised => ReadLines(text).devices = <<>>)
<1> DEFINE lines == IF text = <<>> THEN <<>> ELSE Split(text, Separator)
           fields(i) == Split(lines[i], Comma)
           id(i) == Split(fields(i)[1], Sign("@"))
           fine == \A i \in DOMAIN lines : Len(fields(i)) = 4 /\ Len(id(i)) = 2
           read == [i \in DOMAIN lines |->
                      [JID |-> build_jid(id(i)[1], id(i)[2]), PushName |-> fields(i)[2],
                       BusinessName |-> fields(i)[3],
                       Initialized |-> fields(i)[4] = <<Sign("true")>>]]
<1>1. ReadLines(text) = IF fine THEN [raised |-> FALSE, devices |-> read]
                        ELSE [raised |-> TRUE, devices |-> <<>>]
  BY Zenon DEF ReadLines
<1> HIDE DEF fine, read
<1> QED
  BY <1>1

\* A row is of the type that get_chat_settings reads, before and after it is written.
LEMMA RowType ==
    ASSUME \A key \in DOMAIN settings : settings[key] \in Row,
           NEW chat, NEW row \in Row, PutRow(chat, row)
    PROVE  \A key \in DOMAIN settings' : settings'[key] \in Row
  BY DEF PutRow

\* So it is after any of the three writes.
LEMMA WrittenTypes ==
    ASSUME AccountsInv, NEW chat, NEW row \in Row, PutRow(chat, row),
           DOMAIN told' = DOMAIN told, Change, UNCHANGED accounts
    PROVE  AccountsInv'
<1>1. /\ table' = table /\ seen' = seen /\ listing' = listing /\ opened' = opened
      /\ changes < MaxChanges /\ changes' = changes + 1
  BY Zenon DEF Change, accounts
<1>2. \A key \in DOMAIN settings' : settings'[key] \in Row
  BY RowType DEF AccountsInv
<1> QED
  BY <1>1, <1>2, AccountsAssumption DEF AccountsInv

\* A sequence without one of its elements.
LEMMA RemovedFrom ==
    ASSUME NEW T, NEW s \in Seq(T), NEW i \in DOMAIN s
    PROVE  RemoveAt(s, i) \in Seq(T) /\ Len(RemoveAt(s, i)) <= Len(s)
<1>1. ASSUME NEW p \in Seq(T), NEW q \in Seq(T)
      PROVE  p \o q \in Seq(T) /\ Len(p \o q) = Len(p) + Len(q)
  OBVIOUS
<1> DEFINE p == SubSeq(s, 1, i - 1)
           q == SubSeq(s, i + 1, Len(s))
<1>2. p \in Seq(T) /\ q \in Seq(T) /\ Len(p) = i - 1 /\ Len(q) = Len(s) - i
  OBVIOUS
<1> HIDE DEF p, q
<1>3. p \o q \in Seq(T) /\ Len(p \o q) <= Len(s)
  BY <1>1, <1>2
<1> QED
  BY <1>3 DEF RemoveAt, p, q

LEMMA AccountsKept == Spec => []AccountsInv
<1>1. Init => AccountsInv
  <2> SUFFICES ASSUME Init
               PROVE  AccountsInv
    OBVIOUS
  <2>1. /\ table = <<>> /\ seen = <<>> /\ opened = {} /\ settings = <<>> /\ changes = 0
        /\ listing = [raised |-> FALSE, devices |-> <<>>]
        /\ told = [chat \in ChatJids |-> NoRow]
    BY DEF Init, AccountInit
  <2> QED
    BY <2>1, AccountsAssumption DEF AccountsInv
<1>2. AccountsInv /\ [Next]_vars => AccountsInv'
  <2> SUFFICES ASSUME AccountsInv, [Next]_vars
               PROVE  AccountsInv'
    OBVIOUS
  <2>1. CASE UNCHANGED accountVars
    BY <2>1 DEF AccountsInv, accountVars, accounts, chats
  <2>2. ASSUME NEW jid \in DeviceJids, NEW push \in PushNames,
               NEW business \in BusinessNames, NEW b \in BOOLEAN,
               AddDevice(jid, push, business, b)
        PROVE  AccountsInv'
    <3>1. /\ table' = Append(table, Device(jid, push, business, b)) /\ Len(table) < MaxDevices
          /\ seen' = seen /\ listing' = listing /\ opened' = opened
          /\ settings' = settings /\ told' = told
          /\ changes < MaxChanges /\ changes' = changes + 1
      BY <2>2, Zenon DEF AddDevice, Change, chats
    <3>2. Device(jid, push, business, b) \in Rows
      BY DEF Device, Rows
    <3>3. table' \in Seq(Rows) /\ Len(table') = Len(table) + 1
      BY <3>1, <3>2 DEF AccountsInv
    <3> QED
      BY <3>1, <3>3, AccountsAssumption DEF AccountsInv
  <2>3. ASSUME NEW i \in DOMAIN table, RemoveDevice(i)
        PROVE  AccountsInv'
    <3>1. /\ table' = RemoveAt(table, i)
          /\ seen' = seen /\ listing' = listing /\ opened' = opened
          /\ settings' = settings /\ told' = told
          /\ changes < MaxChanges /\ changes' = changes + 1
      BY <2>3, Zenon DEF RemoveDevice, Change, chats
    <3>2. table' \in Seq(Rows) /\ Len(table') <= Len(table)
      BY <3>1, RemovedFrom DEF AccountsInv
    <3> QED
      BY <3>1, <3>2, AccountsAssumption DEF AccountsInv
  <2>4. ASSUME NEW i \in DOMAIN table, NEW push \in PushNames, RenameDevice(i, push)
        PROVE  AccountsInv'
    <3>1. /\ table' = [table EXCEPT ![i].PushName = push]
          /\ seen' = seen /\ listing' = listing /\ opened' = opened
          /\ settings' = settings /\ told' = told
          /\ changes < MaxChanges /\ changes' = changes + 1
      BY <2>4, Zenon DEF RenameDevice, Change, chats
    <3>2. table' \in Seq(Rows) /\ Len(table') = Len(table)
      <4>1. [table[i] EXCEPT !.PushName = push] \in Rows
        <5>1. \A d \in Rows : [d EXCEPT !.PushName = push] \in Rows
          BY DEF Rows
        <5>2. table[i] \in Rows
          BY DEF AccountsInv
        <5> QED
          BY <5>1, <5>2
      <4> QED
        BY <3>1, <4>1 DEF AccountsInv
    <3> QED
      BY <3>1, <3>2, AccountsAssumption DEF AccountsInv
  <2>5. CASE ListDevices
    <3>1. /\ seen' = table /\ table' = table /\ opened' = opened
          /\ settings' = settings /\ told' = told /\ changes' = changes
      BY <2>5, Zenon DEF ListDevices, chats
    <3>2. listing'.raised \in BOOLEAN /\ (listing'.raised => listing'.devices = <<>>)
      BY <2>5, ReadLinesAnswers, Zenon DEF ListDevices
    <3> QED
      BY <3>1, <3>2 DEF AccountsInv
  <2>6. ASSUME NEW i \in DOMAIN listing.devices, OpenListed(i)
        PROVE  AccountsInv'
    <3>1. /\ table' = table /\ seen' = seen /\ listing' = listing
          /\ settings' = settings /\ told' = told /\ changes' = changes
      BY <2>6, Zenon DEF OpenListed
    <3>2. \E key, meant, present, jid :
              opened' = opened \cup {[key |-> key, meant |-> meant, present |-> present,
                                      found |-> GetDevice(table, jid)]}
      BY <2>6, Zenon DEF OpenListed
    <3>3. \A jid : GetDevice(table, jid) \subseteq 1 .. MaxDevices
      <4>1. \A jid : GetDevice(table, jid) \subseteq DOMAIN table
        BY Zenon DEF GetDevice
      <4>2. DOMAIN table \subseteq 1 .. MaxDevices
        BY AccountsAssumption DEF AccountsInv
      <4> QED
        BY <4>1, <4>2
    <3>4. \A o \in opened' : o.found \subseteq 1 .. MaxDevices
      BY <3>2, <3>3 DEF AccountsInv
    <3> QED
      BY <3>1, <3>4 DEF AccountsInv
  <2>7. ASSUME NEW chat \in ChatJids, NEW seconds \in Durations,
               put_muted_until(chat, seconds)
        PROVE  AccountsInv'
    <3> DEFINE row == [RowOf(chat) EXCEPT !.MutedUntil = Float32(seconds)]
    <3>1. seconds \in Seconds
      BY AccountsAssumption DEF Seconds
    <3>2. Float32(seconds) \in Nat
      BY <3>1, FloatNear
    <3>3. RowOf(chat) \in Row
      BY DEF RowOf, NoRow, Row, AccountsInv
    <3>4. row \in Row
      BY <3>2, <3>3 DEF Row
    <3>5. PutRow(chat, row) /\ Change /\ UNCHANGED accounts /\ DOMAIN told' = DOMAIN told
      BY <2>7, Zenon DEF put_muted_until
    <3> HIDE DEF row
    <3> QED
      BY <3>4, <3>5, WrittenTypes
  <2>11. ASSUME NEW chat \in ChatJids, NEW b \in BOOLEAN,
                put_pinned(chat, b) \/ put_archived(chat, b)
         PROVE  AccountsInv'
    <3> DEFINE pinned == [RowOf(chat) EXCEPT !.Pinned = b]
               archived == [RowOf(chat) EXCEPT !.Archived = b]
    <3>1. RowOf(chat) \in Row
      BY DEF RowOf, NoRow, Row, AccountsInv
    <3>2. pinned \in Row /\ archived \in Row
      BY <3>1 DEF Row
    <3>3. /\ PutRow(chat, pinned) \/ PutRow(chat, archived)
          /\ Change /\ UNCHANGED accounts /\ DOMAIN told' = DOMAIN told
      BY <2>11, Zenon DEF put_pinned, put_archived
    <3> HIDE DEF pinned, archived
    <3> QED
      BY <3>2, <3>3, WrittenTypes
  <2>8. ASSUME NEW chat \in ChatJids, get_chat_settings(chat)
        PROVE  AccountsInv'
    BY <2>8 DEF get_chat_settings, accounts, AccountsInv
  <2>9. CASE AccountNext
    BY <2>2, <2>3, <2>4, <2>5, <2>6, <2>7, <2>8, <2>9, <2>11, Zenon DEF AccountNext
  <2>10. CASE ~ AccountNext
    BY <2>1, <2>10 DEF Next, vars, Fresh, AskAddress, AskKey, AskContent, AskUpload,
                       AskTexts, AskViewed, AskPicture, AskName
  <2> QED
    BY <2>9, <2>10
<1> QED
  BY <1>1, <1>2, PTL DEF Spec

\* Whatever is asked, the parts of an address keep to the widths of whatsmeow's
\* types, what is marked as viewed is bytes, the table of devices keeps to the rows
\* a login makes and the settings to theirs, however devices come and go.
THEOREM ValuesTypeOK == Spec => []TypeOK
<1>1. AccountsInv => AccountTypeOK
  <2> SUFFICES ASSUME AccountsInv
               PROVE  AccountTypeOK
    OBVIOUS
  <2>1. \A d \in ToSet(table) :
            d.ID \in DeviceJids /\ d.PushName \in PushNames /\ d.BusinessName \in BusinessNames
    <3>1. \A i \in DOMAIN table : table[i] \in Rows
      BY DEF AccountsInv
    <3>2. \A d \in Rows :
              d.ID \in DeviceJids /\ d.PushName \in PushNames /\ d.BusinessName \in BusinessNames
      BY DEF Rows
    <3> QED
      BY <3>1, <3>2 DEF ToSet
  <2> QED
    BY <2>1 DEF AccountsInv, AccountTypeOK
<1>2. ASSUME Asked, call.of = "address"
      PROVE  /\ answer.RawAgent \in Nat /\ answer.RawAgent < 256
             /\ \A n \in {answer.Device, answer.Integrator} : n \in Nat /\ n < 65536
  <2>1. /\ call.jid \in WireJids
        /\ answer = DecodeJidProto(call.jid)
    BY <1>2 DEF Asked
  <2>2. call.jid.RawAgent \in Nat /\ call.jid.Device \in Nat /\ call.jid.Integrator \in Nat
    BY <2>1, WireJidsAssumption
  <2>3. /\ answer.RawAgent = call.jid.RawAgent % 256
        /\ answer.Device = call.jid.Device % 65536
        /\ answer.Integrator = call.jid.Integrator % 65536
    BY <2>1 DEF DecodeJidProto
  <2>4. \A n \in Nat : /\ n % 256 \in Nat /\ n % 256 < 256
                       /\ n % 65536 \in Nat /\ n % 65536 < 65536
    BY SMT
  <2> QED
    BY <2>2, <2>3, <2>4
<1>3. ASSUME Asked, call.of = "viewed", ~answer.raised
      PROVE  ToSet(answer.marked) \subseteq 0 .. 255
  <2>1. call.ids \in Seq(Nat) /\ answer = newsletter_mark_viewed(call.ids)
    BY <1>3, ListsAssumption DEF Asked
  <2>2. ASSUME NEW ids \in Seq(Nat)
        PROVE  ToSet([i \in DOMAIN ids |-> 0] \o [i \in DOMAIN ids |-> ids[i] % 256])
                   \subseteq 0 .. 255
    <3> DEFINE Byte == 0 .. 255
               zeros == [i \in DOMAIN ids |-> 0]
               bytes == [i \in DOMAIN ids |-> ids[i] % 256]
    <3>1. 0 \in Byte /\ \A n \in Nat : n % 256 \in Byte
      OBVIOUS
    <3>2. zeros \in Seq(Byte) /\ bytes \in Seq(Byte)
      <4> HIDE DEF Byte
      <4>1. \A i \in DOMAIN ids : 0 \in Byte /\ ids[i] % 256 \in Byte
        <5>1. \A i \in DOMAIN ids : ids[i] \in Nat
          OBVIOUS
        <5> QED
          BY <3>1, <5>1
      <4>2. DOMAIN ids = 1 .. Len(ids) /\ Len(ids) \in Nat
        OBVIOUS
      <4> QED
        BY <4>1, <4>2
    <3>3. ASSUME NEW T, NEW p \in Seq(T), NEW q \in Seq(T)
          PROVE  ToSet(p \o q) \subseteq T
      BY DEF ToSet
    <3> HIDE DEF Byte, zeros, bytes
    <3>4. ToSet(zeros \o bytes) \subseteq Byte
      BY <3>2, <3>3
    <3> QED
      BY <3>4 DEF Byte, zeros, bytes
  <2>3. answer.marked = [i \in DOMAIN call.ids |-> 0] \o [i \in DOMAIN call.ids |-> call.ids[i] % 256]
    BY <1>3, <2>1 DEF newsletter_mark_viewed
  <2> QED
    BY <2>1, <2>2, <2>3
<1>4. AccountsInv /\ Asked => TypeOK
  BY <1>1, <1>2, <1>3 DEF TypeOK
<1> QED
  BY <1>4, AccountsKept, CallsAsked, PTL
=============================================================================
