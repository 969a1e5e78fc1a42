------------------------------ MODULE Pictures ------------------------------
(***************************************************************************)
(* The arithmetic of pictures in utils/calc.py, and the thumbnail that     *)
(* build_image_message makes with it.  Sizes are pairs of pixels.          *)
(***************************************************************************)
EXTENDS Integers

Distance(a, b) == IF a < b THEN b - a ELSE a - b
Least(a, b) == IF a < b THEN a ELSE b

\* crop_image.
crop_image(width, height) ==
    LET offset == Distance(height, width) \div 2
    IN  CASE width = height -> <<width, height>>
          [] width > height -> <<width - 2 * offset, height>>
          [] width < height -> <<width, height - 2 * offset>>

\* Mutant: the width of the other branch is the model for this one.
AspectRatioSymmetric(width, height, res) ==
    CASE width > height -> {<<res, (height * res) \div width>>}
      [] width < height -> {<<(width * res) \div height, res>>}
      [] width = height -> {<<res, res>>}

\* The results AspectRatioMethod may have: width / (width / res) is res, or falls
\* just short of it in floating point, as width / (height / res) may where it is
\* a whole number of more than one.
AspectRatioMethod(width, height, res) ==
    LET short == (width * res) \div height
    IN  CASE width > height -> {res} \X {res - 1, res}
          [] width < height ->
                (IF (width * res) % height = 0 /\ short > 1 THEN {short - 1, short}
                 ELSE {short}) \X {res}
          [] width = height -> {<<res, res>>}

sticker_scaler(width, height) == AspectRatioMethod(width, height, 512)

\* Where auto_sticker puts the picture on its 512 by 512 pixels.
auto_sticker(width, height) == <<256 - width \div 2, 256 - height \div 2>>

\* Pillow's thumbnail: the picture scaled into a box, or as it is if it fits; the
\* other side is rounded to what distorts least, at least 1.  A side of 0 makes
\* resize raise.
ThumbnailIn(box, width, height) ==
    LET x == box[1]
        y == box[2]
        \* |width/height - n/y|, times y * height
        offX(n) == Distance(width * y, n * height)
        \* |width/height - x/n|, times height; n # 0
        lowX == (y * width) \div height
        lowY == (x * height) \div width
        bestX == IF offX(lowX) <= offX(lowX + 1) THEN lowX ELSE lowX + 1
        bestY == IF lowY = 0 \/ (x * height) % width = 0
                    \/ Distance(width * lowY, x * height) * (lowY + 1)
                          <= Distance(width * (lowY + 1), x * height) * lowY
                 THEN lowY ELSE lowY + 1
        atLeastOne(n) == IF n = 0 THEN 1 ELSE n
    IN  IF x >= width /\ y >= height THEN <<width, height>>
        ELSE IF x * height >= y * width THEN <<atLeastOne(bestX), y>>
        ELSE <<x, atLeastOne(bestY)>>

\* build_image_message.
Thumbnails(width, height) ==
    {ThumbnailIn(box, width, height) : box \in AspectRatioMethod(width, height, 200)}
-----------------------------------------------------------------------------
\* A size that has the ratio of a picture to within a pixel of either side.
Keeps(size, width, height) ==
    Distance(size[1] * height, size[2] * width) <= IF width > height THEN width ELSE height

\* The thumbnail fits 200 pixels and keeps the ratio of its picture, though the
\* box it is given does not: the square one for a wide picture spares it the side
\* of no pixels that makes a picture 200 times as high as wide raise.
ThumbnailMade(width, height) ==
    \A size \in Thumbnails(width, height) :
        /\ size[1] = 0 <=> height > 200 * width
        /\ size[1] \in 0 .. 200 /\ size[2] \in 1 .. 200
        /\ size[1] > 0 => Keeps(size, width, height)

\* A cropped picture is square to within a pixel, and so is a scaled sticker of one
\* that is wider than high, where any other keeps its ratio; a sticker put on a canvas
\* has its middle there.
PictureShaped(width, height) ==
    /\ Distance(crop_image(width, height)[1], crop_image(width, height)[2]) <= 1
    /\ \A size \in sticker_scaler(width, height) :
          IF width > height THEN Distance(size[1], size[2]) <= 1
          ELSE Keeps(size, width, height)
    /\ LET at == auto_sticker(width, height)
       IN  /\ Distance(at[1], 512 - (at[1] + width)) <= 1
           /\ Distance(at[2], 512 - (at[2] + height)) <= 1
=============================================================================
