------------------------------- MODULE Frames --------------------------------
(***************************************************************************)
(* The sizes of pictures and desktops: the checks of FrameUpdate::new and  *)
(* DesktopConfig::validate, the sizes the client asks for, and the bounds  *)
(* of a monitor layout, in the widths the code computes them in.           *)
(***************************************************************************)
EXTENDS Integers, TLAPS

U16 == {n \in Nat : n <= 65535}
U32 == {n \in Nat : n <= 4294967295}
I32 == {n \in Int : -2147483648 <= n /\ n <= 2147483647}

MaxFrameBytes == 268435456     \* MAX_FRAME_BYTES, 256 MiB
MaxDesktopDimension == 8192    \* MAX_DESKTOP_DIMENSION

\* FrameUpdate::new() for length bytes of data, where a usize goes up to
\* largest: the first check that fails.
NewFrame(width, height, length, largest) ==
  CASE width * height \notin U32 -> "DimensionOverflow"
    [] width * height \in U32 /\ 4 * (width * height) > largest -> "DimensionOverflow"
    [] OTHER ->
         IF 4 * (width * height) # length THEN "InvalidBufferLength"
         ELSE IF length > MaxFrameBytes THEN "TooLarge"
         ELSE IF width = 0 \/ height = 0 \/ width > MaxDesktopDimension \/ height > MaxDesktopDimension
           THEN "InvalidDimensions"
         ELSE "Ok"

\* map_output() builds a frame from every pixel of an image, of non-zero u16
\* dimensions, in four bytes.
MappedImage(width, height, largest) == NewFrame(width, height, 4 * (width * height), largest)

\* DesktopConfig::validate(), but for the scale factor.
ValidDesktop(width, height) ==
  /\ width >= 320 /\ height >= 200
  /\ width <= MaxDesktopDimension /\ height <= MaxDesktopDimension

Clamped(value, low, high) == IF value < low THEN low ELSE IF value > high THEN high ELSE value

\* display_size() and on_viewport round the scaled area and clamp it.
FollowedSize(width, height) ==
  [width |-> Clamped(width, 320, 8192), height |-> Clamped(height, 200, 8192)]

Larger(a, b) == IF a >= b THEN a ELSE b
Smaller(a, b) == IF a >= b THEN b ELSE a

\* landscape_size()
LandscapeSize(width, height) ==
  [width  |-> Larger(Larger(width, height), 320),
   height |-> Larger(Smaller(width, height), 200)]

\* monitor_bounds() along one axis, from the least and the greatest edge.
Extent(low, high) == IF high - low > 0 THEN high - low ELSE 0

(***************************************************************************)
(* The checks fit together: what the client asks a session for, it can     *)
(* show when it comes back as a picture.                                   *)
(***************************************************************************)

\* A product grows with each of its factors (checked_mul in FrameUpdate::new).
LEMMA ProductGrows ==
  ASSUME NEW a \in Nat, NEW b \in Nat, NEW c \in Nat, NEW d \in Nat, a <= c, b <= d
  PROVE  a * b \in Nat /\ a * b <= c * d
<1>1. a * b <= c * b
  <2>1. c - a \in Nat /\ (c - a) * b \in Nat
    BY SMT
  <2>2. c * b = a * b + (c - a) * b
    BY SMT
  <2> QED
    BY <2>1, <2>2, SMT
<1>2. c * b <= c * d
  <2>1. d - b \in Nat /\ c * (d - b) \in Nat
    BY SMT
  <2>2. c * d = c * b + c * (d - b)
    BY SMT
  <2> QED
    BY <2>1, <2>2, SMT
<1>3. a * b \in Nat /\ c * b \in Nat /\ c * d \in Nat
  BY SMT
<1> QED
  BY <1>1, <1>2, <1>3, SMT

\* The greatest desktop is exactly one frame of MAX_FRAME_BYTES: an image of
\* the RDP client becomes a frame if and only if neither side is longer than
\* MAX_DESKTOP_DIMENSION, so the checks before the one of the dimensions
\* refuse nothing it would not (FrameUpdate::new, map_output).
THEOREM ImageAccepted ==
  ASSUME NEW width \in U16 \ {0}, NEW height \in U16 \ {0},
         NEW largest \in Nat, largest >= MaxFrameBytes
  PROVE  MappedImage(width, height, largest) = "Ok"
           <=> width <= MaxDesktopDimension /\ height <= MaxDesktopDimension
<1>1. CASE width <= MaxDesktopDimension /\ height <= MaxDesktopDimension
  <2> DEFINE pixels == width * height
  <2>1. width \in Nat \ {0} /\ height \in Nat \ {0}
    BY SMT DEF U16
  <2>2. MaxDesktopDimension \in Nat
    BY SMT DEF MaxDesktopDimension
  <2>3. pixels \in Nat /\ pixels <= MaxDesktopDimension * MaxDesktopDimension
    BY <1>1, <2>1, <2>2, ProductGrows, SMT
  <2> HIDE DEF pixels
  <2>4. pixels \in U32 /\ ~(4 * pixels > largest) /\ ~(4 * pixels > MaxFrameBytes)
    BY <2>3, SMT DEF U32, MaxFrameBytes, MaxDesktopDimension
  <2>5. ~(width = 0 \/ height = 0 \/ width > MaxDesktopDimension \/ height > MaxDesktopDimension)
    BY <1>1, <2>1, <2>2, SMT
  <2>6. pixels = width * height
    BY DEF pixels
  <2>7. NewFrame(width, height, 4 * pixels, largest) = "Ok"
    BY <2>4, <2>5, <2>6, SMT DEF NewFrame
  <2> QED
    BY <1>1, <2>6, <2>7, Zenon DEF MappedImage
<1>2. CASE ~(width <= MaxDesktopDimension /\ height <= MaxDesktopDimension)
  <2>1. width > MaxDesktopDimension \/ height > MaxDesktopDimension
    BY <1>2, SMT DEF MaxDesktopDimension, U16
  <2>2. NewFrame(width, height, 4 * (width * height), largest) # "Ok"
    BY <2>1, SMT DEF NewFrame
  <2> QED
    BY <1>2, <2>2, Zenon DEF MappedImage
<1> QED
  BY <1>1, <1>2

\* A size the client asks for while it follows the screen is one a profile
\* may have, whatever the area and the scale of the screen (on_viewport,
\* display_size).
THEOREM FollowedIsValid ==
  ASSUME NEW width \in Int, NEW height \in Int
  PROVE  LET size == FollowedSize(width, height) IN
           size.width \in U16 /\ size.height \in U16 /\ ValidDesktop(size.width, size.height)
BY SMT DEF FollowedSize, Clamped, ValidDesktop, MaxDesktopDimension, U16

\* Turning a valid desktop to landscape keeps it valid and only exchanges its
\* sides: the lower bounds of landscape_size() never apply to it (launch).
THEOREM LandscapeIsValid ==
  ASSUME NEW width \in U16, NEW height \in U16, ValidDesktop(width, height)
  PROVE  LET size == LandscapeSize(width, height) IN
           /\ size.width \in U16 /\ size.height \in U16 /\ ValidDesktop(size.width, size.height)
           /\ size.width >= size.height
           /\ {size.width, size.height} = {width, height}
<1> DEFINE size == LandscapeSize(width, height)
<1>1. CASE width >= height
  <2>1. size.width = width /\ size.height = height
    BY <1>1, SMT DEF LandscapeSize, Larger, Smaller, ValidDesktop, U16, MaxDesktopDimension
  <2> QED
    BY <1>1, <2>1
<1>2. CASE ~(width >= height)
  <2>1. size.width = height /\ size.height = width
    BY <1>2, SMT DEF LandscapeSize, Larger, Smaller, ValidDesktop, U16, MaxDesktopDimension
  <2>2. ValidDesktop(height, width) /\ height >= width
    BY <1>2, SMT DEF ValidDesktop, U16, MaxDesktopDimension
  <2> QED
    BY <2>1, <2>2
<1> QED
  BY <1>1, <1>2

\* Whatever the client asks for, the picture of that size is accepted as a
\* frame (on_viewport, launch, map_output).
THEOREM AskedCanBeShown ==
  ASSUME NEW largest \in Nat, largest >= MaxFrameBytes
  PROVE  /\ \A width \in Int, height \in Int :
              LET size == FollowedSize(width, height) IN
                MappedImage(size.width, size.height, largest) = "Ok"
         /\ \A width \in U16, height \in U16 : ValidDesktop(width, height) =>
              LET size == LandscapeSize(width, height) IN
                MappedImage(size.width, size.height, largest) = "Ok"
<1>1. ASSUME NEW width \in U16, NEW height \in U16, ValidDesktop(width, height)
      PROVE  MappedImage(width, height, largest) = "Ok"
  <2>1. width \in U16 \ {0} /\ height \in U16 \ {0}
    BY <1>1, SMT DEF ValidDesktop, U16
  <2>2. width <= MaxDesktopDimension /\ height <= MaxDesktopDimension
    BY <1>1, Zenon DEF ValidDesktop
  <2> QED
    BY <2>1, <2>2, ImageAccepted
<1>2. ASSUME NEW width \in Int, NEW height \in Int
      PROVE  MappedImage(FollowedSize(width, height).width, FollowedSize(width, height).height, largest) = "Ok"
  BY <1>1, FollowedIsValid
<1>3. ASSUME NEW width \in U16, NEW height \in U16, ValidDesktop(width, height)
      PROVE  MappedImage(LandscapeSize(width, height).width, LandscapeSize(width, height).height, largest) = "Ok"
  BY <1>1, <1>3, LandscapeIsValid
<1> QED
  BY <1>2, <1>3

\* The difference of two i32 edges, which monitor_bounds() takes in i64, fits
\* the u32 it is converted to: the conversions never fail, and only an empty
\* layout announces no size.
THEOREM BoundsFit ==
  ASSUME NEW low \in I32, NEW high \in I32
  PROVE  Extent(low, high) \in U32
BY SMT DEF Extent, I32, U32

=============================================================================
