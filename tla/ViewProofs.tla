----------------------------- MODULE ViewProofs ------------------------------
(***************************************************************************)
(* The size of the remote desktop and the picture of it.  The invariant of *)
(* Resize says what a session knows before it is connected, and that of    *)
(* View that the picture is always drawn from the viewport as it is.       *)
(***************************************************************************)
EXTENDS View, TLAPS

-----------------------------------------------------------------------------
(* The size that is asked for.                                             *)

\* Nothing is asked for, and nothing pending, before the picture area was laid
\* out; once a session has sent a size, the landscape size of a session that
\* does not follow the area has nothing else pending behind it.
ResizeInv ==
  /\ viewport = Unknown =>
       resize = Unknown /\ (session /\ ~ follow => asked = Landscape)
  /\ lastSize # Unknown => asked = lastSize
  /\ ~ follow /\ lastSize = Landscape => resize \in {Landscape, Unknown}
  /\ uiConnected => session

LEMMA ResizeTyping == TypeOK /\ [Next]_vars => TypeOK'
<1> SUFFICES ASSUME TypeOK, [Next]_vars PROVE TypeOK'
  OBVIOUS
<1>1. ASSUME NEW dynamic \in BOOLEAN, Launch(dynamic) PROVE TypeOK'
  BY <1>1 DEF TypeOK, Launch, AnySize
<1>2. CASE Stop
  BY <1>2 DEF TypeOK, Stop
<1>3. ASSUME NEW size \in Sizes, ViewportChanges(size) PROVE TypeOK'
  <2>1. changes + 1 \in 0 .. MaxChanges
    BY <1>3, ChangesAssumption DEF TypeOK, ViewportChanges
  <2> QED
    BY <1>3, <2>1 DEF TypeOK, ViewportChanges
<1>4. ASSUME NEW following \in BOOLEAN, DisplayMode(following) PROVE TypeOK'
  BY <1>4 DEF TypeOK, DisplayMode, SizeForMode, DisplaySize
<1>5. CASE OnConnected
  BY <1>5 DEF TypeOK, OnConnected, DisplaySize
<1>6. CASE OnConnectionLost
  BY <1>6 DEF TypeOK, OnConnectionLost
<1>7. CASE DelayPasses
  BY <1>7 DEF TypeOK, DelayPasses
<1>8. CASE TickResizes
  BY <1>8 DEF TypeOK, TickResizes, AnySize
<1>9. CASE UNCHANGED vars
  BY <1>9 DEF TypeOK, vars
<1> QED
  BY <1>1, <1>2, <1>3, <1>4, <1>5, <1>6, <1>7, <1>8, <1>9 DEF Next

LEMMA ResizeStep ==
  TypeOK /\ ResizeInv /\ LandscapeKept /\ [Next]_vars => ResizeInv' /\ LandscapeKept'
<1> SUFFICES ASSUME TypeOK, ResizeInv, LandscapeKept, [Next]_vars PROVE ResizeInv' /\ LandscapeKept'
  OBVIOUS
<1> USE UnknownAssumption DEF ResizeInv, LandscapeKept
<1>1. ASSUME NEW dynamic \in BOOLEAN, Launch(dynamic) PROVE ResizeInv' /\ LandscapeKept'
  BY <1>1 DEF Launch
<1>2. CASE Stop
  BY <1>2 DEF Stop
<1>3. ASSUME NEW size \in Sizes, ViewportChanges(size) PROVE ResizeInv' /\ LandscapeKept'
  BY <1>3 DEF ViewportChanges
<1>4. ASSUME NEW following \in BOOLEAN, DisplayMode(following) PROVE ResizeInv' /\ LandscapeKept'
  BY <1>4 DEF DisplayMode, SizeForMode, DisplaySize
<1>5. CASE OnConnected
  BY <1>5 DEF OnConnected, DisplaySize, TypeOK
<1>6. CASE OnConnectionLost
  BY <1>6 DEF OnConnectionLost
<1>7. CASE DelayPasses
  BY <1>7 DEF DelayPasses
<1>8. CASE TickResizes
  BY <1>8 DEF TickResizes
<1>9. CASE UNCHANGED vars
  BY <1>9 DEF vars
<1> QED
  BY <1>1, <1>2, <1>3, <1>4, <1>5, <1>6, <1>7, <1>8, <1>9 DEF Next

LEMMA ResizeStart == Init => TypeOK /\ ResizeInv /\ LandscapeKept
<1>1. Init => TypeOK
  <2>1. 0 \in 0 .. MaxChanges
    BY ChangesAssumption
  <2> QED
    BY <2>1, Zenon DEF Init, TypeOK, AnySize
<1>2. Init => ResizeInv /\ LandscapeKept
  BY UnknownAssumption DEF Init, ResizeInv, LandscapeKept
<1> QED
  BY <1>1, <1>2

\* A session in landscape mode is at, or on its way to, the landscape size.
THEOREM LandscapeKeptAlways == Spec => []LandscapeKept
<1>1. TypeOK /\ ResizeInv /\ LandscapeKept /\ [Next]_vars
        => TypeOK' /\ ResizeInv' /\ LandscapeKept'
  BY ResizeTyping, ResizeStep
<1> QED
  BY <1>1, ResizeStart, PTL DEF Spec

-----------------------------------------------------------------------------
(* Numbers.                                                                *)

SameFraction(a, b, c, d) == a * d = c * b

\* Two fractions that are equal are rounded down to the same number.
LEMMA EqualQuotients ==
  ASSUME NEW a \in Int, NEW b \in Nat \ {0}, NEW c \in Int, NEW d \in Nat \ {0},
         SameFraction(a, b, c, d)
  PROVE  a \div b = c \div d
<1> DEFINE q == a \div b
           r == a % b
<1>1. q \in Int /\ r \in 0 .. b - 1 /\ a = b * q + r
  OBVIOUS
<1> HIDE DEF q, r
<1>2. c * b = (b * q + r) * d
  BY <1>1 DEF SameFraction
<1>3. (b * q + r) * d = b * (d * q) + r * d
  BY <1>1
<1>4. b * (c - d * q) = r * d
  BY <1>1, <1>2, <1>3
<1>5. PICK e \in Int : e = c - d * q
  BY <1>1
<1>6. b * e = r * d
  BY <1>4, <1>5
<1>7. 0 <= r * d /\ r * d < b * d
  BY <1>1
<1>8. 0 <= e
  BY <1>5, <1>6, <1>7
<1>9. e < d
  BY <1>5, <1>6, <1>7
<1>10. c = d * q + e /\ e \in 0 .. d - 1
  BY <1>1, <1>5, <1>8, <1>9
<1>11. c \div d = q
  BY <1>1, <1>10
<1> QED
  BY <1>11 DEF q

\* A value that was clamped stays within the limits.
LEMMA ClampedWithin ==
  ASSUME NEW v \in Int, NEW limit \in Nat
  PROVE  Clamped(v, limit) \in Int /\ Clamped(v, limit) <= limit /\ - limit <= Clamped(v, limit)
BY DEF Clamped

\* A picture that is moved no further than to its edge covers the area along an
\* axis it is larger on, and is centred on one it is not.
LEMMA AxisCovered ==
  ASSUME NEW length \in Nat, NEW drawnLength \in Nat, NEW shift \in Int,
         shift <= Slack(length, drawnLength), - Slack(length, drawnLength) <= shift
  PROVE  IF drawnLength > length
           THEN /\ Origin(length, drawnLength, shift) <= 0
                /\ Origin(length, drawnLength, shift) + 2 * drawnLength >= 2 * length
           ELSE Origin(length, drawnLength, shift) = length - drawnLength
<1>1. CASE drawnLength > length
  <2>1. PICK half \in Int : half = (drawnLength - length) \div 2
    OBVIOUS
  <2>2. 2 * half <= drawnLength - length
    BY <2>1
  <2>3. shift <= half /\ - half <= shift
    BY <1>1, <2>1 DEF Slack
  <2> QED
    BY <1>1, <2>2, <2>3 DEF Origin
<1>2. CASE ~ (drawnLength > length)
  BY <1>2 DEF Slack, Origin
<1> QED
  BY <1>1, <1>2

-----------------------------------------------------------------------------
(* The viewport.                                                           *)

AllSizes == Sizes \cup {Landscape, Profile}

\* How far the picture may be moved along the two axes.
SlackX == Slack(viewport.width, Scaled(remote.width, Scale(viewport, remote, zoom)))
SlackY == Slack(viewport.height, Scaled(remote.height, Scale(viewport, remote, zoom)))

\* While there is a picture, it is that of the remote desktop, drawn from the
\* viewport as it is, and moved no further than to its edges.
DrawnInv ==
  picture # Unknown =>
    /\ viewport # Unknown /\ picture = remote
    /\ drawn = DrawnAt(viewport, remote, zoom, pan)
    /\ pan.x <= SlackX /\ - SlackX <= pan.x
    /\ pan.y <= SlackY /\ - SlackY <= pan.y

ViewInv == ViewTypeOK /\ ResizeInv /\ LandscapeKept /\ DrawnInv

LEMMA Lengths ==
  ASSUME NEW area \in Sizes, NEW size \in AllSizes, NEW z \in Zooms
  PROVE  /\ area.width \in Nat \ {0} /\ area.height \in Nat \ {0}
         /\ size.width \in Nat \ {0} /\ size.height \in Nat \ {0} /\ z \in 1 .. 4
         /\ Scale(area, size, z).num \in Nat \ {0} /\ Scale(area, size, z).den \in Nat \ {0}
         /\ Scaled(size.width, Scale(area, size, z)) \in Nat
         /\ Scaled(size.height, Scale(area, size, z)) \in Nat
<1>1. /\ area.width \in Nat \ {0} /\ area.height \in Nat \ {0}
      /\ size.width \in Nat \ {0} /\ size.height \in Nat \ {0} /\ z \in 1 .. 4
  BY SizesAssumption, ZoomAssumption DEF AllSizes
<1>2. Scale(area, size, z).num \in Nat \ {0} /\ Scale(area, size, z).den \in Nat \ {0}
  <2>1. area.width * z \in Nat \ {0} /\ area.height * z \in Nat \ {0}
    BY <1>1
  <2> QED
    BY <1>1, <2>1 DEF Scale
<1>3. \A length \in Nat, num \in Nat, den \in Nat \ {0} : (length * num) \div den \in Nat
  OBVIOUS
<1> QED
  BY <1>1, <1>2, <1>3 DEF Scaled

LEMMA SlackIsNat ==
  ASSUME NEW length \in Nat, NEW drawnLength \in Nat
  PROVE  Slack(length, drawnLength) \in Nat
BY DEF Slack

\* What clamp_pan() and update_view() leave.
LEMMA Redrawn ==
  ASSUME NEW area \in Sizes, NEW size \in AllSizes, NEW z \in Zooms, NEW target \in [x : Int, y : Int]
  PROVE  LET shift == ClampPan(area, size, z, target)
             limitX == Slack(area.width, Scaled(size.width, Scale(area, size, z)))
             limitY == Slack(area.height, Scaled(size.height, Scale(area, size, z))) IN
         /\ shift \in [x : Int, y : Int]
         /\ shift.x <= limitX /\ - limitX <= shift.x
         /\ shift.y <= limitY /\ - limitY <= shift.y
<1> DEFINE limitX == Slack(area.width, Scaled(size.width, Scale(area, size, z)))
           limitY == Slack(area.height, Scaled(size.height, Scale(area, size, z)))
<1>1. limitX \in Nat /\ limitY \in Nat
  BY Lengths, SlackIsNat
<1>2. ClampPan(area, size, z, target) = [x |-> Clamped(target.x, limitX), y |-> Clamped(target.y, limitY)]
  BY DEF ClampPan
<1> HIDE DEF limitX, limitY
<1>3. /\ Clamped(target.x, limitX) \in Int
      /\ Clamped(target.x, limitX) <= limitX /\ - limitX <= Clamped(target.x, limitX)
  BY <1>1, ClampedWithin
<1>4. /\ Clamped(target.y, limitY) \in Int
      /\ Clamped(target.y, limitY) <= limitY /\ - limitY <= Clamped(target.y, limitY)
  BY <1>1, ClampedWithin
<1> QED
  BY <1>2, <1>3, <1>4 DEF limitX, limitY

LEMMA DrawnAtTyped ==
  ASSUME NEW area \in Sizes, NEW size \in AllSizes, NEW z \in Zooms, NEW shift \in [x : Int, y : Int]
  PROVE  /\ DrawnAt(area, size, z, shift) \in [x : Int, y : Int, width : Nat, height : Nat]
         /\ DrawnAt(area, size, z, shift).width = Scaled(size.width, Scale(area, size, z))
         /\ DrawnAt(area, size, z, shift).height = Scaled(size.height, Scale(area, size, z))
         /\ DrawnAt(area, size, z, shift).x =
              Origin(area.width, Scaled(size.width, Scale(area, size, z)), shift.x)
         /\ DrawnAt(area, size, z, shift).y =
              Origin(area.height, Scaled(size.height, Scale(area, size, z)), shift.y)
<1>1. \A length, drawnLength \in Nat, s \in Int : Origin(length, drawnLength, s) \in Int
  BY DEF Origin
<1>2. shift.x \in Int /\ shift.y \in Int
  OBVIOUS
<1> QED
  BY <1>1, <1>2, Lengths DEF DrawnAt

\* The centre is within every limit.
LEMMA CentreWithin ==
  ASSUME NEW area \in Sizes, NEW size \in AllSizes, NEW z \in Zooms
  PROVE  LET limitX == Slack(area.width, Scaled(size.width, Scale(area, size, z)))
             limitY == Slack(area.height, Scaled(size.height, Scale(area, size, z))) IN
         /\ Centred \in [x : Int, y : Int]
         /\ Centred.x <= limitX /\ - limitX <= Centred.x
         /\ Centred.y <= limitY /\ - limitY <= Centred.y
<1>1. /\ Slack(area.width, Scaled(size.width, Scale(area, size, z))) \in Nat
      /\ Slack(area.height, Scaled(size.height, Scale(area, size, z))) \in Nat
  BY Lengths, SlackIsNat
<1>2. Centred \in [x : Int, y : Int] /\ Centred.x = 0 /\ Centred.y = 0
  BY DEF Centred
<1> QED
  BY <1>1, <1>2

\* Every step of View is a step of Resize, or leaves the sizes as they are.
LEMMA ViewStepResizes == [ViewNext]_<<vars, viewVars>> => [Next]_vars
<1> SUFFICES ASSUME [ViewNext]_<<vars, viewVars>> PROVE Next \/ UNCHANGED vars
  OBVIOUS
<1>1. ASSUME NEW dynamic \in BOOLEAN, ViewLaunch(dynamic) PROVE Next
  BY <1>1 DEF ViewLaunch, Next
<1>2. CASE ViewStop
  BY <1>2 DEF ViewStop, Next
<1>3. ASSUME NEW size \in Sizes, ViewChanges(size) PROVE Next
  BY <1>3 DEF ViewChanges, Next
<1>4. ASSUME NEW following \in BOOLEAN, ViewMode(following) PROVE Next
  BY <1>4 DEF ViewMode, Next
<1>5. CASE ViewLost
  BY <1>5 DEF ViewLost, Next
<1>6. CASE (OnConnected \/ DelayPasses \/ TickResizes) /\ UNCHANGED viewVars
  BY <1>6 DEF Next
<1>7. CASE ResetView \/ UNCHANGED <<vars, viewVars>>
  BY <1>7 DEF ResetView
<1>8. ASSUME NEW z \in Zooms, NEW target, Gesture(z, target) PROVE UNCHANGED vars
  BY <1>8 DEF Gesture
<1>9. ASSUME NEW size \in AllSizes, Frame(size) PROVE UNCHANGED vars
  BY <1>9 DEF Frame
<1> QED
  BY <1>1, <1>2, <1>3, <1>4, <1>5, <1>6, <1>7, <1>8, <1>9 DEF ViewNext, AllSizes

\* The two ways a callback leaves the picture: drawn anew from the viewport it
\* sets, or not there.
LEMMA DrawnAnew ==
  ASSUME viewport' \in Sizes, remote' \in AllSizes, zoom' \in Zooms, NEW target \in [x : Int, y : Int],
         pan' = ClampPan(viewport', remote', zoom', target) \/ pan' = Centred,
         drawn' = DrawnAt(viewport', remote', zoom', pan'),
         picture' = Unknown \/ picture' = remote'
  PROVE  /\ pan' \in [x : Int, y : Int]
         /\ drawn' \in [x : Int, y : Int, width : Nat, height : Nat]
         /\ picture' \in AllSizes \cup {Unknown} /\ DrawnInv'
<1>1. /\ pan' \in [x : Int, y : Int]
      /\ pan'.x <= SlackX' /\ - SlackX' <= pan'.x
      /\ pan'.y <= SlackY' /\ - SlackY' <= pan'.y
  <2>1. CASE pan' = ClampPan(viewport', remote', zoom', target)
    BY <2>1, Redrawn DEF SlackX, SlackY
  <2>2. CASE pan' = Centred
    BY <2>2, CentreWithin DEF SlackX, SlackY
  <2> QED
    BY <2>1, <2>2
<1>2. drawn' \in [x : Int, y : Int, width : Nat, height : Nat]
  BY <1>1, DrawnAtTyped
<1>3. viewport' # Unknown
  BY UnknownAssumption
<1> QED
  BY <1>1, <1>2, <1>3 DEF DrawnInv

LEMMA ViewStep == ViewInv /\ [ViewNext]_<<vars, viewVars>> => ViewInv'
<1> SUFFICES ASSUME ViewInv, [ViewNext]_<<vars, viewVars>> PROVE ViewInv'
  OBVIOUS
<1>0. TypeOK' /\ ResizeInv' /\ LandscapeKept'
  <2>1. TypeOK /\ ResizeInv /\ LandscapeKept /\ [Next]_vars
    BY ViewStepResizes DEF ViewInv, ViewTypeOK
  <2> QED
    BY <2>1, ResizeTyping, ResizeStep
<1>a. /\ viewport \in Sizes \cup {Unknown} /\ remote \in AllSizes /\ zoom \in Zooms
      /\ pan \in [x : Int, y : Int] /\ drawn \in [x : Int, y : Int, width : Nat, height : Nat]
      /\ picture \in AllSizes \cup {Unknown} /\ asked' \in AllSizes \cup {Unknown}
      /\ Centred \in [x : Int, y : Int] /\ 1 \in Zooms
      /\ DrawnInv
  BY <1>0, ZoomAssumption DEF ViewInv, ViewTypeOK, TypeOK, AllSizes, AnySize, Centred
<1> DEFINE Kept == /\ remote' \in AllSizes /\ zoom' \in Zooms /\ pan' \in [x : Int, y : Int]
                   /\ drawn' \in [x : Int, y : Int, width : Nat, height : Nat]
                   /\ picture' \in AllSizes \cup {Unknown} /\ DrawnInv'
<1>b. SUFFICES Kept
  BY <1>0 DEF ViewInv, ViewTypeOK, AllSizes
<1>1. ASSUME NEW dynamic \in BOOLEAN, ViewLaunch(dynamic) PROVE Kept
  BY <1>1, <1>a DEF ViewLaunch, Launch, DrawnInv, AllSizes
<1>2. CASE ViewStop
  BY <1>2, <1>a DEF ViewStop, DrawnInv
<1>3. ASSUME NEW size \in Sizes, ViewChanges(size) PROVE Kept
  <2>1. /\ viewport' = size /\ remote' = remote /\ zoom' = zoom /\ picture' = picture
        /\ pan' = ClampPan(viewport', remote', zoom', pan)
        /\ drawn' = DrawnAt(viewport', remote', zoom', pan')
    BY <1>3 DEF ViewChanges, ViewportChanges
  <2>2. picture' = Unknown \/ picture' = remote'
    BY <1>a, <2>1 DEF DrawnInv
  <2> QED
    BY <1>a, <2>1, <2>2, DrawnAnew
<1>4. ASSUME viewport \in Sizes, viewport' = viewport, Recentre PROVE Kept
  <2>1. /\ remote' = remote /\ zoom' = 1 /\ pan' = Centred /\ picture' = picture
        /\ drawn' = DrawnAt(viewport', remote', zoom', pan')
    BY <1>4 DEF Recentre, DrawnAfterReset
  <2>2. picture' = Unknown \/ picture' = remote'
    BY <1>a, <2>1 DEF DrawnInv
  <2> QED
    BY <1>4, <1>a, <2>1, <2>2, DrawnAnew
<1>5. ASSUME NEW following \in BOOLEAN, ViewMode(following) PROVE Kept
  BY <1>4, <1>5, <1>a DEF ViewMode, DisplayMode
<1>6. CASE ResetView
  BY <1>4, <1>6, <1>a DEF ResetView, vars
<1>7. CASE ViewLost
  BY <1>7, <1>a DEF ViewLost, OnConnectionLost, DrawnInv, SlackX, SlackY
<1>8. ASSUME NEW z \in Zooms, NEW x \in Targets, NEW y \in Targets, Gesture(z, [x |-> x, y |-> y])
      PROVE  Kept
  <2>1. [x |-> x, y |-> y] \in [x : Int, y : Int]
    BY TargetsAssumption
  <2>2. /\ viewport' = viewport /\ viewport' \in Sizes /\ remote' = remote /\ zoom' = z
        /\ picture' = picture
        /\ pan' = ClampPan(viewport', remote', zoom', [x |-> x, y |-> y])
        /\ drawn' = DrawnAt(viewport', remote', zoom', pan')
    BY <1>8, <1>a DEF Gesture, vars
  <2>3. picture' = Unknown \/ picture' = remote'
    BY <1>a, <2>2 DEF DrawnInv
  <2> QED
    BY <1>a, <2>1, <2>2, <2>3, DrawnAnew
<1>9. ASSUME NEW size \in AllSizes, Frame(size) PROVE Kept
  <2>1. /\ viewport' = viewport /\ viewport' \in Sizes /\ remote' = size /\ zoom' = zoom
        /\ picture' = remote'
        /\ pan' = ClampPan(viewport', remote', zoom', pan)
        /\ drawn' = DrawnAt(viewport', remote', zoom', pan')
    BY <1>9, <1>a DEF Frame, vars
  <2> QED
    BY <1>a, <2>1, DrawnAnew
<1>10. CASE (OnConnected \/ DelayPasses \/ TickResizes) /\ UNCHANGED viewVars
  BY <1>10, <1>a DEF OnConnected, DelayPasses, TickResizes, viewVars, DrawnInv, SlackX, SlackY
<1>11. CASE UNCHANGED <<vars, viewVars>>
  BY <1>11, <1>a DEF vars, viewVars, DrawnInv, SlackX, SlackY
<1> QED
  BY <1>1, <1>2, <1>3, <1>5, <1>6, <1>7, <1>8, <1>9, <1>10, <1>11 DEF ViewNext, AllSizes

\* The invariant of the viewport, with that of the sizes.
THEOREM ViewInvariance == ViewSpec => []ViewInv
<1>1. ViewInit => ViewInv
  <2> SUFFICES ASSUME ViewInit PROVE ViewInv
    OBVIOUS
  <2>1. TypeOK /\ ResizeInv /\ LandscapeKept
    BY ResizeStart DEF ViewInit
  <2>2. ViewTypeOK
    BY <2>1, ZoomAssumption DEF ViewInit, ViewTypeOK, Centred
  <2>3. DrawnInv
    BY DEF ViewInit, DrawnInv
  <2> QED
    BY <2>1, <2>2, <2>3 DEF ViewInv
<1> QED
  BY <1>1, ViewStep, PTL DEF ViewSpec

\* The picture never asks Resize for anything its callbacks do not.
THEOREM ViewResizes == ViewSpec => Spec
<1>1. ViewInit => Init
  BY DEF ViewInit
<1> QED
  BY <1>1, ViewStepResizes, PTL DEF ViewSpec, Spec

\* A session in landscape mode is at the landscape size or on its way there,
\* whatever the picture is doing.
THEOREM LandscapeKeptInView == ViewSpec => []LandscapeKept
BY ViewResizes, LandscapeKeptAlways, PTL

\* The picture covers the area along every axis it is larger on, and is centred
\* on the others.
THEOREM PictureCoversAlways == ViewSpec => []PictureCovers
<1>1. ViewInv => PictureCovers
  <2> SUFFICES ASSUME ViewInv, picture # Unknown
               PROVE  /\ IF drawn.width > viewport.width
                           THEN drawn.x <= 0 /\ drawn.x + 2 * drawn.width >= 2 * viewport.width
                           ELSE drawn.x = viewport.width - drawn.width
                      /\ IF drawn.height > viewport.height
                           THEN drawn.y <= 0 /\ drawn.y + 2 * drawn.height >= 2 * viewport.height
                           ELSE drawn.y = viewport.height - drawn.height
    BY DEF PictureCovers
  <2>1. /\ viewport \in Sizes /\ remote \in AllSizes /\ zoom \in Zooms /\ pan \in [x : Int, y : Int]
        /\ drawn = DrawnAt(viewport, remote, zoom, pan)
        /\ pan.x <= SlackX /\ - SlackX <= pan.x
        /\ pan.y <= SlackY /\ - SlackY <= pan.y
    BY DEF ViewInv, ViewTypeOK, TypeOK, DrawnInv, AllSizes
  <2>2. /\ viewport.width \in Nat /\ viewport.height \in Nat
        /\ drawn.width \in Nat /\ drawn.height \in Nat /\ pan.x \in Int /\ pan.y \in Int
        /\ SlackX = Slack(viewport.width, drawn.width)
        /\ SlackY = Slack(viewport.height, drawn.height)
        /\ drawn.x = Origin(viewport.width, drawn.width, pan.x)
        /\ drawn.y = Origin(viewport.height, drawn.height, pan.y)
    BY <2>1, Lengths, DrawnAtTyped DEF SlackX, SlackY
  <2> QED
    BY <2>1, <2>2, AxisCovered
<1> QED
  BY <1>1, ViewInvariance, PTL

-----------------------------------------------------------------------------
(* Touches.                                                                *)

\* map() divides by the scale and the window shows one pixel after another:
\* where nothing is rounded, both find the same pixel.
LEMMA SamePixel ==
  ASSUME NEW position \in Int, NEW length \in Nat, NEW size \in Nat \ {0}, NEW shift \in Int,
         NEW scale \in [num : Nat \ {0}, den : Nat \ {0}], Exact(size, scale)
  PROVE  MapAxis(position, length, size, shift, scale) =
           PixelAt(position, Origin(length, Scaled(size, scale), shift), Scaled(size, scale), size)
<1>1. PICK num \in Nat \ {0}, den \in Nat \ {0} : num = scale.num /\ den = scale.den
  OBVIOUS
<1>2. PICK drawnLength : drawnLength = Scaled(size, scale)
  OBVIOUS
<1>3. drawnLength \in Nat \ {0} /\ drawnLength * den = size * num
  <2>1. (size * num) \div den \in Int
    BY <1>1
  <2> QED
    BY <1>1, <1>2, <2>1 DEF Exact, Scaled
<1>4. PICK offset \in Int : offset = 2 * position - Origin(length, drawnLength, shift)
  BY <1>3 DEF Origin
<1>5. (offset * den) \div (2 * num) = (offset * size) \div (2 * drawnLength)
  <2>1. /\ offset * den \in Int /\ 2 * num \in Nat \ {0}
        /\ offset * size \in Int /\ 2 * drawnLength \in Nat \ {0}
    BY <1>1, <1>3, <1>4
  <2>2. (offset * den) * (2 * drawnLength) = (offset * size) * (2 * num)
    <3>1. (offset * den) * (2 * drawnLength) = (2 * offset) * (drawnLength * den)
      BY <1>1, <1>3, <1>4
    <3>2. (offset * size) * (2 * num) = (2 * offset) * (size * num)
      BY <1>1, <1>3, <1>4
    <3> QED
      BY <1>3, <3>1, <3>2
  <2>3. PICK a \in Int, c \in Int : a = offset * den /\ c = offset * size
    BY <2>1
  <2>4. PICK b \in Nat \ {0}, d \in Nat \ {0} : b = 2 * num /\ d = 2 * drawnLength
    BY <2>1
  <2>5. SameFraction(a, b, c, d)
    BY <2>2, <2>3, <2>4 DEF SameFraction
  <2>6. a \div b = c \div d
    BY <2>5, EqualQuotients, SMTT(30)
  <2> QED
    BY <2>3, <2>4, <2>6
<1> QED
  BY <1>1, <1>2, <1>4, <1>5 DEF MapAxis, PixelAt

\* A touch reaches the pixel that is drawn under it.
THEOREM TouchesHitPictureAlways == ViewSpec => []TouchesHitPicture
<1>1. ViewInv => TouchesHitPicture
  <2> SUFFICES ASSUME ViewInv, picture # Unknown, NEW x \in Touches, NEW y \in Touches
               PROVE  Map(x, y) = PixelSeen(x, y)
    BY DEF TouchesHitPicture
  <2>1. /\ viewport \in Sizes /\ remote \in AllSizes /\ zoom \in Zooms /\ pan \in [x : Int, y : Int]
        /\ picture = remote /\ drawn = DrawnAt(viewport, remote, zoom, pan)
    BY DEF ViewInv, ViewTypeOK, TypeOK, DrawnInv, AllSizes
  <2>2. PICK scale : scale = Scale(viewport, remote, zoom)
    OBVIOUS
  <2>3. /\ scale \in [num : Nat \ {0}, den : Nat \ {0}]
        /\ Exact(remote.width, scale) /\ Exact(remote.height, scale)
    <3>1. Exact(remote.width, scale) /\ Exact(remote.height, scale)
      BY <2>1, <2>2, ExactAssumption DEF AllSizes
    <3>2. scale.num \in Nat \ {0} /\ scale.den \in Nat \ {0}
      BY <2>1, <2>2, Lengths
    <3>3. scale = [num |-> scale.num, den |-> scale.den]
      BY <2>2 DEF Scale
    <3> QED
      BY <3>1, <3>2, <3>3
  <2>4. /\ viewport.width \in Nat /\ viewport.height \in Nat
        /\ remote.width \in Nat \ {0} /\ remote.height \in Nat \ {0}
        /\ x \in Int /\ y \in Int /\ pan.x \in Int /\ pan.y \in Int
        /\ drawn.width = Scaled(remote.width, scale) /\ drawn.height = Scaled(remote.height, scale)
        /\ drawn.x = Origin(viewport.width, drawn.width, pan.x)
        /\ drawn.y = Origin(viewport.height, drawn.height, pan.y)
    BY <2>1, <2>2, Lengths, DrawnAtTyped, TargetsAssumption
  <2>5. MapAxis(x, viewport.width, remote.width, pan.x, scale) =
          PixelAt(x, drawn.x, drawn.width, picture.width)
    BY <2>1, <2>3, <2>4, SamePixel
  <2>6. MapAxis(y, viewport.height, remote.height, pan.y, scale) =
          PixelAt(y, drawn.y, drawn.height, picture.height)
    BY <2>1, <2>3, <2>4, SamePixel
  <2> QED
    BY <2>2, <2>5, <2>6 DEF Map, PixelSeen
<1> QED
  BY <1>1, ViewInvariance, PTL

\* The viewport and what is drawn keep their types: the scale stays one of the
\* zooms, and no length becomes negative.
THEOREM ViewTyped == ViewSpec => []ViewTypeOK
<1>1. ViewInv => ViewTypeOK
  BY DEF ViewInv
<1> QED BY <1>1, ViewInvariance, PTL

=============================================================================
