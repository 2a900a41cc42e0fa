---------------------------- MODULE PictureProofs ----------------------------
(***************************************************************************)
(* The way of a picture.  For any pictures and any number of bits a tile   *)
(* keeps within the quality it was built under, and its refinement stops   *)
(* only at the best; for any modes the screen gets the largest that fits.  *)
(***************************************************************************)
EXTENDS MCPictures, WellFoundedInduction, TLAPS

\* Min of two numbers is the smaller one.
LEMMA MinOfTwo ==
    ASSUME NEW a \in Int, NEW b \in Int
    PROVE  Min({a, b}) \in {a, b} /\ Min({a, b}) <= a /\ Min({a, b}) <= b
<1> DEFINE least(v) == v \in {a, b} /\ \A y \in {a, b} : v <= y
<1>1. \E v : least(v)
  <2>1. CASE a <= b  BY <2>1
  <2>2. CASE b <= a  BY <2>2
  <2> QED  BY <2>1, <2>2
<1>2. least(CHOOSE v : least(v))
  BY <1>1
<1>3. Min({a, b}) = CHOOSE v : least(v)
  BY DEF Min
<1> QED  BY <1>2, <1>3

\* tycho_set_quality leaves bounds in order and within the bits of a colour.
LEMMA CutInside ==
    ASSUME NEW min \in Asked, NEW max \in Asked
    PROVE  /\ Cut(min, max) \in [min : 0 .. ColorBits, max : 0 .. ColorBits]
           /\ Cut(min, max).min <= Cut(min, max).max
<1> DEFINE top == Min({max, ColorBits})
           low == Min({min, top})
<1>1. min \in Int /\ min >= 0 /\ max \in Int /\ max >= 0 /\ ColorBits \in Int /\ ColorBits >= 0
  BY TileAssumption DEF Asked
<1>2. top \in {max, ColorBits} /\ top <= ColorBits
  BY <1>1, MinOfTwo
<1>3. top \in 0 .. ColorBits
  BY <1>1, <1>2
<1>4. low \in {min, top} /\ low <= top
  <2> HIDE DEF top
  <2> QED  BY <1>1, <1>3, MinOfTwo
<1>5. low \in 0 .. ColorBits
  <2> HIDE DEF top, low
  <2> QED  BY <1>1, <1>3, <1>4
<1>6. Cut(min, max) = [min |-> low, max |-> top]
  BY DEF Cut
<1> HIDE DEF top, low
<1> QED  BY <1>3, <1>4, <1>5, <1>6

\* Under the present quality: a tile that is still refined has not reached
\* the bound, and has no more bits than its picture can keep.
Underway ==
    /\ hash \in Contents
    /\ depth <= quality.max
    /\ stop => depth = Best(hash)
    /\ ~stop => depth < quality.max /\ depth <= Fits[hash]

TileInv == TileTypeOK /\ (fresh => Underway)

LEMMA InitHolds == TileInit => TileInv
<1> SUFFICES ASSUME TileInit PROVE TileTypeOK /\ ~fresh
  BY DEF TileInv
<1>1. quality \in [min : 0 .. ColorBits, max : 0 .. ColorBits] /\ quality.min <= quality.max
  BY CutInside DEF TileInit, Quality
<1>2. 0 \in 0 .. DepthBound /\ 0 \in 0 .. StepSize - 1
  BY TileAssumption DEF DepthBound
<1> QED  BY <1>1, <1>2 DEF TileInit, NewTile, TileTypeOK

\* The best depth is the smaller of what the picture and the quality allow.
LEMMA BestFacts ==
    ASSUME TileTypeOK, NEW c \in Contents
    PROVE  /\ Fits[c] \in Nat /\ quality.max \in Nat /\ quality.max <= ColorBits
           /\ Best(c) = IF Fits[c] <= quality.max THEN Fits[c] ELSE quality.max
<1>1. Fits[c] \in Nat /\ quality.max \in Nat /\ quality.max <= ColorBits
  BY TileAssumption DEF TileTypeOK
<1>2. PICK fit : fit = Fits[c]  OBVIOUS
<1>3. PICK max : max = quality.max  OBVIOUS
<1>4. fit \in Int /\ max \in Int
  BY <1>1, <1>2, <1>3
<1>5. Min({fit, max}) \in {fit, max} /\ Min({fit, max}) <= fit /\ Min({fit, max}) <= max
  BY <1>4, MinOfTwo
<1>6. Min({fit, max}) = IF fit <= max THEN fit ELSE max
  BY <1>4, <1>5
<1> QED  BY <1>1, <1>2, <1>3, <1>6 DEF Best

\* A tile that shows another picture is built within the quality.
LEMMA BuildStep == TileInv /\ Build => TileInv'
<1> SUFFICES ASSUME TileInv, Build PROVE TileInv'
  OBVIOUS
<1>1. PICK fit : fit = Fits[screen]  OBVIOUS
<1>2. PICK min : min = quality.min  OBVIOUS
<1>3. PICK max : max = quality.max  OBVIOUS
<1>4. TileTypeOK /\ screen \in Contents
  BY DEF TileInv, TileTypeOK
<1>5. ColorBits \in Nat /\ fit \in Nat /\ max \in Nat /\ max <= ColorBits /\ min \in Nat /\ min <= max
  <2>1. fit \in Nat /\ max \in Nat /\ max <= ColorBits
    BY <1>1, <1>3, <1>4, BestFacts
  <2>2. ColorBits \in Nat /\ quality.min \in 0 .. ColorBits /\ quality.min <= quality.max
    BY <1>4, TileAssumption DEF TileTypeOK
  <2> QED  BY <1>2, <1>3, <2>1, <2>2
<1>6. depth' = Min({min, fit})
  BY <1>1, <1>2 DEF Build
<1>7. depth' \in {min, fit} /\ depth' <= min /\ depth' <= fit
  BY <1>5, <1>6, MinOfTwo
<1>8. stop' = (depth' < min \/ depth' = max)
  BY <1>2, <1>3 DEF Build, Done
<1>9. Best(hash)' = IF fit <= max THEN fit ELSE max
  <2>1. Best(screen) = IF fit <= max THEN fit ELSE max
    BY <1>1, <1>3, <1>4, BestFacts
  <2>2. Best(hash)' = Best(screen)
    BY DEF Build, Best
  <2> QED  BY <2>1, <2>2
<1>10. TileTypeOK'
  <2>1. depth' \in 0 .. DepthBound /\ 0 \in 0 .. StepSize - 1
    BY <1>5, <1>7, TileAssumption DEF DepthBound
  <2>2. stop' \in BOOLEAN
    BY <1>8
  <2> QED  BY <1>4, <2>1, <2>2 DEF TileTypeOK, Build
<1>11. Underway'
  <2>1. hash' \in Contents /\ quality' = quality /\ Fits[hash]' = fit
    BY <1>1, <1>4 DEF Build
  <2>2. depth' <= max /\ (stop' => depth' = Best(hash)') /\ (~stop' => depth' < max)
    <3>1. PICK d : d = depth'  OBVIOUS
    <3>2. d \in {min, fit} /\ d <= min /\ d <= fit
      BY <1>7, <3>1
    <3>3. d <= max /\ (d < min \/ d = max => d = IF fit <= max THEN fit ELSE max)
          /\ (~(d < min \/ d = max) => d < max)
      BY <1>5, <3>2
    <3>4. ASSUME stop' PROVE depth' = Best(hash)'
      <4>1. d < min \/ d = max  BY <1>8, <3>1, <3>4, Zenon
      <4> QED  BY <1>9, <3>1, <3>3, <4>1
    <3>5. ASSUME ~stop' PROVE depth' < max
      <4>1. ~(d < min \/ d = max)  BY <1>8, <3>1, <3>5, Zenon
      <4> QED  BY <3>1, <3>3, <4>1
    <3> QED  BY <3>1, <3>3, <3>4, <3>5
  <2> QED  BY <1>3, <1>7, <2>1, <2>2 DEF Underway
<1> QED  BY <1>10, <1>11 DEF TileInv

\* One bit more keeps within the quality; no bit more means the best is reached.
LEMMA RefineStep == TileInv /\ Refine => TileInv'
<1> SUFFICES ASSUME TileInv, Refine PROVE TileInv'
  OBVIOUS
<1>1. hash = screen /\ ~stop /\ depth < DepthBound /\ hash' = hash
      /\ quality' = quality /\ fresh' = fresh /\ screen' = screen
  BY DEF Refine
<1>2. PICK kept \in Kept(depth + 1) :
        IF kept THEN depth' = depth + 1 /\ step' = 0 /\ stop' = Done(depth + 1)
                ELSE stop' = TRUE /\ depth' = depth /\ step' = step
  BY DEF Refine
<1>3. TileTypeOK /\ screen \in Contents /\ ColorBits \in Nat /\ depth \in Nat
  BY TileAssumption DEF TileInv, TileTypeOK, DepthBound
<1>4. TileTypeOK'
  <2>1. depth + 1 \in 0 .. DepthBound /\ 0 \in 0 .. StepSize - 1
    BY <1>1, <1>3, TileAssumption DEF DepthBound
  <2>2. depth' \in 0 .. DepthBound /\ step' \in 0 .. StepSize - 1 /\ stop' \in BOOLEAN
    BY <1>2, <1>3, <2>1 DEF TileTypeOK, Done
  <2> QED  BY <1>1, <1>3, <2>2 DEF TileTypeOK
<1>5. ASSUME fresh PROVE Underway'
  <2>1. PICK fit : fit = Fits[screen]  OBVIOUS
  <2>2. PICK max : max = quality.max  OBVIOUS
  <2>3. fit \in Nat /\ max \in Nat /\ max <= ColorBits
    BY <1>3, <2>1, <2>2, BestFacts
  <2>4. depth < max /\ depth <= fit
    BY <1>1, <1>5, <2>1, <2>2 DEF TileInv, Underway
  <2>5. kept = (depth + 1 <= fit)
    BY <1>2, <1>3, <2>1, <2>3, <2>4 DEF Kept
  <2>6. Best(hash)' = IF fit <= max THEN fit ELSE max
    <3>1. Best(screen) = IF fit <= max THEN fit ELSE max
      BY <1>3, <2>1, <2>2, BestFacts
    <3>2. Best(hash)' = Best(screen)
      BY <1>1 DEF Best
    <3> QED  BY <3>1, <3>2
  <2>7. /\ depth' <= max /\ (stop' => depth' = Best(hash)')
        /\ ~stop' => depth' < max /\ depth' <= fit
    <3>1. CASE kept
      <4>1. depth' = depth + 1 /\ stop' = (depth + 1 = max) /\ depth + 1 <= fit
        <5>1. depth' = depth + 1 /\ stop' = (depth + 1 = max)
          BY <1>2, <2>2, <3>1, Zenon DEF Done
        <5> QED  BY <2>5, <3>1, <5>1
      <4>2. depth' <= max /\ depth' <= fit
        BY <1>3, <2>3, <2>4, <4>1
      <4>3. ASSUME stop' PROVE depth' = Best(hash)'
        <5>1. depth + 1 = max  BY <4>1, <4>3, Zenon
        <5> QED  BY <2>3, <2>6, <4>1, <5>1
      <4>4. ASSUME ~stop' PROVE depth' < max
        <5>1. depth + 1 # max  BY <4>1, <4>4, Zenon
        <5> QED  BY <1>3, <2>3, <2>4, <4>1, <5>1
      <4> QED  BY <4>2, <4>3, <4>4
    <3>2. CASE ~kept
      <4>1. depth' = depth /\ stop' = TRUE /\ ~(depth + 1 <= fit)
        BY <1>2, <2>5, <3>2
      <4> QED  BY <1>3, <2>3, <2>4, <2>6, <4>1
    <3> QED  BY <3>1, <3>2
  <2> QED  BY <1>1, <1>3, <2>1, <2>2, <2>7 DEF Underway
<1> QED  BY <1>1, <1>4, <1>5 DEF TileInv

LEMMA TileStep == TileInv /\ [TileNext]_tileVars => TileInv'
<1> SUFFICES ASSUME TileInv, [TileNext]_tileVars PROVE TileInv'
  OBVIOUS
<1>1. CASE Build  BY <1>1, BuildStep
<1>2. CASE Wait
  <2>1. StepSize \in Nat /\ StepSize > 0
    BY TileAssumption
  <2>2. step' \in 0 .. StepSize - 1
    BY <1>2, <2>1 DEF Wait, TileInv, TileTypeOK
  <2> QED  BY <1>2, <2>2 DEF Wait, TileInv, TileTypeOK, Underway, Best
<1>3. CASE Refine  BY <1>3, RefineStep
<1>4. ASSUME NEW c \in Contents, Draw(c) PROVE TileInv'
  <2>1. screen' \in Contents /\ UNCHANGED <<hash, depth, step, stop, quality, fresh>>
    BY <1>4 DEF Draw, tile
  <2>2. TileTypeOK'  BY <2>1 DEF TileInv, TileTypeOK
  <2>3. Underway => Underway'  BY <2>1 DEF Underway, Best
  <2> QED  BY <2>1, <2>2, <2>3 DEF TileInv
<1>5. CASE Resize
  <2>1. 0 \in 0 .. DepthBound /\ 0 \in 0 .. StepSize - 1
    BY TileAssumption DEF DepthBound
  <2> QED  BY <1>5, <2>1 DEF Resize, TileInv, TileTypeOK
<1>6. ASSUME NEW min \in Asked, NEW max \in Asked, SetQuality(min, max) PROVE TileInv'
  <2>1. quality' \in [min : 0 .. ColorBits, max : 0 .. ColorBits] /\ quality'.min <= quality'.max
    BY <1>6, CutInside DEF SetQuality
  <2>2. TileTypeOK'
    BY <1>6, <2>1 DEF SetQuality, tile, TileInv, TileTypeOK
  <2>3. fresh' => fresh /\ quality' = quality
    BY <1>6 DEF SetQuality
  <2> QED  BY <1>6, <2>2, <2>3 DEF SetQuality, tile, TileInv, Underway, Best
<1>7. CASE UNCHANGED tileVars
  BY <1>7 DEF tileVars, tile, TileInv, TileTypeOK, Underway, Best
<1> QED  BY <1>1, <1>2, <1>3, <1>4, <1>5, <1>6, <1>7 DEF TileNext, Grab

LEMMA TileInvariant == TileSpec => []TileInv
  BY InitHolds, TileStep, PTL DEF TileSpec

(***************************************************************************)
(* Type correctness.                                                       *)
(***************************************************************************)
THEOREM TypeCorrect == TileSpec => []TileTypeOK
<1>1. TileInv => TileTypeOK  BY DEF TileInv
<1> QED  BY <1>1, TileInvariant, PTL

(***************************************************************************)
(* A tile built under the present quality keeps within it, although        *)
(* refinement looks for the bound by equality.                             *)
(***************************************************************************)
THEOREM QualityKept == TileSpec => []WithinQuality
<1>1. TileInv => WithinQuality  BY DEF TileInv, Underway, WithinQuality
<1> QED  BY <1>1, TileInvariant, PTL

(***************************************************************************)
(* Refinement stops for good only at the best depth, for any pictures.     *)
(***************************************************************************)
THEOREM StopsRight == TileSpec => []StopsAtBest
<1>1. TileInv => StopsAtBest  BY DEF TileInv, Underway, StopsAtBest
<1> QED  BY <1>1, TileInvariant, PTL

----------------------------------------------------------------------------
\* A set of numbers that is not empty has a least one.
LEMMA Smallest ==
    ASSUME NEW N \in SUBSET Nat, N # {}
    PROVE  \E n \in N : \A m \in N : n <= m
<1> DEFINE R == {pair \in Nat \X Nat : pair[1] < pair[2]}
<1>1. IsWellFoundedOn(R, Nat)
  BY NatLessThanWellFounded, Zenon DEF OpToRel
<1>2. \A m \in Nat, n \in Nat : <<m, n>> \in R <=> m < n
  OBVIOUS
<1> HIDE DEF R
<1>3. PICK n \in N : \A m \in N : <<m, n>> \notin R
  BY <1>1, WFMin
<1>4. ASSUME NEW m \in N PROVE n <= m
  <2>1. m \in Nat /\ n \in Nat /\ ~(m < n)
    BY <1>2, <1>3
  <2> QED  BY <2>1
<1> QED  BY <1>4

\* What the loop of xrandr_resize has chosen after a mode, and its course
\* over the first n modes.
Chosen(s, m, best) == IF S!FitsIn(m, s) /\ S!Area(m) > S!Area(best) THEN m ELSE best
Course(f, s, n) ==
    f = [i \in 0 .. n |-> IF i = 0 THEN S!NoSize ELSE Chosen(s, Modes[i], f[i - 1])]

\* The course over any number of modes exists.
LEMMA CourseExists ==
    ASSUME NEW s, NEW n \in Nat
    PROVE  \E f : Course(f, s, n)
<1> DEFINE Bad == {k \in Nat : ~ \E f : Course(f, s, k)}
<1>1. SUFFICES ASSUME Bad # {} PROVE FALSE
  OBVIOUS
<1>2. PICK k \in Bad : \A m \in Bad : k <= m
  <2>1. Bad \in SUBSET Nat
    OBVIOUS
  <2> HIDE DEF Bad
  <2> QED  BY <1>1, <2>1, Smallest
<1>3. k \in Nat /\ ~ \E f : Course(f, s, k)
  BY <1>2
<1>4. CASE k = 0
  <2> DEFINE g == [i \in 0 .. 0 |-> S!NoSize]
  <2>1. g = [i \in 0 .. 0 |-> IF i = 0 THEN S!NoSize ELSE Chosen(s, Modes[i], g[i - 1])]
    OBVIOUS
  <2>2. Course(g, s, k)
    BY <1>4, <2>1 DEF Course
  <2> QED  BY <1>3, <2>2
<1>5. CASE k # 0
  <2>1. k - 1 \in Nat /\ k - 1 \notin Bad
    BY <1>2, <1>3, <1>5
  <2>2. PICK f : Course(f, s, k - 1)
    BY <2>1
  <2> DEFINE g == [i \in 0 .. k |-> IF i = k THEN Chosen(s, Modes[k], f[k - 1]) ELSE f[i]]
             h == [i \in 0 .. k |-> IF i = 0 THEN S!NoSize ELSE Chosen(s, Modes[i], g[i - 1])]
  <2>3. ASSUME NEW i \in 0 .. k PROVE g[i] = h[i]
    <3>1. CASE i = 0
      BY <1>3, <1>5, <2>2, <3>1 DEF Course
    <3>2. CASE i # 0 /\ i # k
      <4>1. i \in 0 .. k - 1 /\ i - 1 \in 0 .. k - 1 /\ i - 1 # k /\ i - 1 \in 0 .. k
        BY <1>3, <3>2
      <4>2. f[i] = Chosen(s, Modes[i], f[i - 1])
        BY <2>2, <3>2, <4>1 DEF Course
      <4> QED  BY <3>2, <4>1, <4>2
    <3>3. CASE i = k
      <4>1. k - 1 # k /\ k - 1 \in 0 .. k
        BY <1>3, <1>5
      <4> QED  BY <1>5, <3>3, <4>1
    <3> QED  BY <3>1, <3>2, <3>3
  <2>4. g = h
    BY <2>3
  <2>5. Course(g, s, k)
    BY <2>4 DEF Course
  <2> QED  BY <1>3, <2>5
<1> QED  BY <1>4, <1>5

\* A mode has an area.
LEMMA AreaOf ==
    ASSUME NEW m \in S!Size
    PROVE  S!Area(m) \in Nat \ {0}
<1>1. m[1] \in Nat \ {0} /\ m[2] \in Nat \ {0}
  BY DEF S!Size
<1>2. \A a, b \in Nat \ {0} : a * b \in Nat \ {0}
  OBVIOUS
<1> QED  BY <1>1, <1>2 DEF S!Area

\* The loop ends with a mode that fits and is the largest, or with none.
LEMMA Largest ==
    ASSUME NEW s
    PROVE  LET fitting == {m \in S!Range(Modes) : S!FitsIn(m, s)}
               best == S!LargestFit(s)
           IN  IF fitting = {} THEN best = S!NoSize
               ELSE /\ best \in fitting /\ best # S!NoSize
                    /\ \A m \in fitting : S!Area(m) <= S!Area(best)
<1> DEFINE len == Len(Modes)
           f == CHOOSE g : Course(g, s, len)
<1>1. len \in Nat /\ DOMAIN Modes = 1 .. len /\ \A i \in 1 .. len : Modes[i] \in S!Size
  BY PicturesAssumption DEF S!ScreenAssumption
<1>2. Course(f, s, len)
  BY <1>1, CourseExists
<1>3. S!LargestFit(s) = f[len]
  BY DEF S!LargestFit, Course, Chosen
<1> HIDE DEF f
<1>4. f[0] = S!NoSize /\ \A i \in 1 .. len : f[i] = Chosen(s, Modes[i], f[i - 1])
  BY <1>1, <1>2 DEF Course
<1> DEFINE Fit(n) == {Modes[i] : i \in {j \in 1 .. n : S!FitsIn(Modes[j], s)}}
           Right(n) == /\ f[n] \in Fit(n) \cup {S!NoSize}
                       /\ \A m \in Fit(n) : S!Area(m) <= S!Area(f[n])
           Wrong == {n \in 0 .. len : ~Right(n)}
<1>5. Wrong = {}
  <2>1. SUFFICES ASSUME Wrong # {} PROVE FALSE
    OBVIOUS
  <2>2. PICK n \in Wrong : \A m \in Wrong : n <= m
    <3>1. Wrong \in SUBSET Nat
      BY <1>1
    <3> HIDE DEF Wrong
    <3> QED  BY <2>1, <3>1, Smallest
  <2>3. n \in 0 .. len /\ ~Right(n)
    BY <2>2
  <2>4. n # 0
    <3>1. Fit(0) = {}
      OBVIOUS
    <3> QED  BY <1>4, <2>3, <3>1
  <2>5. n - 1 \in 0 .. len /\ n \in 1 .. len /\ ~(n <= n - 1)
    BY <1>1, <2>3, <2>4
  <2>6. Right(n - 1)
    BY <2>2, <2>5
  <2>7. f[n] = Chosen(s, Modes[n], f[n - 1]) /\ Modes[n] \in S!Size
    BY <1>1, <1>4, <2>5
  <2>8. Fit(n) = Fit(n - 1) \cup (IF S!FitsIn(Modes[n], s) THEN {Modes[n]} ELSE {})
    <3>1. \A j : j \in 1 .. n <=> j \in 1 .. n - 1 \/ j = n
      BY <2>5
    <3> QED  BY <3>1
  <2>9. Fit(n - 1) \subseteq S!Size
    <3>1. \A j \in 1 .. n - 1 : j \in 1 .. len
      BY <1>1, <2>5
    <3> QED  BY <1>1, <3>1
  <2>10. /\ \A m \in Fit(n - 1) \cup {Modes[n], S!NoSize} : S!Area(m) \in Int
    <3>1. S!Area(S!NoSize) \in Int
      BY DEF S!Area, S!NoSize
    <3> QED  BY <2>7, <2>9, <3>1, AreaOf
  <2>11. S!Area(Modes[n]) \in Int /\ S!Area(f[n - 1]) \in Int
    BY <2>6, <2>10
  <2> HIDE DEF Fit
  <2>12. Right(n)
    <3>1. CASE S!FitsIn(Modes[n], s) /\ S!Area(Modes[n]) > S!Area(f[n - 1])
      <4>1. f[n] = Modes[n]
        BY <2>7, <3>1 DEF Chosen
      <4>2. ASSUME NEW m \in Fit(n - 1) PROVE S!Area(m) <= S!Area(Modes[n])
        BY <2>6, <2>10, <2>11, <3>1
      <4> QED  BY <2>8, <2>11, <3>1, <4>1, <4>2
    <3>2. CASE ~(S!FitsIn(Modes[n], s) /\ S!Area(Modes[n]) > S!Area(f[n - 1]))
      <4>1. f[n] = f[n - 1]
        BY <2>7, <3>2 DEF Chosen
      <4>2. S!FitsIn(Modes[n], s) => S!Area(Modes[n]) <= S!Area(f[n - 1])
        BY <2>11, <3>2
      <4> QED  BY <2>6, <2>8, <4>1, <4>2
    <3> QED  BY <3>1, <3>2
  <2> QED  BY <2>3, <2>12
<1>6. Right(len)
  BY <1>1, <1>5
<1>7. Fit(len) = {m \in S!Range(Modes) : S!FitsIn(m, s)}
  BY <1>1 DEF S!Range
<1>8. \A m \in Fit(len) : S!Area(m) \in Nat \ {0}
  <2>1. Fit(len) \subseteq S!Size
    BY <1>1
  <2> QED  BY <2>1, AreaOf
<1>9. S!Area(S!NoSize) = 0
  BY DEF S!Area, S!NoSize
<1> HIDE DEF Fit
<1>10. Fit(len) # {} => f[len] \in Fit(len) /\ f[len] # S!NoSize
  <2>1. SUFFICES ASSUME NEW m \in Fit(len), f[len] = S!NoSize PROVE FALSE
    BY <1>6, <1>8, <1>9
  <2>2. S!Area(m) <= 0 /\ S!Area(m) \in Nat \ {0}
    BY <1>6, <1>8, <1>9, <2>1
  <2> QED  BY <2>2
<1> QED  BY <1>3, <1>6, <1>7, <1>10

\* The mode was chosen for the last size, if nobody else touched the screen.
Fitted == calm => extent = S!ModeFor(last)

LEMMA FittedStep ==
    ASSUME Fitted, [MCNext]_<<part, vars, tileVars, sizes>>
    PROVE  Fitted'
<1>1. CASE UNCHANGED <<extent, last, calm>>
  BY <1>1 DEF Fitted, S!ModeFor, S!LargestFit
<1>2. CASE S!XrandrResize
  <2>1. last' = S!Clamped(wanted)
        /\ (calm' => /\ known = extent
                     /\ extent' = IF S!ModeFor(S!Clamped(wanted)) # known
                                  THEN S!ModeFor(S!Clamped(wanted)) ELSE extent)
    BY <1>2 DEF S!XrandrResize
  <2>2. calm' => extent' = S!ModeFor(S!Clamped(wanted))
    BY <2>1
  <2> QED  BY <2>1, <2>2 DEF Fitted
<1>3. CASE \E s \in S!Sizes : S!OtherResize(s)
  BY <1>3 DEF S!OtherResize, Fitted
<1>4. \/ UNCHANGED <<extent, last, calm>> \/ S!XrandrResize
      \/ \E s \in S!Sizes : S!OtherResize(s)
  BY DEF MCNext, CoderNext, SharpNext, ScreenNext, sizes, S!Next, S!XrandrEvent, S!Draw,
         S!Grab, S!SendImage, S!Receive, S!WindowResize, S!ConfigureNotify, S!AskAgain,
         S!ReadHeader, S!ReadPixels, S!ImageResize, S!server
<1> QED  BY <1>1, <1>2, <1>3, <1>4

(***************************************************************************)
(* When the last size taken has been acted on and nobody else touched the  *)
(* screen, its mode is the largest that fits, or the size itself: for any  *)
(* outputs with any modes, the sizes being asked for in any order.         *)
(***************************************************************************)
THEOREM GrantedCorrect == MCSpec => []Granted
<1>1. MCInit => Fitted
  <2>1. MCInit => calm = FALSE
    BY DEF MCInit, NoPicture, S!Init
  <2> QED  BY <2>1 DEF Fitted
<1>2. Fitted => Granted
  <2>1. SUFFICES ASSUME Fitted, calm, ~S!Asked, wanted # S!NoSize
                 PROVE  LET s == S!Clamped(wanted)
                            fitting == {m \in S!Range(Modes) : S!FitsIn(m, s)}
                        IN  IF fitting = {} THEN extent = s
                            ELSE /\ extent \in fitting
                                 /\ \A m \in fitting : S!Area(m) <= S!Area(extent)
    BY DEF Granted, S!Granted
  <2>2. PICK s : s = S!Clamped(wanted)
    OBVIOUS
  <2>3. extent = IF S!LargestFit(s) = S!NoSize THEN s ELSE S!LargestFit(s)
    BY <2>1, <2>2 DEF Fitted, S!Asked, S!ModeFor
  <2> QED  BY <2>2, <2>3, Largest
<1>3. Fitted /\ [MCNext]_<<part, vars, tileVars, sizes>> => Fitted'
  BY FittedStep
<1> QED  BY <1>1, <1>2, <1>3, PTL DEF MCSpec
=============================================================================
