--------------------------- MODULE CrossfadeProofs ---------------------------
(***************************************************************************)
(* Safety of the DMX page, for every number of slots and of faders on a    *)
(* page, every range of levels and every set of fade lengths.              *)
(***************************************************************************)
EXTENDS Crossfade, TLAPS

-----------------------------------------------------------------------------
(* Arithmetic of the mix.                                                  *)

\* What a division rounds away is less than the divisor.
LEMMA Rounding ==
  ASSUME NEW n \in Nat, NEW d \in Nat \ {0}
  PROVE  /\ n \div d \in Nat
         /\ d * (n \div d) <= n
         /\ n < d * (n \div d) + d
  OBVIOUS

\* A product of two levels grows with each of them.
LEMMA ProductBound ==
  ASSUME NEW a \in Nat, NEW m \in Nat, NEW x \in Nat, a <= m
  PROVE  a * x \in Nat /\ a * x <= m * x
  OBVIOUS

\* A multiple that is no larger comes from a factor that is no larger.
LEMMA FactorBound ==
  ASSUME NEW n \in Nat, NEW k \in Nat, NEW d \in Nat \ {0}, d * n <= d * k
  PROVE  n <= k
<1>1. SUFFICES ASSUME n > k PROVE FALSE
  OBVIOUS
<1>2. n >= k + 1
  BY <1>1
<1>3. d * n >= d * (k + 1)
  BY <1>2
<1>4. d * (k + 1) = d * k + d
  OBVIOUS
<1>5. QED
  BY <1>3, <1>4

\* Two levels mixed give a level, at most two roundings below the exact mix:
\* the sum of the shares never wraps its byte (updateTxLevels).
LEMMA MixCorrect ==
  ASSUME MaxLevel \in Nat \ {0},
         NEW a \in Level, NEW b \in Level, NEW x \in Level
  PROVE  /\ Mix(a, b, x) \in Level
         /\ MaxLevel * Mix(a, b, x) <= a * x + b * (MaxLevel - x)
         /\ a * x + b * (MaxLevel - x) < MaxLevel * (Mix(a, b, x) + 2)
<1> DEFINE y == MaxLevel - x
           p == (a * x) \div MaxLevel
           q == (b * y) \div MaxLevel
<1>1. /\ a \in Nat /\ b \in Nat /\ x \in Nat /\ y \in Nat
      /\ a <= MaxLevel /\ b <= MaxLevel /\ x + y = MaxLevel
  BY DEF Level
<1>2. a * x \in Nat /\ a * x <= MaxLevel * x
  BY <1>1, ProductBound
<1>3. b * y \in Nat /\ b * y <= MaxLevel * y
  BY <1>1, ProductBound
<1>4. p \in Nat /\ MaxLevel * p <= a * x /\ a * x < MaxLevel * p + MaxLevel
  BY <1>2, Rounding
<1>5. q \in Nat /\ MaxLevel * q <= b * y /\ b * y < MaxLevel * q + MaxLevel
  BY <1>3, Rounding
<1> HIDE DEF y, p, q
<1>6. MaxLevel * (p + q) = MaxLevel * p + MaxLevel * q
  BY <1>4, <1>5
<1>7. MaxLevel * (p + q + 2) = MaxLevel * p + MaxLevel * q + MaxLevel + MaxLevel
  BY <1>4, <1>5
<1>8. p + q <= MaxLevel
  <2>1. MaxLevel * x + MaxLevel * y = MaxLevel * MaxLevel
    BY <1>1
  <2>2. MaxLevel * p + MaxLevel * q <= MaxLevel * x + MaxLevel * y
    <3> DEFINE P == MaxLevel * p  Q == MaxLevel * q
               X == MaxLevel * x  Y == MaxLevel * y
               A == a * x         B == b * y
    <3>1. /\ P \in Nat /\ Q \in Nat /\ X \in Nat /\ Y \in Nat /\ A \in Nat /\ B \in Nat
          /\ P <= A /\ A <= X /\ Q <= B /\ B <= Y
      BY <1>1, <1>2, <1>3, <1>4, <1>5
    <3> HIDE DEF P, Q, X, Y, A, B
    <3>2. P + Q <= X + Y
      BY <3>1
    <3>3. QED
      BY <3>2 DEF P, Q, X, Y
  <2>3. MaxLevel * (p + q) <= MaxLevel * MaxLevel
    BY <1>6, <2>1, <2>2
  <2>4. p + q \in Nat
    BY <1>4, <1>5
  <2>5. QED
    BY <2>3, <2>4, FactorBound
<1>9. Mix(a, b, x) = p + q
  <2>1. Mix(a, b, x) = (p + q) % (MaxLevel + 1)
    BY DEF Mix, p, q, y
  <2>2. p + q \in 0..MaxLevel
    BY <1>4, <1>5, <1>8
  <2>3. QED
    BY <2>1, <2>2
<1>10. p + q \in Level
  BY <1>4, <1>5, <1>8 DEF Level
<1>11. MaxLevel * (p + q) <= a * x + b * y /\ a * x + b * y < MaxLevel * (p + q + 2)
  <2> DEFINE P == MaxLevel * p  Q == MaxLevel * q  A == a * x  B == b * y
  <2>1. /\ P \in Nat /\ Q \in Nat /\ A \in Nat /\ B \in Nat
        /\ P <= A /\ A < P + MaxLevel /\ Q <= B /\ B < Q + MaxLevel
    BY <1>2, <1>3, <1>4, <1>5
  <2>2. MaxLevel * (p + q) = P + Q /\ MaxLevel * (p + q + 2) = P + Q + MaxLevel + MaxLevel
    BY <1>6, <1>7
  <2> HIDE DEF P, Q, A, B
  <2>3. P + Q <= A + B /\ A + B < P + Q + MaxLevel + MaxLevel
    BY <2>1
  <2>4. QED
    BY <2>2, <2>3 DEF A, B
<1>12. QED
  BY <1>9, <1>10, <1>11 DEF y

\* A running fade never takes the crossfader beyond its ends (fadeTick).
LEMMA HandlePosInRange ==
  ASSUME MaxLevel \in Nat \ {0}, fadeLength \in Nat \ {0}, elapsed \in 0..fadeLength
  PROVE  HandlePos \in Level
<1>1. MaxLevel * elapsed \in Nat /\ MaxLevel * elapsed <= fadeLength * MaxLevel
  <2>1. elapsed * MaxLevel \in Nat /\ elapsed * MaxLevel <= fadeLength * MaxLevel
    BY ProductBound
  <2>2. QED
    BY <2>1
<1>2. HandlePos \in Nat /\ fadeLength * HandlePos <= MaxLevel * elapsed
  BY <1>1, Rounding DEF HandlePos
<1>3. fadeLength * HandlePos <= fadeLength * MaxLevel
  BY <1>1, <1>2
<1>4. HandlePos <= MaxLevel
  BY <1>2, <1>3, FactorBound
<1>5. QED
  BY <1>2, <1>4 DEF Level

-----------------------------------------------------------------------------
(* Type correctness.                                                       *)

\* What TypeOK needs to be inductive: a fade that runs has a length to divide
\* by.
TypeInv == TypeOK /\ (FadeRuns => fadeLength > 0)

\* updateTxLevels gives the device, the indicators and m_txLevels levels.
LEMMA UpdateTypes ==
  ASSUME ConstantsAssumption, UpdateTxLevels, start \in Starts,
         scene' \in [Scenes -> [Slot -> Level]], pos' \in Level
  PROVE  /\ tx' \in [Slot -> Level] /\ device' \in [Slot -> Level]
         /\ bars' \in [Fader -> Level] /\ sent' = TRUE
<1>1. \A s \in Slot : Mix(scene'[1][s], scene'[2][s], pos') \in Level
  <2> TAKE s \in Slot
  <2>1. scene'[1][s] \in Level /\ scene'[2][s] \in Level
    BY DEF Scenes
  <2>2. QED
    BY <2>1, MixCorrect DEF ConstantsAssumption
<1>2. tx' \in [Slot -> Level] /\ device' = tx' /\ sent' = TRUE
  BY <1>1 DEF UpdateTxLevels
<1>3. \A f \in Fader : start + f - 1 \in Slot
  BY DEF ConstantsAssumption, Starts, Fader, Slot
<1>4. bars' \in [Fader -> Level]
  BY <1>2, <1>3 DEF UpdateTxLevels, Page
<1>5. QED
  BY <1>2, <1>4

\* Every variable keeps its type: levels and crossfader stay in range, and the
\* page never runs past the last slot, whatever the faders, pages and fades do.
THEOREM TypeCorrect == Spec => []TypeOK
<1> USE ConstantsAssumption
<1>c. MaxLevel \in Nat \ {0} /\ Faders \in Nat \ {0} /\ Slots \in Nat /\ Faders <= Slots
  BY DEF ConstantsAssumption
<1>l. 0 \in Level /\ MaxLevel \in Level
  BY <1>c DEF Level
<1>g. \A s \in Starts, levels \in [Slot -> Level] : Page(levels, s) \in [Fader -> Level]
  <2> TAKE s \in Starts, levels \in [Slot -> Level]
  <2>1. \A f \in Fader : s + f - 1 \in Slot
    BY <1>c DEF Starts, Fader, Slot
  <2>2. QED
    BY <2>1 DEF Page
<1>1. Init => TypeInv
  <2> SUFFICES ASSUME Init PROVE TypeInv
    OBVIOUS
  <2>1. Dark \in [Slot -> Level] /\ 1 \in Starts
    BY <1>c, <1>l DEF Dark, Starts
  <2>2. Page(Dark, 1) \in [Fader -> Level]
    BY <2>1, <1>g
  <2>3. scene \in [Scenes -> [Slot -> Level]] /\ sliders \in [Scenes -> [Fader -> Level]]
    BY <2>1, <2>2 DEF Init
  <2>4. fades \in 0..MaxFades /\ elapsed \in 0..fadeLength
    BY DEF Init, ConstantsAssumption
  <2>5. QED
    BY <2>1, <2>2, <2>3, <2>4, <1>l DEF Init, TypeInv, TypeOK, FadeRuns
<1>2. TypeInv /\ [Next]_vars => TypeInv'
  <2> SUFFICES ASSUME TypeInv, [Next]_vars PROVE TypeInv'
    OBVIOUS
  <2> USE DEF TypeInv, TypeOK
  <2>s. ASSUME NEW v \in Level, SetCrossfader(v)
        PROVE  /\ scene' \in [Scenes -> [Slot -> Level]]
               /\ tx' \in [Slot -> Level] /\ device' \in [Slot -> Level]
               /\ bars' \in [Fader -> Level] /\ sent' \in BOOLEAN
               /\ pos' \in Level /\ fadeEnabled' \in BOOLEAN
               /\ UNCHANGED <<start, sliders>>
    <3>1. pos' \in Level /\ UNCHANGED <<scene, start, sliders>>
      BY <2>s DEF SetCrossfader
    <3>2. CASE v = pos
      BY <2>s, <3>1, <3>2 DEF SetCrossfader
    <3>3. CASE v # pos
      <4>1. UpdateTxLevels /\ fadeEnabled' \in BOOLEAN
        BY <2>s, <3>3 DEF SetCrossfader
      <4>2. QED
        BY <3>1, <4>1, UpdateTypes
    <3>4. QED
      BY <3>2, <3>3
  <2>p. ASSUME NEW s \in Starts, SetStart(s) PROVE TypeInv'
    <3>1. Page(tx, s) \in [Fader -> Level] /\ \A k \in Scenes : Page(scene[k], s) \in [Fader -> Level]
      BY <1>g
    <3>2. sliders' \in [Scenes -> [Fader -> Level]] /\ bars' \in [Fader -> Level]
      BY <2>p, <3>1 DEF SetStart
    <3>3. QED
      BY <2>p, <3>2 DEF SetStart, levelVars, fadeVars, FadeRuns
  <2>1. ASSUME NEW k \in Scenes, NEW f \in Fader, NEW v \in Level, FaderMoved(k, f, v)
        PROVE  TypeInv'
    <3>1. scene' \in [Scenes -> [Slot -> Level]] /\ sliders' \in [Scenes -> [Fader -> Level]]
      BY <2>1 DEF FaderMoved
    <3>2. UpdateTxLevels /\ UNCHANGED <<start, pos, fadeEnabled, fadeVars>>
      BY <2>1 DEF FaderMoved
    <3>3. QED
      BY <3>1, <3>2, UpdateTypes DEF fadeVars, FadeRuns
  <2>2. ASSUME NEW v \in Level, MoveCrossfader(v) PROVE TypeInv'
    BY <2>2, <2>s DEF MoveCrossfader, fadeVars, FadeRuns
  <2>3. CASE TypeStart
    BY <2>3, <2>p DEF TypeStart
  <2>4. CASE PrevPage
    <3>1. start - Faders \in Starts
      BY <2>4, <1>c DEF PrevPage, Starts
    <3>2. QED
      BY <2>4, <3>1, <2>p DEF PrevPage
  <2>5. CASE NextPage
    <3>1. start + Faders \in Starts
      BY <2>5, <1>c DEF NextPage, Starts
    <3>2. QED
      BY <2>5, <3>1, <2>p DEF NextPage
  <2>6. ASSUME NEW length \in Lengths, StartFade(length) PROVE TypeInv'
    <3>1. fadeLength' \in Nat \ {0} /\ elapsed' = 0
      BY <2>6 DEF StartFade, ConstantsAssumption
    <3>2. orphans' \in Nat
      BY <2>6 DEF StartFade
    <3>3. fades' \in 0..MaxFades
      BY <2>6 DEF StartFade, ConstantsAssumption
    <3>4. overlapped' \in BOOLEAN /\ fadeTimer' = TRUE /\ fadeAtoB' \in BOOLEAN
      BY <2>6 DEF StartFade
    <3>5. UNCHANGED <<levelVars, pageVars, pos, fadeEnabled, crashed>>
      BY <2>6 DEF StartFade
    <3>6. QED
      BY <3>1, <3>2, <3>3, <3>4, <3>5 DEF levelVars, pageVars
  <2>7. CASE TimePasses
    <3>1. elapsed' \in 0..fadeLength'
      BY <2>7 DEF TimePasses
    <3>2. QED
      BY <2>7, <3>1 DEF TimePasses, levelVars, pageVars, FadeRuns
  <2>8. CASE FadeTick
    <3>1. HandlePos \in Level
      BY <2>8, <1>c, HandlePosInRange DEF FadeTick
    <3>2. MaxLevel - HandlePos \in Level
      BY <3>1, <1>c DEF Level
    <3>3. PICK v \in Level : SetCrossfader(v)
      BY <2>8, <3>1, <3>2 DEF FadeTick
    <3>4. fadeTimer' \in BOOLEAN /\ crashed' \in BOOLEAN /\ UNCHANGED orphans
      BY <2>8 DEF FadeTick, StopFade
    <3>5. QED
      BY <2>8, <3>3, <3>4, <2>s DEF FadeTick, FadeRuns
  <2>9. CASE UNCHANGED vars
    BY <2>9 DEF vars, levelVars, pageVars, fadeVars, FadeRuns
  <2>10. QED
    BY <2>1, <2>2, <2>3, <2>4, <2>5, <2>6, <2>7, <2>8, <2>9 DEF Next, User, MoveFader
<1>3. TypeInv => TypeOK
  BY DEF TypeInv
<1>4. QED
  BY <1>1, <1>2, <1>3, PTL DEF Spec
-----------------------------------------------------------------------------
(* Timed crossfades.                                                       *)

\* fadeTick only uses a deleted timer, and a running timer is only lost track
\* of, after a fade was started while another ran.
THEOREM CrashCorrect == Spec => []OnlyOverlappingFadesCrash
<1>1. Init => OnlyOverlappingFadesCrash
  BY DEF Init, OnlyOverlappingFadesCrash
<1>2. TypeOK /\ OnlyOverlappingFadesCrash /\ [Next]_vars => OnlyOverlappingFadesCrash'
  <2> SUFFICES ASSUME TypeOK, OnlyOverlappingFadesCrash, [Next]_vars
               PROVE  OnlyOverlappingFadesCrash'
    OBVIOUS
  <2>t. orphans \in Nat /\ crashed \in BOOLEAN /\ overlapped \in BOOLEAN /\ fadeTimer \in BOOLEAN
    BY DEF TypeOK
  <2> USE DEF OnlyOverlappingFadesCrash
  <2>s. ASSUME UNCHANGED <<crashed, orphans, overlapped>> PROVE OnlyOverlappingFadesCrash'
    BY <2>s
  <2>1. ASSUME NEW k \in Scenes, NEW f \in Fader, NEW v \in Level, FaderMoved(k, f, v)
        PROVE  OnlyOverlappingFadesCrash'
    BY <2>1, <2>s DEF FaderMoved, fadeVars
  <2>2. ASSUME NEW v \in Level, MoveCrossfader(v) PROVE OnlyOverlappingFadesCrash'
    BY <2>2, <2>s DEF MoveCrossfader, fadeVars
  <2>3. CASE TypeStart \/ PrevPage \/ NextPage
    BY <2>3, <2>s DEF TypeStart, PrevPage, NextPage, SetStart, fadeVars
  <2>4. ASSUME NEW length \in Lengths, StartFade(length) PROVE OnlyOverlappingFadesCrash'
    BY <2>4, <2>t DEF StartFade
  <2>5. CASE TimePasses
    BY <2>5, <2>s DEF TimePasses
  <2>6. CASE FadeTick
    <3>1. overlapped' = overlapped /\ ~crashed /\ (fadeTimer \/ orphans > 0)
      BY <2>6 DEF FadeTick, FadeRuns
    <3>2. CASE StopFade
      BY <3>1, <3>2, <2>t DEF StopFade
    <3>3. CASE UNCHANGED <<fadeTimer, orphans, crashed>>
      BY <3>1, <3>3, <2>s
    <3>4. QED
      BY <2>6, <3>2, <3>3 DEF FadeTick
  <2>7. CASE UNCHANGED vars
    BY <2>7, <2>s DEF vars, fadeVars
  <2>8. QED
    BY <2>1, <2>2, <2>3, <2>4, <2>5, <2>6, <2>7 DEF Next, User, MoveFader
<1>3. QED
  BY <1>1, <1>2, TypeCorrect, PTL DEF Spec

-----------------------------------------------------------------------------
(* The levels and the page.                                                *)

\* The device has exactly the mix of the scenes at the crossfader.
DeviceIsMix == device = [s \in Slot |-> Mix(scene[1][s], scene[2][s], pos)]

\* updateTxLevels brings the device up to date.
LEMMA UpdateMixes ==
  ASSUME UpdateTxLevels
  PROVE  DeviceIsMix'
  BY DEF UpdateTxLevels, DeviceIsMix

\* The device's levels follow the faders and the crossfader within the two
\* roundings of a mix, at every moment between two slots of the window.
THEOREM LevelsCorrect == Spec => []LevelsAreTheMix
<1> USE ConstantsAssumption
<1>c. MaxLevel \in Nat \ {0}
  BY DEF ConstantsAssumption
<1>1. Init => DeviceIsMix
  <2> SUFFICES ASSUME Init PROVE DeviceIsMix
    OBVIOUS
  <2>1. 0 * MaxLevel = 0 /\ 0 * (MaxLevel - MaxLevel) = 0 /\ 0 \div MaxLevel = 0
        /\ (0 + 0) % (MaxLevel + 1) = 0
    BY <1>c
  <2>2. Mix(0, 0, MaxLevel) = 0
    BY <2>1 DEF Mix
  <2>3. QED
    BY <2>2 DEF Init, Dark, DeviceIsMix, Scenes
<1>2. DeviceIsMix /\ [Next]_vars => DeviceIsMix'
  <2> SUFFICES ASSUME DeviceIsMix, [Next]_vars PROVE DeviceIsMix'
    OBVIOUS
  <2>s. ASSUME UNCHANGED <<device, scene, pos>> PROVE DeviceIsMix'
    BY <2>s DEF DeviceIsMix
  <2>c. ASSUME NEW v, SetCrossfader(v) PROVE DeviceIsMix'
    <3>1. CASE v = pos
      BY <2>c, <2>s, <3>1 DEF SetCrossfader
    <3>2. CASE v # pos
      BY <2>c, <3>2, UpdateMixes DEF SetCrossfader
    <3>3. QED
      BY <3>1, <3>2
  <2>1. CASE MoveFader
    BY <2>1, UpdateMixes DEF MoveFader, FaderMoved
  <2>2. ASSUME NEW v \in Level, MoveCrossfader(v) PROVE DeviceIsMix'
    BY <2>2, <2>c DEF MoveCrossfader
  <2>3. CASE TypeStart \/ PrevPage \/ NextPage
    BY <2>3, <2>s DEF TypeStart, PrevPage, NextPage, SetStart, levelVars
  <2>4. ASSUME NEW length \in Lengths, StartFade(length) PROVE DeviceIsMix'
    BY <2>4, <2>s DEF StartFade, levelVars
  <2>5. CASE TimePasses
    BY <2>5, <2>s DEF TimePasses, levelVars
  <2>6. CASE FadeTick
    BY <2>6, <2>c DEF FadeTick
  <2>7. CASE UNCHANGED vars
    BY <2>7, <2>s DEF vars, levelVars
  <2>8. QED
    BY <2>1, <2>2, <2>3, <2>4, <2>5, <2>6, <2>7 DEF Next, User
<1>3. TypeOK /\ DeviceIsMix => LevelsAreTheMix
  <2> SUFFICES ASSUME TypeOK, DeviceIsMix, NEW s \in Slot
               PROVE  /\ MaxLevel * device[s] <= ExactMix(s)
                      /\ ExactMix(s) < MaxLevel * (device[s] + 2)
    BY DEF LevelsAreTheMix
  <2>1. scene[1][s] \in Level /\ scene[2][s] \in Level /\ pos \in Level
    BY DEF TypeOK, Scenes
  <2>2. device[s] = Mix(scene[1][s], scene[2][s], pos)
    BY DEF DeviceIsMix
  <2>3. QED
    BY <1>c, <2>1, <2>2, MixCorrect DEF ExactMix
<1>4. QED
  BY <1>1, <1>2, <1>3, TypeCorrect, PTL DEF Spec

\* The strengthening of PageShowsSlots: m_txLevels is what the device has once
\* levels have been sent.
PageInv == PageShowsSlots /\ (sent => tx = device)

\* The page always shows the slots it stands for.
THEOREM PageCorrect == Spec => []PageShowsSlots
<1> USE ConstantsAssumption
<1>1. Init => PageInv
  BY DEF Init, PageInv, PageShowsSlots
<1>2. TypeOK /\ PageInv /\ [Next]_vars => PageInv'
  <2> SUFFICES ASSUME TypeOK, PageInv, [Next]_vars PROVE PageInv'
    OBVIOUS
  <2> USE DEF PageInv, PageShowsSlots
  <2>s. ASSUME UNCHANGED <<levelVars, pageVars>> PROVE PageInv'
    BY <2>s DEF levelVars, pageVars, Page
  <2>u. ASSUME UpdateTxLevels, UNCHANGED start
        PROVE  (sent => tx = device)' /\ (sent => bars = Page(device, start))'
    BY <2>u DEF UpdateTxLevels, Page
  <2>c. ASSUME NEW v, SetCrossfader(v) PROVE PageInv'
    <3>1. UNCHANGED <<scene, start, sliders>>
      BY <2>c DEF SetCrossfader
    <3>2. CASE v = pos
      BY <2>c, <3>1, <3>2, <2>s DEF SetCrossfader, levelVars, pageVars
    <3>3. CASE v # pos
      <4>1. UpdateTxLevels
        BY <2>c, <3>3 DEF SetCrossfader
      <4>2. (\A k \in Scenes : sliders[k] = Page(scene[k], start))'
        BY <3>1 DEF Page
      <4>3. QED
        BY <3>1, <4>1, <4>2, <2>u
    <3>4. QED
      BY <3>2, <3>3
  <2>p. ASSUME NEW x, SetStart(x) PROVE PageInv'
    BY <2>p DEF SetStart, levelVars, Page
  <2>1. ASSUME NEW k \in Scenes, NEW f \in Fader, NEW v \in Level, FaderMoved(k, f, v)
        PROVE  PageInv'
    <3>1. /\ start' = start /\ UpdateTxLevels
          /\ sliders' = [sliders EXCEPT ![k][f] = v]
          /\ scene' = [scene EXCEPT ![k][start + f - 1] = v]
      BY <2>1 DEF FaderMoved
    <3>2. /\ scene \in [Scenes -> [Slot -> Level]] /\ sliders \in [Scenes -> [Fader -> Level]]
          /\ start \in Nat /\ f \in Nat
      BY DEF TypeOK, ConstantsAssumption, Starts, Fader
    <3>3. ASSUME NEW i \in Scenes PROVE sliders'[i] = Page(scene'[i], start')
      <4>1. CASE i # k
        BY <3>1, <3>2, <4>1 DEF Page
      <4>2. CASE i = k
        <5>1. sliders'[i] = [sliders[k] EXCEPT ![f] = v]
          BY <3>1, <3>2, <4>2
        <5>2. scene'[i] = [scene[k] EXCEPT ![start + f - 1] = v]
          BY <3>1, <3>2, <4>2
        <5>3. \A g \in Fader : start + g - 1 \in Slot /\ g \in Nat
          BY DEF TypeOK, ConstantsAssumption, Starts, Fader, Slot
        <5>4. \A g \in Fader : scene'[i][start + g - 1] = IF g = f THEN v ELSE scene[k][start + g - 1]
          <6> TAKE g \in Fader
          <6>1. scene[k] \in [Slot -> Level] /\ start + g - 1 \in Slot
            BY <3>2, <5>3
          <6>2. start + g - 1 = start + f - 1 <=> g = f
            BY <3>2, <5>3
          <6>3. QED
            BY <5>2, <6>1, <6>2
        <5>5. sliders[k] = [g \in Fader |-> scene[k][start + g - 1]]
          BY DEF Page
        <5>6. sliders'[i] = [g \in Fader |-> scene'[i][start + g - 1]]
          BY <5>1, <5>4, <5>5
        <5>7. QED
          BY <3>1, <5>6 DEF Page
      <4>3. QED
        BY <4>1, <4>2
    <3>4. QED
      BY <3>1, <3>3, <2>u
  <2>2. ASSUME NEW v \in Level, MoveCrossfader(v) PROVE PageInv'
    BY <2>2, <2>c DEF MoveCrossfader
  <2>3. CASE TypeStart \/ PrevPage \/ NextPage
    BY <2>3, <2>p DEF TypeStart, PrevPage, NextPage
  <2>4. ASSUME NEW length \in Lengths, StartFade(length) PROVE PageInv'
    BY <2>4, <2>s DEF StartFade
  <2>5. CASE TimePasses
    BY <2>5, <2>s DEF TimePasses
  <2>6. CASE FadeTick
    BY <2>6, <2>c DEF FadeTick
  <2>7. CASE UNCHANGED vars
    BY <2>7, <2>s DEF vars
  <2>8. QED
    BY <2>1, <2>2, <2>3, <2>4, <2>5, <2>6, <2>7 DEF Next, User, MoveFader
<1>3. PageInv => PageShowsSlots
  BY DEF PageInv
<1>4. QED
  BY <1>1, <1>2, <1>3, TypeCorrect, PTL DEF Spec
=============================================================================
