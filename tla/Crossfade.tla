------------------------------ MODULE Crossfade ------------------------------
(***************************************************************************)
(* The DMX page of the main window: two scenes of levels, a page of faders *)
(* on them, the crossfader that mixes them, and timed crossfades.          *)
(*                                                                         *)
(* Every action is a slot of MainWindow, run whole on the GUI thread.  A   *)
(* fade is a zero-interval timer that moves the crossfader by the time     *)
(* elapsed; all fades share m_fadeTimer, m_fadeCounter, m_fadeLength and   *)
(* fadeAtoB.  The levels go to the device with setDmxLevels (DmxOutput has *)
(* the device's side, and the script that writes levels too).              *)
(***************************************************************************)
EXTENDS Naturals

CONSTANTS
  Slots,     \* DMX slots (512 in the code)
  Faders,    \* faders on a page (FADER_COUNT)
  MaxLevel,  \* levels and the crossfader are 0..MaxLevel (255 in the code)
  Lengths,   \* lengths a fade may have (FADE_TIMES)
  MaxFades   \* bound on the fades started

ASSUME ConstantsAssumption ==
  /\ Slots \in Nat
  /\ Faders \in 1..Slots
  /\ MaxLevel \in Nat \ {0}
  /\ Lengths \subseteq Nat \ {0}
  /\ MaxFades \in Nat

VARIABLES
  scene,        \* m_scene1Levels and m_scene2Levels
  tx,           \* MainWindow::m_txLevels
  device,       \* the levels last given to the device
  \* the widgets
  start,        \* sbDmxStart: the slot of the page's first fader
  sliders,      \* the page's faders, for both scenes
  bars,         \* the output indicators
  pos,          \* slCrossfade
  fadeEnabled,  \* is btnCrossfade enabled
  \* the fade
  fadeTimer,    \* does m_fadeTimer point to a timer
  orphans,      \* running fade timers no pointer refers to any more
  elapsed,      \* m_fadeCounter, not counted beyond m_fadeLength
  fadeLength,   \* m_fadeLength
  fadeAtoB,     \* fadeAtoB
  crashed,      \* has fadeTick used a null m_fadeTimer
  \* bound and history
  sent,         \* has updateTxLevels run
  fades,        \* fades started
  overlapped    \* has a fade been started while another was running

levelVars == <<scene, tx, device, sent>>
pageVars  == <<start, sliders, bars>>
fadeVars  == <<fadeTimer, orphans, elapsed, fadeLength, fadeAtoB, crashed, fades,
               overlapped>>
vars == <<levelVars, pageVars, pos, fadeEnabled, fadeVars>>

-----------------------------------------------------------------------------
Slot   == 1..Slots
Fader  == 1..Faders
Scenes == {1, 2}
Level  == 0..MaxLevel
Starts == 1..(Slots - Faders + 1)

\* The part of an array of levels that the page from slot s on shows.
Page(levels, s) == [f \in Fader |-> levels[s + f - 1]]

Dark == [s \in Slot |-> 0]

\* m_txLevels is not initialised: it holds anything.
Init ==
  /\ scene = [k \in Scenes |-> Dark]
  /\ tx \in [Slot -> Level]
  /\ device = Dark
  /\ sent = FALSE
  /\ start = 1
  /\ sliders = [k \in Scenes |-> Page(Dark, 1)]
  /\ bars = Page(Dark, 1)
  /\ pos = MaxLevel
  /\ fadeEnabled = TRUE
  /\ fadeTimer = FALSE
  /\ orphans = 0
  /\ elapsed = 0
  /\ fadeLength = 0
  /\ fadeAtoB = FALSE
  /\ crashed = FALSE
  /\ fades = 0
  /\ overlapped = FALSE

-----------------------------------------------------------------------------
(* Mixing.                                                                 *)

\* Fault: the share of scene 2 counts from 256.
MixFrom256(a, b, x) ==
  ((a * x) \div MaxLevel + (b * (MaxLevel + 1 - x)) \div MaxLevel) % (MaxLevel + 1)

\* The level of one slot: each share is rounded down, and the sum is a byte.
Mix(a, b, x) ==
  ((a * x) \div MaxLevel + (b * (MaxLevel - x)) \div MaxLevel) % (MaxLevel + 1)

\* Fault: the loop stops before the last slot.
UpdateTxLevelsShort ==
  /\ tx' = [s \in 1..(Slots - 1) |-> Mix(scene'[1][s], scene'[2][s], pos')]
  /\ bars' = Page(tx', start)
  /\ device' = tx'
  /\ sent' = TRUE

\* updateTxLevels, from the scenes and the crossfader after the step.
UpdateTxLevels ==
  /\ tx' = [s \in Slot |-> Mix(scene'[1][s], scene'[2][s], pos')]
  /\ bars' = Page(tx', start)
  /\ device' = tx'
  /\ sent' = TRUE

\* slCrossfade->setValue(v): crossFaderMoved runs only if the value changes.
SetCrossfader(v) ==
  /\ pos' = v
  /\ UNCHANGED <<scene, start, sliders>>
  /\ IF v = pos
     THEN UNCHANGED <<tx, device, sent, bars, fadeEnabled>>
     ELSE fadeEnabled' = (v \in {0, MaxLevel}) /\ UpdateTxLevels

-----------------------------------------------------------------------------
(* The user.                                                               *)

\* faderMoved: the fader's value goes to the slot it stands for.
FaderMoved(k, f, v) ==
  /\ ~crashed
  /\ v # sliders[k][f]
  /\ sliders' = [sliders EXCEPT ![k][f] = v]
  /\ scene' = [scene EXCEPT ![k][start + f - 1] = v]
  /\ UNCHANGED <<start, pos, fadeEnabled, fadeVars>>
  /\ UpdateTxLevels

MoveCrossfader(v) ==
  /\ ~crashed
  /\ SetCrossfader(v)
  /\ UNCHANGED fadeVars

\* Fault: only the faders of scene 1 are moved.
SetStartOneScene(s) ==
  /\ s # start
  /\ start' = s
  /\ sliders' = [sliders EXCEPT ![1] = Page(scene[1], s)]
  /\ bars' = Page(tx, s)
  /\ UNCHANGED <<levelVars, pos, fadeEnabled, fadeVars>>

\* on_sbDmxStart_valueChanged: the faders move to the levels of the new page
\* with their signals blocked; the outputs show m_txLevels, set or not.
SetStart(s) ==
  /\ s # start
  /\ start' = s
  /\ sliders' = [k \in Scenes |-> Page(scene[k], s)]
  /\ bars' = Page(tx, s)
  /\ UNCHANGED <<levelVars, pos, fadeEnabled, fadeVars>>

TypeStart ==
  /\ ~crashed
  /\ \E s \in Starts : SetStart(s)

PrevPage ==
  /\ ~crashed
  /\ start > Faders
  /\ SetStart(start - Faders)

\* The page that would end at the last slot is refused.
NextPage ==
  /\ ~crashed
  /\ start + Faders + Faders <= Slots
  /\ SetStart(start + Faders)

\* startFade, from the menu of btnCrossfade: a new timer takes the place of
\* one that may still be running.
StartFade(length) ==
  /\ ~crashed
  /\ fadeEnabled
  /\ fades < MaxFades
  /\ fades' = fades + 1
  /\ orphans' = IF fadeTimer THEN orphans + 1 ELSE orphans
  /\ fadeTimer' = TRUE
  /\ elapsed' = 0
  /\ fadeLength' = length
  /\ fadeAtoB' = (pos = MaxLevel)
  /\ overlapped' = (overlapped \/ fadeTimer)
  /\ UNCHANGED <<levelVars, pageVars, pos, fadeEnabled, crashed>>

-----------------------------------------------------------------------------
(* The fade.                                                               *)

FadeRuns == fadeTimer \/ orphans > 0

TimePasses ==
  /\ ~crashed
  /\ FadeRuns
  /\ elapsed < fadeLength
  /\ elapsed' = elapsed + 1
  /\ UNCHANGED <<levelVars, pageVars, pos, fadeEnabled, fadeTimer, orphans,
                 fadeLength, fadeAtoB, crashed, fades, overlapped>>

HandlePos == (MaxLevel * elapsed) \div fadeLength

\* Fault: the pointer is cleared but the timer goes on.
StopFadeKeepsTimer ==
  IF fadeTimer
  THEN fadeTimer' = FALSE /\ orphans' = orphans + 1 /\ UNCHANGED crashed
  ELSE crashed' = TRUE /\ UNCHANGED <<fadeTimer, orphans>>

\* The fade is over: stop is called through m_fadeTimer, null or not.
StopFade ==
  IF fadeTimer
  THEN fadeTimer' = FALSE /\ UNCHANGED <<orphans, crashed>>
  ELSE crashed' = TRUE /\ UNCHANGED <<fadeTimer, orphans>>

\* Fault: the fade stops one step before the end.
FadeTickEarly ==
  /\ ~crashed
  /\ FadeRuns
  /\ SetCrossfader(IF fadeAtoB THEN MaxLevel - HandlePos ELSE HandlePos)
  /\ IF HandlePos >= MaxLevel - 1
     THEN StopFade
     ELSE UNCHANGED <<fadeTimer, orphans, crashed>>
  /\ UNCHANGED <<elapsed, fadeLength, fadeAtoB, fades, overlapped>>

\* Any running timer calls fadeTick.
FadeTick ==
  /\ ~crashed
  /\ FadeRuns
  /\ SetCrossfader(IF fadeAtoB THEN MaxLevel - HandlePos ELSE HandlePos)
  /\ IF HandlePos >= MaxLevel
     THEN StopFade
     ELSE UNCHANGED <<fadeTimer, orphans, crashed>>
  /\ UNCHANGED <<elapsed, fadeLength, fadeAtoB, fades, overlapped>>

-----------------------------------------------------------------------------
MoveFader == \E k \in Scenes, f \in Fader, v \in Level : FaderMoved(k, f, v)

User ==
  \/ MoveFader
  \/ \E v \in Level : MoveCrossfader(v)
  \/ TypeStart \/ PrevPage \/ NextPage
  \/ \E length \in Lengths : StartFade(length)

Next == User \/ TimePasses \/ FadeTick

Spec == Init /\ [][Next]_vars

\* Time passes and a zero-interval timer fires again and again.
FairSpec == Spec /\ WF_vars(TimePasses) /\ WF_vars(FadeTick)

-----------------------------------------------------------------------------
(* Properties.                                                             *)

TypeOK ==
  /\ scene \in [Scenes -> [Slot -> Level]]
  /\ tx \in [Slot -> Level]
  /\ device \in [Slot -> Level]
  /\ sent \in BOOLEAN
  /\ start \in Starts
  /\ sliders \in [Scenes -> [Fader -> Level]]
  /\ bars \in [Fader -> Level]
  /\ pos \in Level
  /\ fadeEnabled \in BOOLEAN
  /\ fadeTimer \in BOOLEAN
  /\ orphans \in Nat
  /\ elapsed \in 0..fadeLength
  /\ fadeLength \in Nat
  /\ fadeAtoB \in BOOLEAN
  /\ crashed \in BOOLEAN
  /\ fades \in 0..MaxFades
  /\ overlapped \in BOOLEAN

\* MaxLevel times the level the crossfader stands for on slot s.
ExactMix(s) == scene[1][s] * pos + scene[2][s] * (MaxLevel - pos)

\* The device's levels lie within the rounding of two divisions below the
\* exact mix of the scenes as they are now: the sum of the two shares never
\* wraps its byte, and nothing that moves a fader, the page or the crossfader
\* leaves them behind (updateTxLevels).
LevelsAreTheMix ==
  \A s \in Slot : /\ MaxLevel * device[s] <= ExactMix(s)
                 /\ ExactMix(s) < MaxLevel * (device[s] + 2)

\* The faders on the page stand at the levels of their slots in both scenes,
\* so that touching one never makes its slot jump, and once levels have been
\* sent the indicators show them (faderMoved, on_sbDmxStart_valueChanged,
\* updateTxLevels).
PageShowsSlots ==
  /\ \A k \in Scenes : sliders[k] = Page(scene[k], start)
  /\ sent => bars = Page(device, start)

\* A fade that runs alone never uses the timer it has deleted: fadeTick fails
\* only after a fade was started while another ran, which the button allows
\* until the first tick has moved the crossfader, and whenever the user drags
\* it to an end (startFade, fadeTick, crossFaderMoved).
OnlyOverlappingFadesCrash == crashed \/ orphans > 0 => overlapped

\* Every fade ends, with the crossfader at an end and the button enabled for
\* the next fade, unless overlapping fades have crashed the program.
FadesEnd == fadeTimer ~> crashed \/ (~fadeTimer /\ pos \in {0, MaxLevel} /\ fadeEnabled)
=============================================================================
