-------------------------------- MODULE Deck --------------------------------
(***************************************************************************)
(* The insights summary as slides (components/InsightsPresentation.tsx):   *)
(* an intro once a session, slides moved by keys, buttons, swipes or the   *)
(* autoplay timer, and a story that may be replaced underneath it when the *)
(* page renders again.                                                     *)
(***************************************************************************)
EXTENDS Integers

CONSTANTS
  MostSlides,     \* bound: slides of a story
  NoSlide

VARIABLES
  count,          \* story.slides.length
  deck,           \* "shut", or the phase of the open stage: intro, leaving, deck
  introPlayed,    \* sessionStorage rz-insights-intro
  index,          \* view.index
  from,           \* view.from: the slide on its way out, or NoSlide
  playing,        \* autoplay
  full            \* document.fullscreenElement is set

deckVars == <<count, deck, introPlayed, index, from, playing, full>>

ASSUME DeckAssumption == MostSlides \in Nat \ {0} /\ NoSlide \notin 0 .. MostSlides

Counts == 1 .. MostSlides

(* Nothing plays behind the intro or in a shut deck, and the slide that leaves is never
   the one that arrives. *)
DeckTypeOK ==
  /\ count \in Counts
  /\ deck \in {"shut", "intro", "leaving", "deck"}
  /\ index \in 0 .. MostSlides - 1
  /\ from \in (0 .. MostSlides - 1) \cup {NoSlide} /\ from # index
  /\ {introPlayed, playing, full} \subseteq BOOLEAN
  /\ playing => deck \in {"leaving", "deck"}
  /\ full => deck # "shut"

DeckInit ==
  /\ count \in Counts
  /\ deck = "shut" /\ introPlayed = FALSE
  /\ index = 0 /\ from = NoSlide /\ playing = FALSE /\ full = FALSE

Least(a, b) == IF a < b THEN a ELSE b
Most(a, b) == IF a > b THEN a ELSE b

(* A story that lost slides while it is shown is shown at its last one. *)
Current == Least(index, count - 1)
OnLast == Current = count - 1
Shown == deck \in {"leaving", "deck"}

(* Both slides while one leaves and the next arrives. *)
Layers == {Current} \cup (IF from # NoSlide /\ from < count THEN {from} ELSE {})

(* moveTo: counted from the index, which may lie beyond a story that shrank. *)
MoveTo(pick) ==
  LET target == Least(count - 1, Most(0, pick)) IN
  /\ index' = target
  /\ from' = IF target = index THEN from ELSE index

StaysPut == UNCHANGED <<index, from>>

(* No intro under reduced motion; a session that cannot remember it plays it again. *)
PlaysIntro == IF introPlayed THEN {FALSE} ELSE BOOLEAN
MarkIntroPlayed == introPlayed' \in {TRUE, introPlayed}

(* The stage is made anew at each opening. *)
OpenDeck ==
  /\ deck = "shut"
  /\ \/ TRUE \in PlaysIntro /\ deck' = "intro" /\ MarkIntroPlayed
     \/ FALSE \in PlaysIntro /\ deck' = "deck" /\ UNCHANGED introPlayed
  /\ index' = 0 /\ from' = NoSlide /\ playing' = FALSE
  /\ UNCHANGED <<count, full>>

CloseDeck ==
  /\ deck # "shut"
  /\ deck' = "shut" /\ full' = FALSE /\ playing' = FALSE
  /\ from' = NoSlide /\ index' = 0
  /\ UNCHANGED <<count, introPlayed>>

(* A key or a tap skips the intro, its timer ends it; then it fades. *)
IntroGoes ==
  /\ deck \in {"intro", "leaving"}
  /\ deck' = IF deck = "intro" THEN "leaving" ELSE "deck"
  /\ UNCHANGED <<count, introPlayed, index, from, playing, full>>

(* The exit of the leaving slide has played. *)
DropLeaving ==
  /\ from # NoSlide
  /\ from' = NoSlide
  /\ UNCHANGED <<count, deck, introPlayed, index, playing, full>>

(* Arrow, page and space keys, a swipe, the Back and Next buttons: one slide; Home, End
   and the dots: any. *)
Move(pick) ==
  /\ Shown
  /\ MoveTo(pick)
  /\ UNCHANGED <<count, deck, introPlayed, playing, full>>

KeyDown == \E pick \in {index - 1, index + 1, 0, count - 1} : Move(pick)
Dot(i) == i \in 0 .. count - 1 /\ Move(i)
BackButton == Current # 0 /\ Move(index - 1)

(* The last slide's Next is Done. *)
NextButton == Shown /\ IF OnLast THEN CloseDeck ELSE Move(index + 1)

(* Pressed on the last slide, it plays from the first. *)
TogglePlay ==
  /\ Shown
  /\ playing' = ~playing
  /\ IF ~playing /\ OnLast THEN MoveTo(0) ELSE StaysPut
  /\ UNCHANGED <<count, deck, introPlayed, full>>

(* readingTime is over for the slide shown. *)
TimerEnds ==
  /\ playing
  /\ IF OnLast THEN playing' = FALSE /\ StaysPut ELSE MoveTo(index + 1) /\ UNCHANGED playing
  /\ UNCHANGED <<count, deck, introPlayed, full>>

PageHidden ==
  /\ playing
  /\ playing' = FALSE
  /\ UNCHANGED <<count, deck, introPlayed, index, from, full>>

(* The key, the button, or the browser's own Esc. *)
ToggleFullscreen ==
  /\ Shown \/ full
  /\ full' = ~full
  /\ UNCHANGED <<count, deck, introPlayed, index, from, playing>>

(* The page behind renders another story: its date or period changed. *)
NewStory(n) ==
  /\ n # count
  /\ count' = n
  /\ UNCHANGED <<deck, introPlayed, index, from, playing, full>>

DeckNext ==
  \/ OpenDeck \/ CloseDeck \/ IntroGoes \/ DropLeaving
  \/ KeyDown \/ (\E i \in 0 .. MostSlides - 1 : Dot(i)) \/ BackButton \/ NextButton
  \/ TogglePlay \/ TimerEnds \/ PageHidden \/ ToggleFullscreen
  \/ \E n \in Counts : NewStory(n)

DeckSpec == DeckInit /\ [][DeckNext]_deckVars
=============================================================================
