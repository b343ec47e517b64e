--------------------------- MODULE ShopPartsProofs --------------------------
(***************************************************************************)
(* The owner's pages over the books, the start of the PC, its network and  *)
(* the forecast (ShopParts), for any number of days, barbers, requests,    *)
(* runs, updates and networks.  Each invariant speaks of the answers and   *)
(* the files still on their way, since those may be used at any time.      *)
(***************************************************************************)
EXTENDS ShopParts, BooksProofs, FiguresProofs

-----------------------------------------------------------------------------
(* DrawerPage *)

(* The amount in the form is of the day chosen, or there is none. *)
FitsDay == counted \in {day, NoDay}

(* After a change of day the old amount may stand in the form, but then no figures are
   shown and the button is off; only the answer to a save could bring them back. *)
DrawerInv ==
  /\ day \in DrawerDays /\ counted \in DrawerDays \cup {NoDay}
  /\ figures \in DrawerDays \cup {NoDay}
  /\ crossed \in BOOLEAN
  /\ loads \subseteq DayLoad
  /\ saving \in SaveRequest \cup {NoSave}
  /\ \A load \in loads : load.active => load.day = day
  /\ ~crossed /\ saving = NoSave /\ figures # NoDay => FitsDay
  /\ ~crossed /\ saving # NoSave => FitsDay
  /\ CountOnItsDay

(* A load just sent. *)
LEMMA AskedForDay ==
  ASSUME NEW d \in DrawerDays
  PROVE  [day |-> d, active |-> TRUE, had |-> d \in recorded] \in DayLoad
<1>1. (d \in recorded) \in BOOLEAN
  OBVIOUS
<1> QED BY <1>1 DEF DayLoad

(* It holds at the start. *)
LEMMA DrawerInvInit == DrawerInit => DrawerInv
<1> SUFFICES ASSUME DrawerInit PROVE DrawerInv
  OBVIOUS
<1> DEFINE first == [day |-> day, active |-> TRUE, had |-> day \in recorded]
<1>1. first \in DayLoad /\ loads = {first} /\ first.day = day
  BY AskedForDay DEF DrawerInit
<1> HIDE DEF first
<1> QED BY <1>1, DrawerAssumption DEF DrawerInit, DrawerInv, FitsDay, CountOnItsDay

(* A run of loadData for the day chosen retires the others. *)
LEMMA LoadsAfter ==
  ASSUME loads \subseteq DayLoad, NEW d \in DrawerDays, LoadDay(d)
  PROVE  /\ loads' \subseteq DayLoad
         /\ \A load \in loads' : load.active => load.day = d
         /\ figures' = NoDay
<1> DEFINE asked == [day |-> d, active |-> TRUE, had |-> d \in recorded]
<1>1. asked \in DayLoad /\ asked.day = d
  BY AskedForDay
<1>2. loads' = {[load EXCEPT !.active = FALSE] : load \in loads} \cup {asked} /\ figures' = NoDay
  BY DEF LoadDay, Cleared
<1> HIDE DEF asked
<1>3. \A load \in loads : [load EXCEPT !.active = FALSE] \in DayLoad
                          /\ ~[load EXCEPT !.active = FALSE].active
  BY DEF DayLoad
<1> QED BY <1>1, <1>2, <1>3

(* Every step keeps the invariant. *)
LEMMA DrawerInvStep == DrawerInv /\ [DrawerNext]_drawerVars => DrawerInv'
<1> SUFFICES ASSUME DrawerInv, [DrawerNext]_drawerVars PROVE DrawerInv'
  OBVIOUS
<1> USE DrawerAssumption DEF DrawerInv, FitsDay, CountOnItsDay
<1>1. CASE \E d \in DrawerDays : PickDay(d)
  <2> PICK d \in DrawerDays : PickDay(d)
    BY <1>1
  <2>1. /\ loads' \subseteq DayLoad
        /\ \A load \in loads' : load.active => load.day = d
        /\ figures' = NoDay
    BY LoadsAfter DEF PickDay
  <2> QED BY <2>1 DEF PickDay
<1>2. CASE \E load \in loads : Answered401(load) \/ LoadFails(load)
  BY <1>2 DEF Answered401, LoadFails
<1>3. CASE \E load \in loads : LoadAnswered(load)
  <2> PICK load \in loads : LoadAnswered(load)
    BY <1>3
  <2>1. load.day \in DrawerDays /\ load.active \in BOOLEAN
    BY DEF DayLoad
  <2>2. CASE load.active
    <3>1. figures' = day /\ counted' \in {day, NoDay} /\ (crossed' = (crossed /\ saving # NoSave))
      BY <2>1, <2>2 DEF LoadAnswered, Heeded, Filled
    <3> QED BY <3>1 DEF LoadAnswered
  <2>3. CASE ~load.active
    BY <2>3 DEF LoadAnswered, Heeded
  <2> QED BY <2>1, <2>2, <2>3
<1>4. CASE RefreshDrawer \/ ReviewAnswered
  <2>1. /\ loads' \subseteq DayLoad
        /\ \A load \in loads' : load.active => load.day = day
        /\ figures' = NoDay
    BY <1>4, LoadsAfter DEF RefreshDrawer, ReviewAnswered
  <2> QED BY <1>4, <2>1 DEF RefreshDrawer, ReviewAnswered
<1>5. CASE TypeCount
  BY <1>5 DEF TypeCount
<1>6. CASE Submit
  BY <1>6 DEF Submit, CanSave, SaveRequest
<1>7. CASE SaveAnswered
  BY <1>7 DEF SaveAnswered, SaveRequest
<1>8. CASE SaveRefused
  BY <1>8 DEF SaveRefused
<1>9. CASE AskReview \/ ReviewRefused \/ ShowPin \/ HidePin \/ EnterPin \/ PinRefused
  BY <1>9 DEF AskReview, ReviewRefused, ShowPin, HidePin, EnterPin, PinRefused
<1>10. CASE PinAccepted
  <2>1. CASE unlocking = "locked"
    <3>1. /\ loads' \subseteq DayLoad
          /\ \A load \in loads' : load.active => load.day = day
          /\ figures' = NoDay
      BY <1>10, <2>1, LoadsAfter DEF PinAccepted
    <3> QED BY <1>10, <3>1 DEF PinAccepted
  <2>2. CASE unlocking # "locked"
    BY <1>10, <2>2 DEF PinAccepted
  <2> QED BY <2>1, <2>2
<1>11. CASE UNCHANGED drawerVars
  BY <1>11 DEF drawerVars
<1> QED
  BY <1>1, <1>2, <1>3, <1>4, <1>5, <1>6, <1>7, <1>8, <1>9, <1>10, <1>11 DEF DrawerNext

(* A counted amount is saved for the day it was typed for, however late loads and saves
   are answered; a save that was out while the day was changed is the exception. *)
THEOREM CountsStay == DrawerSpec => []CountOnItsDay
<1>1. DrawerInv => CountOnItsDay
  BY DEF DrawerInv
<1> QED BY <1>1, DrawerInvInit, DrawerInvStep, PTL DEF DrawerSpec

(* What DrawerTypeOK says beyond DrawerInv. *)
DrawerRest ==
  /\ held \in DrawerDays \cup {NoDay}
  /\ locked \in BOOLEAN /\ pinShown \in BOOLEAN /\ reviewing \in BOOLEAN
  /\ IsFiniteSet(loads) /\ Cardinality(loads) <= MaxLoads
  /\ unlocking \in {"no", "locked", "open"}
  /\ recorded \subseteq DrawerDays

(* The runs retired by a new one are as many as before, at most. *)
LEMMA RetiredAreAsMany ==
  ASSUME IsFiniteSet(loads), Cardinality(loads) < MaxLoads, NEW d, LoadDay(d)
  PROVE  IsFiniteSet(loads') /\ Cardinality(loads') <= MaxLoads /\ held' = NoDay
<1> DEFINE T == {[load EXCEPT !.active = FALSE] : load \in loads}
           f == [load \in loads |-> [load EXCEPT !.active = FALSE]]
           asked == [day |-> d, active |-> TRUE, had |-> d \in recorded]
<1>1. loads' = T \cup {asked} /\ held' = NoDay
  BY DEF LoadDay, Cleared
<1>2. f \in Surjection(loads, T)
  BY DEF Surjection
<1> HIDE DEF f, T, asked
<1>3. IsFiniteSet(T) /\ Cardinality(T) <= Cardinality(loads)
  BY <1>2, FS_Surjection
<1>4. IsFiniteSet(T \cup {asked})
      /\ Cardinality(T \cup {asked}) = IF asked \in T THEN Cardinality(T) ELSE Cardinality(T) + 1
  BY <1>3, FS_AddElement
<1>5. Cardinality(T) \in Nat /\ Cardinality(loads) \in Nat
  BY <1>3, FS_CardinalityType
<1> QED BY <1>1, <1>3, <1>4, <1>5, DrawerAssumption

(* They hold in the beginning. *)
LEMMA DrawerRestInit == DrawerInit => DrawerRest
<1> SUFFICES ASSUME DrawerInit PROVE DrawerRest
  OBVIOUS
<1>1. PICK first : loads = {first}
  BY DEF DrawerInit
<1>2. IsFiniteSet(loads) /\ Cardinality(loads) = 1
  BY <1>1, FS_Singleton
<1>3. MaxLoads \in Nat \ {0} /\ 1 <= MaxLoads
  BY DrawerAssumption
<1> QED BY <1>2, <1>3 DEF DrawerInit, DrawerRest

(* Every step keeps them. *)
LEMMA DrawerRestStep == DrawerRest /\ DrawerInv /\ [DrawerNext]_drawerVars => DrawerRest'
<1> SUFFICES ASSUME DrawerRest, DrawerInv, [DrawerNext]_drawerVars PROVE DrawerRest'
  OBVIOUS
<1> USE DEF DrawerRest
<1>1. ASSUME NEW load \in loads, loads' = loads \ {load} PROVE IsFiniteSet(loads') /\ Cardinality(loads') <= MaxLoads
  <2>1. Cardinality(loads) \in Nat /\ MaxLoads \in Nat
    BY FS_CardinalityType, DrawerAssumption
  <2>2. IsFiniteSet(loads \ {load}) /\ Cardinality(loads \ {load}) = Cardinality(loads) - 1
    BY FS_RemoveElement
  <2> QED BY <1>1, <2>1, <2>2
<1>2. ASSUME NEW d \in DrawerDays, PickDay(d) PROVE DrawerRest'
  BY <1>2, RetiredAreAsMany DEF PickDay, LoadDay
<1>3. ASSUME NEW load \in loads, Answered401(load) \/ LoadAnswered(load) \/ LoadFails(load) PROVE DrawerRest'
  <2>1. load.day \in DrawerDays
    BY DEF DrawerInv, DayLoad
  <2> QED BY <1>1, <1>3, <2>1 DEF Answered401, LoadAnswered, LoadFails
<1>4. CASE RefreshDrawer \/ ReviewAnswered
  BY <1>4, RetiredAreAsMany DEF RefreshDrawer, ReviewAnswered, LoadDay
<1>5. CASE TypeCount \/ Submit \/ AskReview
  BY <1>5 DEF TypeCount, Submit, AskReview
<1>6. CASE SaveAnswered \/ SaveRefused
  <2>1. saving # NoSave /\ saving \in SaveRequest
    BY <1>6 DEF SaveAnswered, SaveRefused, DrawerInv
  <2>2. saving.day \in DrawerDays
    BY <2>1 DEF SaveRequest
  <2> QED BY <1>6, <2>2 DEF SaveAnswered, SaveRefused
<1>7. CASE ReviewRefused \/ ShowPin \/ HidePin \/ EnterPin \/ PinRefused
  BY <1>7 DEF ReviewRefused, ShowPin, HidePin, EnterPin, PinRefused
<1>8. CASE PinAccepted
  BY <1>8, RetiredAreAsMany DEF PinAccepted, LoadDay
<1>9. CASE UNCHANGED drawerVars
  BY <1>9 DEF drawerVars
<1> QED
  BY <1>2, <1>3, <1>4, <1>5, <1>6, <1>7, <1>8, <1>9 DEF DrawerNext

(* With the invariant they are all the types. *)
LEMMA DrawerTyped == DrawerInv /\ DrawerRest => DrawerTypeOK
BY DEF DrawerInv, DrawerRest, DrawerTypeOK

(* The drawer page keeps its types: no more loads are under way than it starts. *)
THEOREM DrawerTypes == DrawerSpec => []DrawerTypeOK
<1>1. DrawerInit => DrawerInv /\ DrawerRest
  BY DrawerInvInit, DrawerRestInit
<1>2. (DrawerInv /\ DrawerRest) /\ [DrawerNext]_drawerVars => (DrawerInv /\ DrawerRest)'
  BY DrawerInvStep, DrawerRestStep
<1>3. DrawerInv /\ DrawerRest => DrawerTypeOK
  BY DrawerTyped
<1> QED BY <1>1, <1>2, <1>3, PTL DEF DrawerSpec

-----------------------------------------------------------------------------
(* LedgerPage *)

(* The types hold at the start. *)
LEMMA LedgerTypesInit == LedgerInit => LedgerTypeOK
<1> SUFFICES ASSUME LedgerInit PROVE LedgerTypeOK
  OBVIOUS
<1> DEFINE Card == [of : LedgerDays \cup {NoPayDay}, typed : BOOLEAN]
           LoadOf == [day : LedgerDays \cup {NoPayDay}, out : SUBSET Answers]
<1>1. NoLedgerLoad \in LoadOf /\ [of |-> NoPayDay, typed |-> FALSE] \in Card
  BY DEF NoLedgerLoad
<1> HIDE DEF Card, LoadOf
<1>2. cards \in [LedgerBarbers -> Card] /\ ledgerLoad \in [LedgerLoads -> LoadOf]
  BY <1>1 DEF LedgerInit, NoCards
<1>3. /\ payDay \in LedgerDays /\ ledgerOpen \in BOOLEAN
      /\ summaryOf \in LedgerDays \cup {NoPayDay}
      /\ payoutOut \in [LedgerBarbers -> LedgerDays \cup {NoPayDay}]
      /\ lastSaving \in LedgerBarbers \cup {NoPayDay}
  BY DEF LedgerInit
<1> QED BY <1>2, <1>3 DEF LedgerTypeOK, Card, LoadOf

(* Every step keeps the types. *)
LEMMA LedgerTypesStep == LedgerTypeOK /\ [LedgerNext]_ledgerVars => LedgerTypeOK'
<1> SUFFICES ASSUME LedgerTypeOK, [LedgerNext]_ledgerVars PROVE LedgerTypeOK'
  OBVIOUS
<1> USE DEF LedgerTypeOK
<1>1. ASSUME NEW l \in LedgerLoads, NEW d \in LedgerDays, LoadLedger(l, d)
      PROVE  ledgerLoad' \in [LedgerLoads -> [day : LedgerDays \cup {NoPayDay}, out : SUBSET Answers]]
  <2>1. [day |-> d, out |-> Answers] \in [day : LedgerDays \cup {NoPayDay}, out : SUBSET Answers]
    OBVIOUS
  <2> QED BY <1>1, <2>1 DEF LoadLedger
<1>2. ASSUME NEW l \in LedgerLoads, NEW answer \in Answers, LedgerAnswers(l, answer)
      PROVE  ledgerLoad' \in [LedgerLoads -> [day : LedgerDays \cup {NoPayDay}, out : SUBSET Answers]]
  <2> DEFINE LoadOf == [day : LedgerDays \cup {NoPayDay}, out : SUBSET Answers]
  <2>1. ledgerLoad[l] \in LoadOf /\ NoLedgerLoad \in LoadOf
    BY DEF NoLedgerLoad
  <2>2. [day |-> ledgerLoad[l].day, out |-> ledgerLoad[l].out \ {answer}] \in LoadOf
    BY <2>1
  <2> QED BY <1>2, <2>1, <2>2 DEF LedgerAnswers
<1>3. CASE \E l \in LedgerLoads : \/ UnlockLedger(l) \/ ReloadLedger(l)
                                  \/ \E d \in LedgerDays : PickPayDay(l, d)
  BY <1>1, <1>3 DEF UnlockLedger, ReloadLedger, PickPayDay
<1>4. CASE \E l \in LedgerLoads : RowsArrive(l)
  <2> PICK l \in LedgerLoads : RowsArrive(l)
    BY <1>4
  <2>1. ledgerLoad[l].day \in LedgerDays \cup {NoPayDay} /\ "rows" \in Answers
    BY DEF Answers
  <2> QED BY <1>2, <2>1 DEF RowsArrive
<1>5. CASE \E l \in LedgerLoads : RowsFail(l)
  BY <1>2, <1>5 DEF RowsFail, Answers
<1>6. CASE \E l \in LedgerLoads : SummaryArrives(l)
  <2> PICK l \in LedgerLoads : SummaryArrives(l)
    BY <1>6
  <2>1. ledgerLoad[l].day \in LedgerDays \cup {NoPayDay} /\ "summary" \in Answers
    BY DEF Answers
  <2> QED BY <1>2, <2>1 DEF SummaryArrives
<1>7. CASE \E b \in LedgerBarbers : TypeAmount(b)
  BY <1>7 DEF TypeAmount
<1>8. CASE \E b \in LedgerBarbers : SavePayout(b)
  BY <1>8 DEF SavePayout
<1>9. CASE \E b \in LedgerBarbers : PayoutSaved(b)
  BY <1>9 DEF PayoutSaved, SavedRow
<1>10. CASE \E b \in LedgerBarbers : PayoutNotSaved(b)
  BY <1>10 DEF PayoutNotSaved
<1>11. CASE UNCHANGED ledgerVars
  BY <1>11 DEF ledgerVars
<1> QED
  BY <1>3, <1>4, <1>5, <1>6, <1>7, <1>8, <1>9, <1>10, <1>11 DEF LedgerNext

(* The amounts typed on a card are lost only to a load of the page or to the answer of
   the card's own save. *)
THEOREM TypedStays == LedgerSpec => TypedAmountsKept
<1> DEFINE KeptTyped == \A b \in LedgerBarbers :
                     cards[b].typed /\ ~cards'[b].typed =>
                       ledgerLoad' # ledgerLoad \/ payoutOut'[b] # payoutOut[b]
<1>1. ASSUME LedgerTypeOK, [LedgerNext]_ledgerVars PROVE KeptTyped
  <2> SUFFICES ASSUME NEW b \in LedgerBarbers, cards[b].typed, ~cards'[b].typed
               PROVE  ledgerLoad' # ledgerLoad \/ payoutOut'[b] # payoutOut[b]
    OBVIOUS
  <2> USE <1>1 DEF LedgerTypeOK
  <2>1. ASSUME NEW l \in LedgerLoads, RowsArrive(l) PROVE ledgerLoad' # ledgerLoad
    <3>1. "rows" \in ledgerLoad[l].out /\ "rows" \notin ledgerLoad'[l].out
      BY <2>1 DEF RowsArrive, LedgerAnswers, NoLedgerLoad
    <3> QED BY <3>1
  <2>2. ASSUME NEW c \in LedgerBarbers, PayoutSaved(c) PROVE payoutOut'[b] # payoutOut[b]
    <3>1. cards'[b] = cards[b] \/ c = b
      BY <2>2 DEF PayoutSaved, SavedRow
    <3> QED BY <2>2, <3>1 DEF PayoutSaved
  <2>3. ASSUME NEW c \in LedgerBarbers, TypeAmount(c) PROVE cards'[b].typed
    BY <2>3 DEF TypeAmount
  <2>4. CASE cards' = cards
    BY <2>4
  <2> QED
    BY <2>1, <2>2, <2>3, <2>4 DEF LedgerNext, ledgerVars, UnlockLedger, ReloadLedger, PickPayDay,
       RowsFail, SummaryArrives, SavePayout, PayoutNotSaved
<1> QED BY <1>1, LedgerTypesInit, LedgerTypesStep, PTL DEF LedgerSpec, TypedAmountsKept

-----------------------------------------------------------------------------
(* Startup *)

(* The steps from one on. *)
Installing == {"npm ci", "stamp"}
SinceServing == {"app", "waiting", "gateway", "running"}
SinceSeeded == {"forecast", "build", "building"} \cup SinceServing
SinceMigrated == {"count", "seed"} \cup SinceSeeded
SinceGenerated == {"mysql", "migrate"} \cup SinceMigrated
SinceInstalled == {"stamp", "generate"} \cup SinceGenerated

(* Updates counted: the files' versions are never ahead of them. *)
Updates == code.all - (IF settings = "none" THEN 0 ELSE 1)

(* The lock file has changed since the install, within its two minutes. *)
Overlooked == modules.near /\ modules.hidden # code.lock

(* A stamp is never of a lock file to come, and a stamp of the one of now is of what is
   installed, unless npm's own hidden lock file belies it or the change was overlooked. *)
StampFits ==
  /\ modules.stamp = Missing \/ modules.stamp <= code.lock
  /\ \/ modules.stamp = Missing \/ modules.stamp < code.lock
     \/ modules.of # modules.hidden \/ modules.of = modules.stamp
     \/ Overlooked

(* What each step has made sure of, unless the code was updated since. *)
StartupInv ==
  /\ StartupTypeOK
  /\ Updates \in 0 .. MaxUpdates /\ code.lock <= Updates /\ code.schema <= Updates
  /\ StampFits
  /\ at \in Installing => lockHash <= code.lock /\ (~updated => lockHash = code.lock)
  /\ at = "stamp" /\ modules.of = modules.hidden =>
       modules.of = lockHash \/ lockHash < code.lock \/ Overlooked
  /\ at \in SinceInstalled /\ ~updated =>
       modules.of = code.lock \/ modules.of # modules.hidden \/ Overlooked
  /\ at \in SinceGenerated /\ ~updated => modules.client = code.schema
  /\ at \in SinceMigrated /\ ~updated => database.migrated = code.schema
  /\ database.barbers => database.services \/ seedCut \/ at = "seed"
  /\ at \in SinceSeeded => database.barbers \/ uncounted
  /\ at = "building" /\ ~updated => built.read = code.all
  /\ at \in SinceServing /\ ~updated => dev \/ built.read = code.all \/ built.read # built.id

(* The invariant holds in the beginning. *)
LEMMA StartupInvInit == StartupInit => StartupInv
<1> SUFFICES ASSUME StartupInit PROVE StartupInv
  OBVIOUS
<1> USE StartupAssumption DEF Versions, Found, Missing, NoBuild
<1>0. {dev, https, gatewayUp, updated, seedCut, uncounted} \subseteq BOOLEAN
  BY Zenon DEF StartupInit
<1>1. StartupTypeOK
  BY <1>0 DEF StartupInit, StartupTypeOK, NoModules, ScriptSteps
<1> QED BY <1>1 DEF StartupInit, StartupInv, Updates, StampFits, Overlooked, NoModules, Installing,
                    SinceInstalled, SinceGenerated, SinceMigrated, SinceSeeded, SinceServing

(* The file that is not there counts as a version. *)
LEMMA MissingFound == Missing \in Found
BY DEF Found

(* What is on or off. *)
Flags == {dev, https, gatewayUp, updated, seedCut, uncounted}

(* Every step keeps the flags Boolean. *)
LEMMA FlagsStep ==
  ASSUME StartupTypeOK, StartupNext
  PROVE  Flags' \subseteq BOOLEAN
<1> USE DEF StartupTypeOK, Flags, Goes, StepsTo
<1>1. CASE Start
  BY <1>1, Zenon DEF Start
<1>2. CASE Quit
  BY <1>2, Zenon DEF Quit, ScriptEnds, StopStarted
<1>3. CASE Tools
  BY <1>3, Zenon DEF Tools
<1>4. CASE Docker
  BY <1>4, Zenon DEF Docker
<1>5. CASE Settings
  BY <1>5, Zenon DEF Settings
<1>6. CASE OldServers
  BY <1>6, Zenon DEF OldServers
<1>7. CASE Packages
  BY <1>7, Zenon DEF Packages
<1>8. CASE NpmCi
  BY <1>8, Zenon DEF NpmCi
<1>9. CASE Stamp
  BY <1>9, Zenon DEF Stamp
<1>10. CASE Generate
  BY <1>10, Zenon DEF Generate
<1>11. CASE MySql
  BY <1>11, Zenon DEF MySql
<1>12. CASE Migrate
  BY <1>12, Zenon DEF Migrate
<1>13. CASE CountBarbers
  BY <1>13, Zenon DEF CountBarbers
<1>14. CASE SeedBarbers
  BY <1>14, Zenon DEF SeedBarbers
<1>15. CASE SeedServices
  BY <1>15, Zenon DEF SeedServices
<1>16. CASE ForecastService
  BY <1>16, Zenon DEF ForecastService
<1>17. CASE Build
  BY <1>17, Zenon DEF Build
<1>18. CASE BuildDone
  BY <1>18, Zenon DEF BuildDone
<1>19. CASE BuildFails
  BY <1>19, Zenon DEF BuildFails
<1>20. CASE StartApp
  BY <1>20, Zenon DEF StartApp
<1>21. CASE AppAnswers
  BY <1>21, Zenon DEF AppAnswers
<1>22. CASE StartGateway
  BY <1>22, Zenon DEF StartGateway
<1>23. CASE GatewayStops
  BY <1>23, Zenon DEF GatewayStops
<1>24. CASE AppStops
  BY <1>24, Zenon DEF AppStops
<1>25. CASE Interrupted
  BY <1>25, Zenon DEF Interrupted, ScriptEnds
<1>26. CASE InstallByHand
  BY <1>26, Zenon DEF InstallByHand
<1>27. CASE ServeByHand
  BY <1>27, Zenon DEF ServeByHand
<1>28. CASE CountFails
  BY <1>28, Zenon DEF CountFails
<1>29. ASSUME NEW newLock \in BOOLEAN, NEW newSchema \in BOOLEAN, Update(newLock, newSchema)
      PROVE  Flags' \subseteq BOOLEAN
  BY <1>29 DEF Update
<1> QED BY <1>1, <1>2, <1>3, <1>4, <1>5, <1>6, <1>7, <1>8, <1>9, <1>10, <1>11, <1>12, <1>13, <1>14, <1>15, <1>16, <1>17, <1>18, <1>19, <1>20, <1>21, <1>22, <1>23, <1>24, <1>25, <1>26, <1>27, <1>28, <1>29 DEF StartupNext

(* ... and the types, ... *)
LEMMA StartupTypesStep ==
  ASSUME StartupTypeOK, Updates \in 0 .. MaxUpdates, code.lock <= Updates, code.schema <= Updates,
         StartupNext
  PROVE  StartupTypeOK'
<1> USE StartupAssumption DEF StartupTypeOK, Goes, StepsTo, Versions, Found, Missing, NoBuild, ScriptSteps
<1>0. {dev', https', gatewayUp', updated', seedCut', uncounted'} \subseteq BOOLEAN
  BY FlagsStep DEF Flags
<1>1. CASE Start
  BY <1>0, <1>1 DEF Start
<1>2. CASE Quit
  BY <1>0, <1>2 DEF Quit, ScriptEnds, StopStarted
<1>3. CASE Tools
  BY <1>0, <1>3 DEF Tools
<1>4. CASE Docker
  BY <1>0, <1>4 DEF Docker
<1>5. CASE Settings
  BY <1>0, <1>5 DEF Settings, Updates
<1>6. CASE OldServers
  BY <1>0, <1>6 DEF OldServers
<1>7. CASE Packages
  <2>1. CASE NeedInstall
    <3>1. at = "packages" /\ at' = "npm ci" /\ modules' \in {NoModules, [NoModules EXCEPT !.next = TRUE]}
      BY <1>7, <2>1 DEF Packages
    <3>2. \E b \in BOOLEAN : modules' = [next |-> b, stamp |-> Missing, hidden |-> Missing,
                                          near |-> FALSE, of |-> Missing, client |-> Missing]
      <4>1. CASE modules' = NoModules
        BY <4>1 DEF NoModules
      <4>2. CASE modules' = [NoModules EXCEPT !.next = TRUE]
        BY <4>2 DEF NoModules
      <4> QED BY <3>1, <4>1, <4>2
    <3> HIDE DEF Versions, Found, Missing, ScriptSteps
    <3>3. modules' \in [next : BOOLEAN, stamp : Found, hidden : Found, near : BOOLEAN,
                      of : Found, client : Found]
      BY <3>2, MissingFound
    <3>4. lockHash' \in Found
      BY <1>7 DEF Packages, Versions, Found
    <3>5. at' \in ScriptSteps
      BY <3>1 DEF ScriptSteps
    <3> QED BY <1>0, <1>7, <3>3, <3>4, <3>5 DEF Packages
  <2>2. CASE ~ NeedInstall
    <3>1. at = "packages" /\ at' = "stamp" /\ UNCHANGED modules
      BY <1>7, <2>2 DEF Packages
    <3> QED BY <1>0, <1>7, <2>2, <3>1 DEF Packages, NeedInstall
  <2> QED BY <2>1, <2>2
<1>8. CASE NpmCi
  <2> PICK read \in {lockHash, code.lock} : modules' = Installed(read)
    BY <1>8 DEF NpmCi
  <2>1. read \in Found
    OBVIOUS
  <2> QED BY <1>0, <1>8, <2>1 DEF NpmCi, Installed
<1>9. CASE Stamp
  BY <1>0, <1>9 DEF Stamp
<1>10. CASE Generate
  BY <1>0, <1>10 DEF Generate
<1>11. CASE MySql
  BY <1>0, <1>11 DEF MySql
<1>12. CASE Migrate
  BY <1>0, <1>12 DEF Migrate
<1>13. CASE CountBarbers
  <2>1. at' \in ScriptSteps
    BY <1>13 DEF CountBarbers
  <2> HIDE DEF Versions, Found, Missing
  <2> QED BY <1>0, <1>13, <2>1 DEF CountBarbers
<1>14. CASE SeedBarbers
  BY <1>0, <1>14 DEF SeedBarbers
<1>15. CASE SeedServices
  BY <1>0, <1>15 DEF SeedServices
<1>16. CASE ForecastService
  BY <1>0, <1>16 DEF ForecastService
<1>17. CASE Build
  <2>0. PICK rebuild \in BOOLEAN :
          IF ~dev /\ (rebuild \/ BuildStale)
          THEN at = "build" /\ at' = "building" /\ built' = [read |-> code.all, id |-> NoBuild]
          ELSE at = "build" /\ at' = "app" /\ UNCHANGED built
    BY <1>17 DEF Build
  <2>1. CASE ~dev /\ (rebuild \/ BuildStale)
    <3>1. at = "build" /\ at' = "building" /\ built' = [read |-> code.all, id |-> NoBuild]
      BY <2>0, <2>1
    <3> QED BY <1>0, <1>17, <3>1 DEF Build
  <2>2. CASE ~(~dev /\ (rebuild \/ BuildStale))
    <3>1. at = "build" /\ at' = "app" /\ UNCHANGED built /\ (dev \/ ~BuildStale)
      BY <2>0, <2>2
    <3> QED BY <1>0, <1>17, <3>1 DEF Build, BuildStale
  <2> QED BY <2>1, <2>2
<1>18. CASE BuildDone
  BY <1>0, <1>18 DEF BuildDone
<1>19. CASE BuildFails
  BY <1>0, <1>19 DEF BuildFails
<1>20. CASE StartApp
  BY <1>0, <1>20 DEF StartApp
<1>21. CASE AppAnswers
  BY <1>0, <1>21 DEF AppAnswers
<1>22. CASE StartGateway
  BY <1>0, <1>22 DEF StartGateway
<1>23. CASE GatewayStops
  <2> HIDE DEF ScriptSteps, Versions, Found, Missing
  <2> QED BY <1>0, <1>23 DEF GatewayStops
<1>24. CASE AppStops
  <2> HIDE DEF ScriptSteps, Versions, Found, Missing
  <2> QED BY <1>0, <1>24 DEF AppStops
<1>25. CASE Interrupted
  <2>1. at' \in ScriptSteps
    BY <1>25 DEF Interrupted, ScriptEnds
  <2> HIDE DEF ScriptSteps, Versions, Found, Missing
  <2> QED BY <1>0, <1>25, <2>1, MissingFound DEF Interrupted, ScriptEnds
<1>26. CASE InstallByHand
  BY <1>0, <1>26 DEF InstallByHand, Installed
<1>27. CASE ServeByHand
  <2> HIDE DEF ScriptSteps, Versions, Found, Missing
  <2> QED BY <1>0, <1>27 DEF ServeByHand
<1>28. CASE CountFails
  <2>1. at' \in ScriptSteps
    BY <1>28 DEF CountFails
  <2> HIDE DEF Versions, Found, Missing
  <2> QED BY <1>0, <1>28, <2>1 DEF CountFails
<1>29. ASSUME NEW newLock \in BOOLEAN, NEW newSchema \in BOOLEAN, Update(newLock, newSchema)
      PROVE  StartupTypeOK'
  <2> HIDE DEF ScriptSteps, Found, Missing
  <2>1. Updates < MaxUpdates /\ Updates' \in Int
    BY <1>29 DEF Update, Updates
  <2>2. code.lock + 1 \in Versions /\ code.schema + 1 \in Versions
    BY <2>1
  <2>3. code.all + 1 \in 0 .. MaxUpdates + 1
    BY <2>1 DEF Updates
  <2>4. code' \in [lock : Versions, schema : Versions, all : 0 .. MaxUpdates + 1]
    BY <1>29, <2>2, <2>3 DEF Update
  <2> HIDE DEF Versions
  <2> QED BY <1>0, <1>29, <2>4 DEF Update
<1> QED BY <1>1, <1>2, <1>3, <1>4, <1>5, <1>6, <1>7, <1>8, <1>9, <1>10, <1>11, <1>12, <1>13, <1>14, <1>15, <1>16, <1>17, <1>18, <1>19, <1>20, <1>21, <1>22, <1>23, <1>24, <1>25, <1>26, <1>27, <1>28, <1>29 DEF StartupNext

(* What the invariant is about; who listens on the ports is not. *)
Made == <<at, code, modules, built, lockHash, settings, database, dev, updated, seedCut, uncounted>>

(* A step that leaves it alone keeps the invariant. *)
LEMMA MadeStays ==
  ASSUME StartupInv, StartupTypeOK', UNCHANGED Made
  PROVE  StartupInv'
<1>1. UNCHANGED <<Updates, StampFits, Overlooked>>
  BY DEF Made, Updates, StampFits, Overlooked
<1> QED BY <1>1 DEF Made, StartupInv

(* ... and what each step has made sure of. *)
LEMMA StartupInvStep ==
  ASSUME StartupInv, StartupNext
  PROVE  StartupInv'
<1> USE StartupAssumption DEF StartupTypeOK, Goes, StepsTo, Versions, Found, Missing, NoBuild,
        StartupInv, Updates, StampFits, Overlooked, Installing, SinceInstalled, SinceGenerated, SinceMigrated,
        SinceSeeded, SinceServing
<1>0. StartupTypeOK'
  BY StartupTypesStep
<1>1. CASE Start
  BY <1>0, <1>1 DEF Start
<1>2. CASE Quit
  BY <1>0, <1>2 DEF Quit, ScriptEnds, StopStarted
<1>3. CASE Tools
  BY <1>0, <1>3 DEF Tools
<1>4. CASE Docker
  BY <1>0, <1>4 DEF Docker
<1>5. CASE Settings
  BY <1>0, <1>5 DEF Settings
<1>6. CASE OldServers
  BY <1>0, <1>6 DEF OldServers
<1>7. CASE Packages
  <2>1. CASE NeedInstall
    <3>1. at = "packages" /\ at' = "npm ci" /\ modules' \in {NoModules, [NoModules EXCEPT !.next = TRUE]}
      BY <1>7, <2>1 DEF Packages
    <3>2. \E b \in BOOLEAN : modules' = [next |-> b, stamp |-> Missing, hidden |-> Missing,
                                          near |-> FALSE, of |-> Missing, client |-> Missing]
      <4>1. CASE modules' = NoModules
        BY <4>1 DEF NoModules
      <4>2. CASE modules' = [NoModules EXCEPT !.next = TRUE]
        BY <4>2 DEF NoModules
      <4> QED BY <3>1, <4>1, <4>2
    <3> HIDE DEF Found, Missing, Versions
    <3>3. modules'.stamp = Missing
      <4> HIDE DEF StartupInv, StartupTypeOK
      <4> QED BY <3>2
    <3>4. lockHash' = code.lock /\ UNCHANGED <<code, settings, database, dev, updated, seedCut>>
      BY <1>7, <2>1 DEF Packages
    <3>5. /\ at' \notin SinceInstalled /\ at' \notin SinceGenerated /\ at' \notin SinceMigrated
          /\ at' \notin SinceSeeded /\ at' \notin SinceServing /\ at' \notin {"stamp", "building"}
          /\ at # "seed"
      BY <3>1
    <3> HIDE DEF Installing, SinceInstalled, SinceGenerated, SinceMigrated, SinceSeeded, SinceServing
    <3>7. lockHash' <= code'.lock
      BY <3>4 DEF Versions
    <3>6. StampFits' /\ Updates' = Updates
      BY <3>3, <3>4
    <3> HIDE DEF StampFits, Updates
    <3> QED BY <1>0, <3>4, <3>5, <3>6, <3>7
  <2>2. CASE ~ NeedInstall
    <3>1. at = "packages" /\ at' = "stamp" /\ UNCHANGED modules
      BY <1>7, <2>2 DEF Packages
    <3> QED BY <1>0, <1>7, <2>2, <3>1 DEF Packages, NeedInstall
  <2> QED BY <2>1, <2>2
<1>8. CASE NpmCi
  <2>0. PICK read \in {lockHash, code.lock} : modules' = Installed(read)
    BY <1>8 DEF NpmCi
  <2>1. /\ modules'.stamp = Missing /\ modules'.hidden = code.lock /\ modules'.of = read
        /\ at = "npm ci" /\ at' = "stamp"
        /\ UNCHANGED <<code, lockHash, settings, database, dev, updated, seedCut>>
    BY <1>8, <2>0 DEF NpmCi, Installed
  <2>2. /\ at' \notin SinceGenerated /\ at' \notin SinceMigrated /\ at' \notin SinceSeeded
        /\ at' \notin SinceServing /\ at' # "building" /\ at \in Installing
    BY <2>1
  <2>3. lockHash <= code.lock /\ (~ updated => lockHash = code.lock)
    BY <2>2
  <2> HIDE DEF Found, Missing, Versions, Installing, SinceInstalled, SinceGenerated, SinceMigrated,
               SinceSeeded, SinceServing, StampFits, Updates
  <2>4. lockHash \in Int /\ code.lock \in Int
    BY DEF Found, Missing, Versions
  <2>5. StampFits' /\ Updates' = Updates
    BY <2>1 DEF StampFits, Updates
  <2>6. modules'.of = lockHash \/ lockHash < code.lock
    <3>1. read = lockHash \/ read = code.lock
      BY <2>0
    <3>2. lockHash < code.lock \/ lockHash = code.lock
      BY <2>3, <2>4
    <3> QED BY <2>1, <3>1, <3>2
  <2> QED BY <1>0, <2>1, <2>2, <2>3, <2>5, <2>6
<1>9. CASE Stamp
  BY <1>0, <1>9 DEF Stamp
<1>10. CASE Generate
  BY <1>0, <1>10 DEF Generate
<1>11. CASE MySql
  BY <1>0, <1>11 DEF MySql
<1>12. CASE Migrate
  BY <1>0, <1>12 DEF Migrate
<1>13. CASE CountBarbers
  BY <1>0, <1>13 DEF CountBarbers
<1>14. CASE SeedBarbers
  BY <1>0, <1>14 DEF SeedBarbers
<1>15. CASE SeedServices
  BY <1>0, <1>15 DEF SeedServices
<1>16. CASE ForecastService
  BY <1>0, <1>16 DEF ForecastService
<1>17. CASE Build
  <2>0. PICK rebuild \in BOOLEAN :
          IF ~dev /\ (rebuild \/ BuildStale)
          THEN at = "build" /\ at' = "building" /\ built' = [read |-> code.all, id |-> NoBuild]
          ELSE at = "build" /\ at' = "app" /\ UNCHANGED built
    BY <1>17 DEF Build
  <2>1. CASE ~dev /\ (rebuild \/ BuildStale)
    <3>1. at = "build" /\ at' = "building" /\ built' = [read |-> code.all, id |-> NoBuild]
      BY <2>0, <2>1
    <3> QED BY <1>0, <1>17, <3>1 DEF Build
  <2>2. CASE ~(~dev /\ (rebuild \/ BuildStale))
    <3>1. at = "build" /\ at' = "app" /\ UNCHANGED built /\ (dev \/ ~BuildStale)
      BY <2>0, <2>2
    <3> QED BY <1>0, <1>17, <3>1 DEF Build, BuildStale
  <2> QED BY <2>1, <2>2
<1>18. CASE BuildDone
  BY <1>0, <1>18 DEF BuildDone
<1>19. CASE BuildFails
  BY <1>0, <1>19 DEF BuildFails
<1>20. CASE StartApp
  BY <1>0, <1>20 DEF StartApp
<1>21. CASE AppAnswers
  BY <1>0, <1>21 DEF AppAnswers
<1>22. CASE StartGateway
  BY <1>0, <1>22 DEF StartGateway
<1>23. CASE GatewayStops
  <2>1. UNCHANGED Made
    BY <1>23 DEF GatewayStops, Made
  <2> QED BY <1>0, <2>1, MadeStays
<1>24. CASE AppStops
  <2>1. UNCHANGED Made
    BY <1>24 DEF AppStops, Made
  <2> QED BY <1>0, <2>1, MadeStays
<1>25. CASE Interrupted
  BY <1>0, <1>25 DEF Interrupted, ScriptEnds
<1>26. CASE InstallByHand
  BY <1>0, <1>26 DEF InstallByHand, Installed
<1>27. CASE ServeByHand
  <2>1. UNCHANGED Made
    BY <1>27 DEF ServeByHand, Made
  <2> QED BY <1>0, <2>1, MadeStays
<1>28. CASE CountFails
  BY <1>0, <1>28 DEF CountFails
<1>29. ASSUME NEW newLock \in BOOLEAN, NEW newSchema \in BOOLEAN, Update(newLock, newSchema)
      PROVE  StartupInv'
  <2> HIDE DEF Found, Missing, Installing, SinceInstalled, SinceGenerated, SinceMigrated, SinceSeeded,
               SinceServing
  <2>1. /\ code'.lock = IF newLock THEN code.lock + 1 ELSE code.lock
        /\ code'.schema \in {code.schema, code.schema + 1}
        /\ code'.all = code.all + 1
    BY <1>29 DEF Update
  <2>2. updated' = TRUE /\ code.all - (IF settings = "none" THEN 0 ELSE 1) < MaxUpdates
        /\ UNCHANGED <<at, built, lockHash, settings, database, dev, seedCut, uncounted>>
    BY <1>29 DEF Update
  <2>3. Updates' = Updates + 1 /\ Updates < MaxUpdates
    BY <2>1, <2>2
  <2>4. Updates' \in 0 .. MaxUpdates /\ code'.lock <= Updates' /\ code'.schema <= Updates'
    BY <2>1, <2>3
  <2>5. modules.stamp \in Int /\ lockHash \in Int /\ code.lock \in Int
    BY DEF Found, Missing
  <2>6. PICK late \in BOOLEAN : modules' = [modules EXCEPT !.near = @ /\ ~(newLock /\ late)]
    BY <1>29 DEF Update
  <2>7. /\ modules'.stamp = modules.stamp /\ modules'.of = modules.of /\ modules'.hidden = modules.hidden
        /\ modules'.near = (modules.near /\ ~(newLock /\ late))
    BY <2>6
  <2>8. ~newLock => code'.lock = code.lock /\ (Overlooked => Overlooked')
    BY <2>1, <2>7
  <2>9. newLock => code'.lock = code.lock + 1
    BY <2>1
  <2> HIDE DEF Overlooked
  <2>10. StampFits'
    <3>1. CASE newLock
      BY <2>5, <2>7, <2>9, <3>1
    <3>2. CASE ~newLock
      BY <2>5, <2>7, <2>8, <3>2
    <3> QED BY <3>1, <3>2
  <2>11. at = "stamp" /\ modules'.of = modules'.hidden =>
           modules'.of = lockHash' \/ lockHash' < code'.lock \/ Overlooked'
    <3> SUFFICES ASSUME at = "stamp", modules.of = modules.hidden
                 PROVE  modules'.of = lockHash' \/ lockHash' < code'.lock \/ Overlooked'
      BY <2>7
    <3>1. lockHash <= code.lock
      BY DEF Installing
    <3>2. CASE newLock
      BY <2>2, <2>5, <2>9, <3>1, <3>2
    <3>3. CASE ~newLock
      BY <2>2, <2>5, <2>7, <2>8, <3>3
    <3> QED BY <3>2, <3>3
  <2> HIDE DEF Updates, StampFits, Versions, StartupTypeOK, Goes, StepsTo, NoBuild
  <2>12. at' = at /\ updated' /\ (at \in Installing => lockHash <= code.lock)
    BY <2>2, Zenon
  <2>13. at' \in Installing => lockHash' <= code'.lock
    <3> SUFFICES ASSUME at' \in Installing PROVE lockHash' <= code'.lock
      OBVIOUS
    <3>1. lockHash <= code.lock
      BY <2>12, Zenon
    <3>2. lockHash' = lockHash /\ (code'.lock = code.lock \/ code'.lock = code.lock + 1)
      BY <2>1, <2>2
    <3> QED BY ONLY <2>5, <3>1, <3>2
  <2>14. /\ database'.barbers => database'.services \/ seedCut' \/ at' = "seed"
         /\ at' \in SinceSeeded => database'.barbers \/ uncounted'
    BY <2>2, Zenon
  <2> QED BY <1>0, <2>4, <2>10, <2>11, <2>12, <2>13, <2>14, Zenon
<1> QED BY <1>1, <1>2, <1>3, <1>4, <1>5, <1>6, <1>7, <1>8, <1>9, <1>10, <1>11, <1>12, <1>13, <1>14, <1>15, <1>16, <1>17, <1>18, <1>19, <1>20, <1>21, <1>22, <1>23, <1>24, <1>25, <1>26, <1>27, <1>28, <1>29 DEF StartupNext

(* A window that says "Ruzzco is running" has packages, database and build of the code
   there is, whatever earlier runs were cut short in: for any number of updates, runs and
   interruptions. *)
THEOREM WindowTellsTruth == StartupSpec => []RunningIsWhole
<1>1. StartupInv /\ [StartupNext]_startupVars => StartupInv'
  <2>1. ASSUME StartupInv, UNCHANGED startupVars PROVE StartupInv'
    BY <2>1 DEF startupVars, StartupInv, StartupTypeOK, Updates, StampFits, Overlooked
  <2> QED BY <2>1, StartupInvStep
<1>2. StartupInv => RunningIsWhole
  BY DEF StartupInv, RunningIsWhole, Overlooked, SinceInstalled, SinceGenerated, SinceMigrated,
         SinceSeeded, SinceServing
<1> QED BY <1>1, <1>2, StartupInvInit, PTL DEF StartupSpec

-----------------------------------------------------------------------------
(* LocalNet *)

(* An answer under its limit was heard for as long, or is still to be sent, or its network
   went; what is being sent leaves on its own network. *)
AnswersFit ==
  /\ \A a \in Packet : limit[a] > 0 => gone \/ heardLately[a] >= limit[a] \/ a \in Range(sendQueue)
  /\ sending => sendQueue # << >> /\ outgoing = Head(sendQueue).link

NetInv ==
  /\ nets \in [Links -> Addresses \cup {NoAddress}]
  /\ address \in [Links -> Addresses \cup {NoAddress}]
  /\ limit \in [Packet -> 0 .. Gap] /\ heardLately \in [Packet -> 0 .. Gap]
  /\ sendQueue \in Seq(Packet)
  /\ AnswersFit
  /\ QuestionsAreAnswered

(* The questions to other devices are packets. *)
LEMMA QueriesArePackets ==
  ASSUME NEW links \in SUBSET Connected, address \in [Links -> Addresses \cup {NoAddress}]
  PROVE  Queries(links) \in Seq(Packet) /\ Len(Queries(links)) <= MaxQueue
<1> DEFINE n == Cardinality(links)
<1>1. n \in Nat /\ ExistsBijection(1 .. n, links)
  <2>1. IsFiniteSet(links)
    BY NetAssumption, FS_Subset DEF Connected
  <2> QED BY <2>1, FS_CardinalityType
<1>2. \E f \in [1 .. n -> links] : IsInjective(f)
  BY <1>1 DEF ExistsBijection, Bijection, Injection
<1>3. SetToSeq(links) \in [1 .. n -> links]
  BY <1>2 DEF SetToSeq
<1>4. \A i \in 1 .. n : SetToSeq(links)[i] \in Links /\ address[SetToSeq(links)[i]] \in Addresses
  BY <1>3 DEF Connected
<1>5. Queries(links) \in [1 .. n -> Packet]
  BY <1>3, <1>4 DEF Queries, Packet
<1>6. n <= Cardinality(Links) /\ Cardinality(Links) \in Nat
  BY NetAssumption, FS_Subset, FS_CardinalityType DEF Connected
<1> HIDE DEF n
<1>7. Queries(links) \in Seq(Packet) /\ Len(Queries(links)) = n
  BY <1>1, <1>5
<1> QED BY <1>1, <1>6, <1>7, NetAssumption

(* A packet sent leaves the others waiting. *)
LEMMA OthersWait ==
  ASSUME NEW q \in Seq(Packet), q # << >>, NEW a \in Range(q), a # Head(q)
  PROVE  a \in Range(Tail(q))
<1>1. PICK i \in 1 .. Len(q) : a = q[i]
  BY RangeEquality
<1>2. i # 1
  BY <1>1
<1>3. i - 1 \in 1 .. Len(Tail(q)) /\ Tail(q)[i - 1] = a
  BY <1>1, <1>2
<1>4. Tail(q) \in Seq(Packet)
  BY HeadTailProperties
<1>5. Range(Tail(q)) = {Tail(q)[j] : j \in 1 .. Len(Tail(q))}
  BY <1>4, RangeEquality
<1> QED BY <1>3, <1>5

(* So does one that joins them. *)
LEMMA JoinedWait ==
  ASSUME NEW q \in Seq(Packet), NEW r \in Seq(Packet)
  PROVE  /\ q \o r \in Seq(Packet) /\ Range(q \o r) = Range(q) \cup Range(r)
         /\ q # << >> => q \o r # << >> /\ Head(q \o r) = Head(q)
BY RangeConcatenation

(* The invariant holds in the beginning. *)
LEMMA NetInvInit == NetInit => NetInv
<1> SUFFICES ASSUME NetInit PROVE NetInv
  OBVIOUS
<1>1. Silent \in [Packet -> 0 .. Gap] /\ \A a \in Packet : Silent[a] = 0
  BY NetAssumption DEF Silent
<1> QED BY <1>1 DEF NetInit, NetInv, AnswersFit, QuestionsAreAnswered

(* The certificate: one that could be had names every address of now. *)
LEMMA CertificatesFit ==
  ASSUME NEW ok \in BOOLEAN, Certificates(ok), ok, UNCHANGED address,
         address \in [Links -> Addresses \cup {NoAddress}]
  PROVE  \A l \in Links : address[l] \in certFor' \cup {NoAddress}
BY DEF Certificates, Fits, Here

(* The gateway's own steps keep the invariant, ... *)
LEMMA NetInvGateway ==
  ASSUME NetInv, StartLocal \/ StopLocal \/ FollowNetworks
  PROVE  NetInv'
<1> USE DEF NetInv
<1>1. Silent \in [Packet -> 0 .. Gap] /\ \A a \in Packet : Silent[a] = 0
  BY NetAssumption DEF Silent
<1>2. CASE StartLocal
  <2>0. PICK ok \in BOOLEAN :
          /\ Certificates(ok) /\ gatewayOn' = (ok /\ keyFits') /\ proxyFor' = certFor' /\ nets' = address
          /\ sendQueue' = IF gatewayOn' THEN Queries(Connected) ELSE << >>
    BY <1>2 DEF StartLocal
  <2>1. sendQueue' \in Seq(Packet)
    BY <2>0, QueriesArePackets
  <2>2. AnswersFit'
    BY <1>1, <1>2 DEF StartLocal, AnswersFit
  <2>3. gatewayOn' => \A l \in Links : nets'[l] \in proxyFor' \cup {NoAddress}
    BY <1>2, <2>0, CertificatesFit DEF StartLocal
  <2>4. QuestionsAreAnswered'
    BY <1>2, <2>3 DEF StartLocal, QuestionsAreAnswered
  <2>5. /\ nets' \in [Links -> Addresses \cup {NoAddress}] /\ address' = address
        /\ limit' \in [Packet -> 0 .. Gap] /\ heardLately' \in [Packet -> 0 .. Gap]
    BY <1>1, <1>2, <2>0 DEF StartLocal
  <2> QED BY <2>1, <2>2, <2>4, <2>5
<1>3. CASE StopLocal
  <2>1. AnswersFit' /\ QuestionsAreAnswered'
    BY <1>1, <1>3 DEF StopLocal, AnswersFit, QuestionsAreAnswered
  <2> QED BY <1>1, <1>3, <2>1 DEF StopLocal
<1>4. CASE FollowNetworks
  <2> DEFINE joined == {l \in Connected : nets[l] # address[l]}
  <2>0. sendQueue' = sendQueue \o Queries(joined) /\ nets' = address
        /\ UNCHANGED <<address, gatewayOn, limit, sending, outgoing, heardLately, unanswered, gone>>
    BY <1>4 DEF FollowNetworks
  <2>1. Queries(joined) \in Seq(Packet)
    BY QueriesArePackets
  <2>2. /\ sendQueue' \in Seq(Packet)
        /\ Range(sendQueue') = Range(sendQueue) \cup Range(Queries(joined))
        /\ sendQueue # << >> => sendQueue' # << >> /\ Head(sendQueue') = Head(sendQueue)
    BY <2>0, <2>1, JoinedWait
  <2>3. AnswersFit'
    BY <2>0, <2>2 DEF AnswersFit
  <2>4. ASSUME gatewayOn', ~ notRenewed' PROVE \A l \in Links : nets'[l] \in proxyFor' \cup {NoAddress}
    <3>1. CASE joined = {} /\ UNCHANGED <<certFor, keyFits, proxyFor, notRenewed>>
      BY <2>0, <2>4, <3>1 DEF QuestionsAreAnswered, Connected
    <3>2. ASSUME NEW ok \in BOOLEAN, Certificates(ok),
                 proxyFor' = (IF ok /\ keyFits' THEN certFor' ELSE proxyFor),
                 notRenewed' = ~ (ok /\ keyFits')
          PROVE  \A l \in Links : nets'[l] \in proxyFor' \cup {NoAddress}
      BY <2>0, <2>4, <3>2, CertificatesFit
    <3> QED BY <1>4, <3>1, <3>2 DEF FollowNetworks
  <2>5. QuestionsAreAnswered'
    BY <2>0, <2>4 DEF QuestionsAreAnswered
  <2> QED BY <2>0, <2>2, <2>3, <2>5
<1> QED BY <1>2, <1>3, <1>4

(* ... so do the responder's, and the networks'. *)
LEMMA NetInvResponder ==
  ASSUME NetInv,
         \/ \E l \in Links :
              \/ \E new \in Addresses \cup {NoAddress} : NetworkMoves(l, new)
              \/ \E kind \in Kinds : Question(l, kind)
         \/ NetTick \/ BeginSend \/ Sent
  PROVE  NetInv'
<1> USE DEF NetInv
<1>0. Gap \in Nat \ {0}
  BY NetAssumption
<1>1. ASSUME NEW l \in Links, NEW new \in Addresses \cup {NoAddress}, NetworkMoves(l, new) PROVE NetInv'
  BY <1>1 DEF NetworkMoves, AnswersFit, QuestionsAreAnswered
<1>2. ASSUME NEW l \in Links, NEW kind \in Kinds, Question(l, kind) PROVE NetInv'
  <2> DEFINE a == [link |-> l, address |-> nets[l], kind |-> kind]
  <2>1. a \in Packet
    BY <1>2 DEF Question, Packet
  <2>2. UNCHANGED <<address, gatewayOn, nets, sending, proxyFor, heardLately, gone, notRenewed>>
    BY <1>2 DEF Question
  <2>3. CASE Limited(a)
    <3>1. unanswered' = (unanswered \/ ~ OnTheWay(a)) /\ UNCHANGED <<limit, sendQueue, outgoing>>
      BY <1>2, <2>3 DEF Question
    <3>2. gone \/ OnTheWay(a)
      BY <1>0, <2>1, <2>3 DEF Limited, OnTheWay, AnswersFit
    <3>3. AnswersFit' /\ QuestionsAreAnswered'
      BY <2>2, <3>1, <3>2 DEF AnswersFit, QuestionsAreAnswered
    <3> QED BY <2>2, <3>1, <3>3
  <2>4. CASE ~ Limited(a)
    <3>1. /\ limit' = [limit EXCEPT ![a] = Gap] /\ sendQueue' = Append(sendQueue, a)
          /\ outgoing' = outgoing /\ UNCHANGED unanswered
      BY <1>2, <2>4 DEF Question, ChosenNow
    <3>2. /\ sendQueue' \in Seq(Packet) /\ Range(sendQueue') = Range(sendQueue) \cup {a}
          /\ sendQueue # << >> => sendQueue' # << >> /\ Head(sendQueue') = Head(sendQueue)
      <4>1. Append(sendQueue, a) = sendQueue \o <<a>> /\ <<a>> \in Seq(Packet)
        BY <2>1, AppendIsConcat
      <4>2. Range(<<a>>) = {a}
        <5>1. /\ Range(<<a>>) = {<<a>>[i] : i \in 1 .. Len(<<a>>)}
              /\ Len(<<a>>) = 1 /\ <<a>>[1] = a /\ 1 .. 1 = {1}
          <6>1. Range(<<a>>) = {<<a>>[i] : i \in 1 .. Len(<<a>>)}
            BY <4>1, RangeEquality
          <6>2. Len(<<a>>) = 1 /\ <<a>>[1] = a /\ 1 .. 1 = {1}
            OBVIOUS
          <6> QED BY <6>1, <6>2
        <5>2. \A x : x \in Range(<<a>>) <=> \E i \in {1} : x = <<a>>[i]
          BY <5>1
        <5>3. \A x : x \in Range(<<a>>) <=> x = a
          BY <5>1, <5>2
        <5> QED BY <5>3
      <4> QED BY <3>1, <4>1, <4>2, JoinedWait
    <3>3. limit' \in [Packet -> 0 .. Gap]
      <4> HIDE DEF a
      <4>1. Gap \in 0 .. Gap
        BY <1>0
      <4> QED BY <3>1, <4>1
    <3>4. AnswersFit' /\ QuestionsAreAnswered'
      BY <2>1, <2>2, <3>1, <3>2 DEF AnswersFit, QuestionsAreAnswered
    <3> QED BY <2>2, <3>2, <3>3, <3>4
  <2> QED BY <2>3, <2>4
<1>3. CASE NetTick
  <2>1. /\ limit' = Lower(limit) /\ heardLately' = Lower(heardLately)
        /\ UNCHANGED <<address, gatewayOn, nets, sendQueue, sending, outgoing, proxyFor, unanswered,
                       gone, notRenewed>>
    BY <1>3 DEF NetTick
  <2>2. limit' \in [Packet -> 0 .. Gap] /\ heardLately' \in [Packet -> 0 .. Gap]
    BY <1>0, <2>1 DEF Lower
  <2>3. AnswersFit'
    <3> SUFFICES ASSUME NEW a \in Packet, limit'[a] > 0, ~ gone
                 PROVE  heardLately'[a] >= limit'[a] \/ a \in Range(sendQueue)
      BY <2>1 DEF AnswersFit
    <3>1. /\ limit[a] \in 0 .. Gap /\ limit'[a] = IF limit[a] = 0 THEN 0 ELSE limit[a] - 1
          /\ heardLately[a] \in 0 .. Gap
          /\ heardLately'[a] = IF heardLately[a] = 0 THEN 0 ELSE heardLately[a] - 1
      BY <2>1 DEF Lower
    <3>2. limit[a] > 0
      BY <1>0, <3>1
    <3>3. heardLately[a] >= limit[a] \/ a \in Range(sendQueue)
      BY <3>2 DEF AnswersFit
    <3> QED BY <1>0, <3>1, <3>2, <3>3
  <2> QED BY <2>1, <2>2, <2>3 DEF QuestionsAreAnswered
<1>4. CASE BeginSend
  BY <1>4 DEF BeginSend, AnswersFit, QuestionsAreAnswered
<1>5. CASE Sent
  <2> DEFINE a == Head(sendQueue)
             there == address[a.link] = a.address
  <2>1. /\ sending /\ ~ sending' /\ sendQueue' = Tail(sendQueue) /\ gone' = (gone \/ ~ there)
        /\ heardLately' = IF there /\ outgoing = a.link THEN [heardLately EXCEPT ![a] = Gap] ELSE heardLately
        /\ UNCHANGED <<address, gatewayOn, nets, limit, proxyFor, unanswered, notRenewed>>
    BY <1>5 DEF Sent
  <2>2. sendQueue # << >> /\ outgoing = a.link
    BY <2>1 DEF AnswersFit
  <2>3. a \in Packet /\ sendQueue' \in Seq(Packet)
    BY <2>1, <2>2, HeadTailProperties
  <2>4. heardLately' \in [Packet -> 0 .. Gap]
    <3> HIDE DEF a, there
    <3>1. Gap \in 0 .. Gap
      BY <1>0
    <3> QED BY <2>1, <3>1
  <2>5. AnswersFit'
    <3> SUFFICES ASSUME NEW b \in Packet, limit[b] > 0, ~ gone'
                 PROVE  heardLately'[b] >= limit[b] \/ b \in Range(sendQueue')
      BY <2>1 DEF AnswersFit
    <3>1. there /\ heardLately' = [heardLately EXCEPT ![a] = Gap]
      BY <2>1, <2>2
    <3>2. CASE b = a
      BY <1>0, <2>3, <3>1, <3>2
    <3>3. CASE b # a
      <4>1. heardLately[b] >= limit[b] \/ b \in Range(sendQueue)
        BY <2>1 DEF AnswersFit
      <4> QED BY <2>1, <2>2, <3>1, <3>3, <4>1, OthersWait
    <3> QED BY <3>2, <3>3
  <2>6. QuestionsAreAnswered'
    BY <2>1 DEF QuestionsAreAnswered
  <2> QED BY <2>1, <2>3, <2>4, <2>5, <2>6
<1> QED BY <1>1, <1>2, <1>3, <1>4, <1>5

(* Every step of gateway and responder keeps it. *)
LEMMA NetInvStep == NetInv /\ [NetNext]_netVars => NetInv'
<1>1. ASSUME NetInv, UNCHANGED netVars PROVE NetInv'
  BY <1>1 DEF netVars, NetInv, AnswersFit, QuestionsAreAnswered
<1> QED BY <1>1, NetInvGateway, NetInvResponder DEF NetNext

(* A phone's question is left without an answer only if one of its kind has just come or is
   coming, unless the network went away, and the certificate served names every address
   given out: for any number of networks, addresses, moves and packets waiting. *)
THEOREM PhonesFindThePc == NetSpec => []QuestionsAreAnswered
BY NetInvInit, NetInvStep, PTL DEF NetSpec, NetInv

(* What NetTypeOK says beyond NetInv. *)
NetRest ==
  /\ Len(sendQueue) <= MaxQueue
  /\ outgoing \in Links \cup {NoAddress}
  /\ certFor \subseteq Addresses \cup {Loopback} /\ proxyFor \subseteq Addresses \cup {Loopback}
  /\ moves \in 0 .. MaxMoves
  /\ gatewayOn \in BOOLEAN /\ sending \in BOOLEAN /\ keyFits \in BOOLEAN
  /\ unanswered \in BOOLEAN /\ gone \in BOOLEAN /\ notRenewed \in BOOLEAN

(* They hold in the beginning. *)
LEMMA NetRestInit == NetInit => NetRest
<1> SUFFICES ASSUME NetInit PROVE NetRest
  OBVIOUS
<1>1. MaxMoves \in Nat /\ MaxQueue \in Nat
  BY NetAssumption
<1>2. 0 \in 0 .. MaxMoves /\ Len(<< >>) <= MaxQueue
  BY <1>1
<1> QED BY <1>2 DEF NetInit, NetRest

(* A new certificate is for addresses of the PC. *)
LEMMA CertificatesTypes ==
  ASSUME NetRest, NetInv, NEW ok \in BOOLEAN, Certificates(ok)
  PROVE  certFor' \subseteq Addresses \cup {Loopback} /\ keyFits' \in BOOLEAN
<1>1. Here \subseteq Addresses \cup {Loopback}
  BY DEF Here, NetInv
<1> QED BY <1>1 DEF Certificates, NetRest

(* Every step keeps them. *)
LEMMA NetRestStep == NetRest /\ NetInv /\ [NetNext]_netVars => NetRest'
<1> SUFFICES ASSUME NetRest, NetInv, [NetNext]_netVars PROVE NetRest'
  OBVIOUS
<1> USE DEF NetRest
<1>0. MaxMoves \in Nat /\ MaxQueue \in Nat
      /\ sendQueue \in Seq(Packet) /\ Len(sendQueue) \in Nat
      /\ address \in [Links -> Addresses \cup {NoAddress}] /\ nets \in [Links -> Addresses \cup {NoAddress}]
  BY NetAssumption DEF NetInv
<1>1. ASSUME NEW l \in Links, NEW new \in Addresses \cup {NoAddress}, NetworkMoves(l, new) PROVE NetRest'
  <2>1. moves' \in 0 .. MaxMoves
    BY <1>0, <1>1 DEF NetworkMoves
  <2> QED BY <1>1, <2>1 DEF NetworkMoves
<1>2. ASSUME NEW l \in Links, NEW kind \in Kinds, Question(l, kind) PROVE NetRest'
  <2> DEFINE a == [link |-> l, address |-> nets[l], kind |-> kind]
  <2>1. UNCHANGED <<certFor, proxyFor, moves, gatewayOn, sending, keyFits, gone, notRenewed>>
    BY <1>2 DEF Question
  <2>2. outgoing' \in Links \cup {NoAddress} /\ unanswered' \in BOOLEAN
    BY <1>2 DEF Question, ChosenNow
  <2>3. Len(sendQueue') <= MaxQueue
    <3> HIDE DEF a
    <3>1. UNCHANGED sendQueue \/ (Len(sendQueue) < MaxQueue /\ sendQueue' = Append(sendQueue, a))
      BY <1>2 DEF Question, a
    <3>2. Len(Append(sendQueue, a)) = Len(sendQueue) + 1
      BY <1>0
    <3> QED BY <1>0, <3>1, <3>2
  <2> QED BY <2>1, <2>2, <2>3
<1>3. CASE StartLocal
  <2>1. PICK ok \in BOOLEAN :
          /\ Certificates(ok) /\ gatewayOn' = (ok /\ keyFits') /\ proxyFor' = certFor'
          /\ sendQueue' = IF gatewayOn' THEN Queries(Connected) ELSE << >>
    BY <1>3 DEF StartLocal
  <2>2. Len(Queries(Connected)) <= MaxQueue /\ Len(<< >>) <= MaxQueue
    BY <1>0, QueriesArePackets
  <2>3. certFor' \subseteq Addresses \cup {Loopback} /\ keyFits' \in BOOLEAN
    BY <2>1, CertificatesTypes
  <2>4. sending' = FALSE /\ outgoing' = NoAddress /\ notRenewed' = FALSE /\ UNCHANGED <<moves, unanswered, gone>>
    BY <1>3 DEF StartLocal
  <2>5. Len(sendQueue') <= MaxQueue
    BY <2>1, <2>2
  <2> QED BY <2>1, <2>3, <2>4, <2>5
<1>4. CASE StopLocal
  <2>1. Len(sendQueue') <= MaxQueue
    BY <1>0, <1>4 DEF StopLocal
  <2> QED BY <1>4, <2>1 DEF StopLocal
<1>5. CASE FollowNetworks
  <2> DEFINE joined == {l \in Connected : nets[l] # address[l]}
  <2>1. Queries(joined) \in Seq(Packet) /\ Len(sendQueue) + Len(Queries(joined)) <= MaxQueue
        /\ sendQueue' = sendQueue \o Queries(joined)
    BY <1>0, <1>5, QueriesArePackets DEF FollowNetworks
  <2>2. Len(sendQueue') <= MaxQueue
    <3> HIDE DEF joined
    <3> QED BY <1>0, <2>1
  <2>3. certFor' \subseteq Addresses \cup {Loopback} /\ proxyFor' \subseteq Addresses \cup {Loopback}
        /\ keyFits' \in BOOLEAN /\ notRenewed' \in BOOLEAN
    <3>1. ASSUME NEW ok \in BOOLEAN, Certificates(ok),
                 proxyFor' = (IF ok /\ keyFits' THEN certFor' ELSE proxyFor),
                 notRenewed' = ~ (ok /\ keyFits')
          PROVE  certFor' \subseteq Addresses \cup {Loopback} /\ proxyFor' \subseteq Addresses \cup {Loopback}
                 /\ keyFits' \in BOOLEAN /\ notRenewed' \in BOOLEAN
      BY <3>1, CertificatesTypes
    <3> QED BY <1>5, <3>1 DEF FollowNetworks
  <2>4. UNCHANGED <<outgoing, moves, gatewayOn, sending, unanswered, gone>>
    BY <1>5 DEF FollowNetworks
  <2> QED BY <2>2, <2>3, <2>4
<1>6. CASE NetTick
  BY <1>6 DEF NetTick
<1>7. CASE BeginSend
  <2>1. Head(sendQueue) \in Packet
    BY <1>0, <1>7 DEF BeginSend
  <2>2. Head(sendQueue).link \in Links
    BY <2>1 DEF Packet
  <2> QED BY <1>7, <2>2 DEF BeginSend
<1>8. CASE Sent
  <2>1. sendQueue # << >>
    BY <1>8 DEF Sent, NetInv, AnswersFit
  <2>2. Len(Tail(sendQueue)) <= MaxQueue
    BY <1>0, <2>1
  <2>3. gone' \in BOOLEAN
    BY <1>8 DEF Sent
  <2> QED BY <1>8, <2>2, <2>3 DEF Sent
<1>9. CASE UNCHANGED netVars
  BY <1>9 DEF netVars
<1> QED
  BY <1>1, <1>2, <1>3, <1>4, <1>5, <1>6, <1>7, <1>8, <1>9 DEF NetNext

(* With the invariant they are all the types. *)
LEMMA NetTyped == NetInv /\ NetRest => NetTypeOK
<1> SUFFICES ASSUME NetInv, NetRest PROVE NetTypeOK
  OBVIOUS
<1>1. Range(sendQueue) \subseteq Packet
  BY RangeEquality DEF NetInv
<1> QED BY <1>1 DEF NetInv, NetRest, NetTypeOK

(* The network keeps its types; in particular the queue of answers stays bounded, since a
   question asked again is not queued twice (mdns-responder.mjs). *)
THEOREM NetTypes == NetSpec => []NetTypeOK
<1>1. NetInit => NetInv /\ NetRest
  BY NetInvInit, NetRestInit
<1>2. (NetInv /\ NetRest) /\ [NetNext]_netVars => (NetInv /\ NetRest)'
  BY NetInvStep, NetRestStep
<1>3. NetInv /\ NetRest => NetTypeOK
  BY NetTyped
<1> QED BY <1>1, <1>2, <1>3, PTL DEF NetSpec

-----------------------------------------------------------------------------
(* Forecast *)

(* A run being saved lies at the last asked-for day or the day before; unless another
   save crossed it, it is the last run created, and the saved rows end where its own do. *)
SaverFits(s) ==
  s.at # "idle" =>
    /\ s.start \in {today, today - 1} /\ s.next \in s.start .. s.start + RunDays
    /\ s.at = "saving" =>
         /\ s.run \in 1 .. made
         /\ s.run = made \/ s.run \in overlapped
         /\ \A r \in 1 .. made : r > s.run => r \in overlapped
         /\ s.run \notin overlapped => \A d \in Dates : rows[d] # 0 => d < s.start + RunDays

IsLatest(r) == \A s \in savedRuns : s <= r

(* The rows from today on are the latest run's, unless saves crossed. *)
DaysFit ==
  /\ \A d \in Dates : rows[d] # 0 => d < today + RunDays /\ savedRuns # {}
  /\ savedRuns # {} => \E r \in savedRuns : IsLatest(r)
  /\ \A r \in savedRuns :
       IsLatest(r) /\ r \notin overlapped => \A d \in Dates : d >= today => rows[d] \in {r, 0}

(* ... and so of the run a page has read, until a save comes between its reads. *)
ReadingFits(o) ==
  reading[o].on /\ ~torn[o] /\ reading[o].run \notin overlapped =>
    \A d \in Dates : d >= today => rows[d] \in {reading[o].run, 0}

ForecastInv ==
  /\ ForecastTypeOK
  /\ savedRuns \subseteq 1 .. made
  /\ \A o \in Owners : SaverFits(saver[o])
  /\ \A o, p \in Owners :
       saver[o].at = "saving" /\ saver[p].at = "saving" /\ o # p => saver[o].run # saver[p].run
  /\ DaysFit
  /\ \A o \in Owners : ReadingFits(o)
  /\ DaysOfTheirRun

Saver == [at : {"idle", "asking", "got", "saving"}, start : Dates, run : Runs \cup {0}, next : Dates]
PanelShown == [open : BOOLEAN, run : Runs \cup {0}, days : [Dates -> Runs \cup {0}]]

(* Today and the days of a run made today are dates. *)
LEMMA DatesAreNaturals ==
  /\ LastDay \in Nat /\ RunDays \in Nat \ {0} /\ MaxRuns \in Nat
  /\ \A d \in 0 .. LastDay : d \in Dates /\ d + RunDays \in Dates
  /\ Dates \subseteq Nat /\ Runs \subseteq Nat \ {0}
BY ForecastAssumption DEF Dates, Runs

(* Nothing saved, asked for or shown. *)
LEMMA NoForecast ==
  NoDays \in [Dates -> Runs \cup {0}] /\ NoSaver \in Saver /\ NoPanel \in PanelShown
<1>1. 0 \in Dates
  BY DatesAreNaturals
<1> QED BY <1>1 DEF NoDays, NoSaver, NoPanel, Saver, PanelShown

(* It holds at the start. *)
LEMMA ForecastInvInit == ForecastInit => ForecastInv
<1> SUFFICES ASSUME ForecastInit PROVE ForecastInv
  OBVIOUS
<1> USE DEF ForecastInit
<1>1. ForecastTypeOK
  <2>1. 0 \in 0 .. LastDay /\ 0 \in 0 .. MaxRuns
    BY DatesAreNaturals
  <2>2. torn \in [Owners -> BOOLEAN] /\ busyPanel \in [Owners -> BOOLEAN]
    OBVIOUS
  <2> QED BY <2>1, <2>2, NoForecast DEF ForecastTypeOK, Saver, PanelShown
<1>2. \A o \in Owners : SaverFits(saver[o]) /\ saver[o].at = "idle" /\ ReadingFits(o) /\ ~panel[o].open
  BY DEF SaverFits, NoSaver, ReadingFits, NoPanel
<1>3. DaysFit
  BY DEF DaysFit, NoDays
<1> QED BY <1>1, <1>2, <1>3 DEF ForecastInv, DaysOfTheirRun

(* A request that begins, goes on or ends without a run being saved: rows and runs stay. *)
LEMMA SaverStepKeeps ==
  ASSUME ForecastInv, NEW o \in Owners, NEW t \in Saver,
         saver' = [saver EXCEPT ![o] = t],
         SaverFits(t), t.at = "saving" => saver[o].at = "saving" /\ t.run = saver[o].run,
         UNCHANGED <<today, made, savedRuns, rows, panel, reading, overlapped, torn>>,
         busyPanel' \in [Owners -> BOOLEAN]
  PROVE  ForecastInv'
<1>1. saver' \in [Owners -> Saver] /\ \A p \in Owners : saver'[p] = IF p = o THEN t ELSE saver[p]
  BY DEF ForecastInv, ForecastTypeOK, Saver
<1>2. ForecastTypeOK'
  BY <1>1 DEF ForecastInv, ForecastTypeOK, Saver
<1>3. ASSUME NEW p \in Owners PROVE SaverFits(saver[p])'
  <2> PICK s : s = saver'[p]
    OBVIOUS
  <2>1. SaverFits(s)
    BY <1>1 DEF ForecastInv
  <2> QED BY <2>1 DEF SaverFits
<1>4. ASSUME NEW p \in Owners, NEW q \in Owners,
             saver'[p].at = "saving", saver'[q].at = "saving", p # q
      PROVE  saver'[p].run # saver'[q].run
  BY <1>1, <1>4 DEF ForecastInv
<1>5. DaysFit' /\ DaysOfTheirRun' /\ \A p \in Owners : ReadingFits(p)'
  BY DEF ForecastInv, DaysFit, IsLatest, DaysOfTheirRun, ReadingFits
<1> QED BY <1>2, <1>3, <1>4, <1>5 DEF ForecastInv

(* The day changes: what was saved stays of its run. *)
LEMMA ForecastMidnight == ForecastInv /\ Midnight => ForecastInv'
<1> SUFFICES ASSUME ForecastInv, Midnight PROVE ForecastInv'
  OBVIOUS
<1> USE DEF Midnight
<1>1. today \in 0 .. LastDay /\ today' \in 0 .. LastDay /\ today' = today + 1 /\ RunDays \in Nat
  BY DatesAreNaturals DEF ForecastInv, ForecastTypeOK
<1>2. ForecastTypeOK'
  BY <1>1 DEF ForecastInv, ForecastTypeOK
<1>3. ASSUME NEW o \in Owners PROVE SaverFits(saver[o])'
  <2>1. SaverFits(saver[o]) /\ (saver[o].at # "idle" => saver[o].start = today)
    BY DEF ForecastInv
  <2> QED BY <1>1, <2>1 DEF SaverFits
<1>4. DaysFit'
  BY <1>1, DatesAreNaturals DEF ForecastInv, DaysFit, IsLatest
<1>5. \A o \in Owners : ReadingFits(o)'
  BY DEF ReadingFits
<1>6. DaysOfTheirRun'
  BY DEF ForecastInv, DaysOfTheirRun
<1> QED BY <1>2, <1>3, <1>4, <1>5, <1>6 DEF ForecastInv

(* The panel reads the run, then its rows. *)
LEMMA ForecastReads ==
  ASSUME ForecastInv, NEW o \in Owners, ReadRun(o) \/ ReadRows(o)
  PROVE  ForecastInv'
<1>1. UNCHANGED <<today, made, savedRuns, rows, saver, overlapped>>
  BY DEF ReadRun, ReadRows
<1>2. (\A p \in Owners : SaverFits(saver[p])') /\ DaysFit'
  BY <1>1 DEF ForecastInv, SaverFits, DaysFit, IsLatest
<1>3. CASE ReadRun(o)
  <2>1. LatestRun \in Runs \cup {0} /\ (savedRuns # {} => LatestRun \in savedRuns /\ IsLatest(LatestRun))
        /\ (savedRuns = {} => LatestRun = 0)
    BY DEF LatestRun, ForecastInv, DaysFit, IsLatest, ForecastTypeOK
  <2>2. /\ reading' = [reading EXCEPT ![o] = [on |-> TRUE, run |-> LatestRun]]
        /\ panel' = [panel EXCEPT ![o] = NoPanel]
        /\ busyPanel' = [busyPanel EXCEPT ![o] = FALSE] /\ torn' = [torn EXCEPT ![o] = FALSE]
    BY <1>3 DEF ReadRun
  <2> HIDE DEF LatestRun
  <2>3. ForecastTypeOK'
    <3>1. busyPanel' \in [Owners -> BOOLEAN] /\ torn' \in [Owners -> BOOLEAN]
      BY <2>2 DEF ForecastInv, ForecastTypeOK
    <3> QED BY <1>1, <2>1, <2>2, <3>1, NoForecast DEF ForecastInv, ForecastTypeOK, PanelShown
  <2>4. ASSUME NEW p \in Owners PROVE ReadingFits(p)'
    <3>1. CASE p = o
      BY <1>1, <2>1, <2>2, <3>1 DEF ForecastInv, ForecastTypeOK, ReadingFits, DaysFit
    <3>2. CASE p # o
      BY <1>1, <2>2, <3>2 DEF ForecastInv, ForecastTypeOK, ReadingFits
    <3> QED BY <3>1, <3>2
  <2>5. DaysOfTheirRun'
    BY <1>1, <2>2 DEF ForecastInv, ForecastTypeOK, DaysOfTheirRun, NoPanel
  <2> QED BY <1>1, <1>2, <2>3, <2>4, <2>5 DEF ForecastInv
<1>4. CASE ReadRows(o)
  <2> DEFINE days == FromToday(rows)
  <2>1. /\ panel' = [panel EXCEPT ![o] = [open |-> TRUE, run |-> reading[o].run, days |-> days]]
        /\ reading' = [reading EXCEPT ![o] = [on |-> FALSE, run |-> 0]]
        /\ UNCHANGED <<busyPanel, torn>> /\ reading[o].on
    BY <1>4 DEF ReadRows
  <2>2. days \in [Dates -> Runs \cup {0}] /\ \A d \in Dates : days[d] # 0 => d >= today /\ days[d] = rows[d]
    BY DatesAreNaturals DEF FromToday, ForecastInv, ForecastTypeOK
  <2> HIDE DEF days
  <2>3. ForecastTypeOK'
    BY <1>1, <2>1, <2>2 DEF ForecastInv, ForecastTypeOK
  <2>4. \A p \in Owners : ReadingFits(p)'
    BY <1>1, <2>1 DEF ForecastInv, ForecastTypeOK, ReadingFits
  <2>5. DaysOfTheirRun'
    <3> SUFFICES ASSUME NEW p \in Owners, panel'[p].open, ~torn[p], panel'[p].run \notin overlapped,
                        NEW d \in Dates
                 PROVE  panel'[p].days[d] \in {panel'[p].run, 0}
      BY <1>1, <2>1 DEF DaysOfTheirRun
    <3>1. CASE p = o
      <4>1. panel'[p].run = reading[o].run /\ panel'[p].days = days
        BY <2>1, <3>1 DEF ForecastInv, ForecastTypeOK
      <4>2. d >= today => rows[d] \in {reading[o].run, 0}
        BY <2>1, <3>1, <4>1 DEF ForecastInv, ReadingFits
      <4> QED BY <2>2, <4>1, <4>2
    <3>2. CASE p # o
      BY <2>1, <3>2 DEF ForecastInv, ForecastTypeOK, DaysOfTheirRun
    <3> QED BY <3>1, <3>2
  <2> QED BY <1>1, <1>2, <2>3, <2>4, <2>5 DEF ForecastInv
<1> QED BY <1>3, <1>4

(* A refresh asks the service and saves a day of the answer, or fails and saves nothing. *)
LEMMA ForecastAsks ==
  ASSUME ForecastInv, NEW o \in Owners,
         \/ Refresh(o) \/ ServiceAnswers(o) \/ ServiceFails(o) \/ UpsertDay(o) \/ SaveRollsBack(o)
  PROVE  ForecastInv'
<1>1. saver[o] \in Saver /\ SaverFits(saver[o])
  BY DEF ForecastInv, ForecastTypeOK, Saver
<1>2. today \in 0 .. LastDay /\ today \in Dates /\ RunDays \in Nat
  BY DatesAreNaturals DEF ForecastInv, ForecastTypeOK
<1>3. CASE Refresh(o)
  <2> DEFINE t == [NoSaver EXCEPT !.at = "asking", !.start = today, !.next = today]
  <2>1. t \in Saver /\ t.at = "asking" /\ t.start = today /\ t.next = today
    BY <1>2, NoForecast DEF Saver, NoSaver
  <2> HIDE DEF t
  <2>2. SaverFits(t)
    BY <1>2, <2>1 DEF SaverFits
  <2>3. busyPanel' \in [Owners -> BOOLEAN] /\ saver' = [saver EXCEPT ![o] = t]
    BY <1>3 DEF Refresh, ForecastInv, ForecastTypeOK, t
  <2> QED BY <1>3, <2>1, <2>2, <2>3, SaverStepKeeps DEF Refresh
<1>4. CASE ServiceAnswers(o)
  <2> DEFINE t == [saver[o] EXCEPT !.at = "got"]
  <2>1. /\ t \in Saver /\ t.at = "got" /\ t.start = saver[o].start /\ t.next = saver[o].next
        /\ saver[o].at = "asking"
    BY <1>1, <1>4 DEF Saver, ServiceAnswers
  <2>2. busyPanel' \in [Owners -> BOOLEAN] /\ saver' = [saver EXCEPT ![o] = t]
    BY <1>4 DEF ServiceAnswers, ForecastInv, ForecastTypeOK
  <2> HIDE DEF t
  <2>3. SaverFits(t)
    BY <1>1, <2>1 DEF SaverFits
  <2> QED BY <1>4, <2>1, <2>2, <2>3, SaverStepKeeps DEF ServiceAnswers
<1>5. CASE ServiceFails(o) \/ SaveRollsBack(o)
  <2>1. SaverFits(NoSaver) /\ NoSaver \in Saver /\ NoSaver.at = "idle"
    BY NoForecast DEF SaverFits, NoSaver
  <2>2. /\ busyPanel' \in [Owners -> BOOLEAN] /\ saver' = [saver EXCEPT ![o] = NoSaver]
        /\ UNCHANGED <<today, made, savedRuns, rows, panel, reading, overlapped, torn>>
    BY <1>5 DEF ServiceFails, SaveRollsBack, Stops, ForecastInv, ForecastTypeOK
  <2> QED BY <2>1, <2>2, SaverStepKeeps
<1>6. CASE UpsertDay(o)
  <2> DEFINE t == [saver[o] EXCEPT !.next = saver[o].next + 1]
  <2>1. /\ saver[o].at = "saving" /\ saver[o].next < saver[o].start + RunDays
        /\ saver' = [saver EXCEPT ![o] = t]
        /\ UNCHANGED <<today, made, savedRuns, rows, panel, reading, busyPanel, overlapped, torn>>
    BY <1>6 DEF UpsertDay, Kept, ForecastInv, ForecastTypeOK
  <2>2. saver[o].start \in 0 .. LastDay /\ saver[o].next \in Nat
    BY <1>1, <1>2, <2>1, DatesAreNaturals DEF SaverFits, Saver
  <2>3. saver[o].next + 1 \in Dates /\ saver[o].next + 1 \in saver[o].start .. saver[o].start + RunDays
    BY <1>1, <1>2, <2>1, <2>2, DatesAreNaturals DEF SaverFits, Dates
  <2>4. /\ t \in Saver /\ t.at = "saving" /\ t.run = saver[o].run /\ t.start = saver[o].start
        /\ t.next = saver[o].next + 1
    BY <1>1, <2>1, <2>3 DEF Saver
  <2> HIDE DEF t
  <2>5. SaverFits(t)
    BY <1>1, <2>1, <2>3, <2>4 DEF SaverFits
  <2>6. busyPanel' \in [Owners -> BOOLEAN]
    BY <2>1 DEF ForecastInv, ForecastTypeOK
  <2> QED BY <2>1, <2>4, <2>5, <2>6, SaverStepKeeps
<1> QED BY <1>3, <1>4, <1>5, <1>6

(* A new run is the last one; every run being saved meanwhile has been crossed, and so
   is it, unless it is the only one and of the day. *)
LEMMA ForecastCreates ==
  ASSUME ForecastInv, NEW o \in Owners, CreateRun(o)
  PROVE  ForecastInv'
<1> DEFINE t == [saver[o] EXCEPT !.at = "saving", !.run = made + 1]
<1>1. /\ saver[o] \in Saver /\ SaverFits(saver[o]) /\ saver[o].at = "got"
      /\ saver' = [saver EXCEPT ![o] = t]
      /\ made < MaxRuns /\ made' = made + 1
      /\ UNCHANGED <<today, savedRuns, rows, panel, reading, busyPanel, torn>>
  BY DEF ForecastInv, ForecastTypeOK, CreateRun, Saver
<1>2. /\ made \in 0 .. MaxRuns /\ made' \in 0 .. MaxRuns /\ made' \in Runs
      /\ today \in 0 .. LastDay /\ RunDays \in Nat
  BY <1>1, DatesAreNaturals DEF ForecastInv, ForecastTypeOK, Runs
<1>3. /\ t \in Saver /\ t.at = "saving" /\ t.run = made' /\ t.start = saver[o].start
      /\ t.next = saver[o].next
  BY <1>1, <1>2 DEF Saver
<1> HIDE DEF t
<1>4. \A p \in Owners : saver'[p] = IF p = o THEN t ELSE saver[p]
  BY <1>1 DEF ForecastInv, ForecastTypeOK
<1>5. overlapped' = overlapped \cup {saver[p].run : p \in Saving}
                     \cup (IF Saving = {} /\ saver[o].start = today THEN {} ELSE {made'})
  BY <1>1 DEF CreateRun
<1>6. ASSUME NEW p \in Saving
      PROVE  p \in Owners /\ p # o /\ saver[p].at = "saving" /\ saver[p].run \in 1 .. made /\ SaverFits(saver[p])
  BY <1>1 DEF Saving, ForecastInv, SaverFits
<1>7. overlapped \subseteq overlapped' /\ overlapped' \subseteq Runs
  <2>1. overlapped \subseteq Runs
    BY DEF ForecastInv, ForecastTypeOK
  <2>2. \A p \in Saving : saver[p].run \in Runs
    BY <1>2, <1>6, DatesAreNaturals DEF Runs
  <2> QED BY <1>2, <1>5, <2>1, <2>2
<1>8. ForecastTypeOK'
  BY <1>1, <1>2, <1>3, <1>7 DEF ForecastInv, ForecastTypeOK, Saver
<1>9. ASSUME NEW p \in Owners PROVE SaverFits(saver[p])'
  <2>1. CASE p = o
    <3>1. made' \notin overlapped' => Saving = {} /\ saver[o].start = today
      BY <1>5
    <3>2. made' \notin overlapped' => \A d \in Dates : rows[d] # 0 => d < t.start + RunDays
      BY <1>3, <3>1 DEF ForecastInv, DaysFit
    <3> QED BY <1>1, <1>2, <1>3, <1>4, <2>1, <3>2 DEF SaverFits
  <2>2. CASE p # o
    <3>1. saver'[p] = saver[p] /\ SaverFits(saver[p])
      BY <1>4, <2>2 DEF ForecastInv
    <3>2. CASE saver[p].at = "saving"
      <4>1. p \in Saving /\ Saving # {}
        BY <3>2 DEF Saving
      <4>2. saver[p].run \in overlapped' /\ made' \in overlapped'
        BY <1>5, <4>1
      <4> QED BY <1>1, <1>2, <1>7, <3>1, <4>2 DEF SaverFits
    <3>3. CASE saver[p].at # "saving"
      BY <1>1, <3>1, <3>3 DEF SaverFits
    <3> QED BY <3>2, <3>3
  <2> QED BY <2>1, <2>2
<1>10. ASSUME NEW p \in Owners, NEW q \in Owners,
              saver'[p].at = "saving", saver'[q].at = "saving", p # q
       PROVE  saver'[p].run # saver'[q].run
  <2>1. \A x \in Owners : x # o /\ saver[x].at = "saving" => saver[x].run \in 1 .. made
    BY DEF ForecastInv, SaverFits
  <2> QED BY <1>1, <1>2, <1>3, <1>4, <1>10, <2>1 DEF ForecastInv
<1>11. DaysFit' /\ DaysOfTheirRun' /\ \A p \in Owners : ReadingFits(p)'
  <2>1. DaysFit'
    BY <1>1, <1>7 DEF ForecastInv, DaysFit, IsLatest
  <2>2. DaysOfTheirRun'
    BY <1>1, <1>7 DEF ForecastInv, DaysOfTheirRun
  <2>3. \A p \in Owners : ReadingFits(p)'
    BY <1>1, <1>7 DEF ForecastInv, ReadingFits
  <2> QED BY <2>1, <2>2, <2>3
<1>12. savedRuns' \subseteq 1 .. made'
  BY <1>1, <1>2 DEF ForecastInv
<1> QED BY <1>8, <1>9, <1>10, <1>11, <1>12 DEF ForecastInv

(* A commit puts the rows of its own days in place of all that were there, or it was
   crossed. *)
LEMMA ForecastCommits ==
  ASSUME ForecastInv, NEW o \in Owners, Commit(o)
  PROVE  ForecastInv'
<1> DEFINE s == saver[o]
           own == [d \in Dates |-> IF d >= s.start /\ d < s.start + RunDays THEN s.run ELSE 0]
<1>1. /\ s \in Saver /\ SaverFits(s) /\ s.at = "saving"
      /\ savedRuns' = savedRuns \cup {s.run}
      /\ rows' = [d \in Dates |-> IF own[d] # 0 THEN s.run ELSE rows[d]]
      /\ saver' = [saver EXCEPT ![o] = NoSaver]
      /\ panel' = IF busyPanel[o] THEN [panel EXCEPT ![o] = [open |-> TRUE, run |-> s.run, days |-> own]]
                  ELSE panel
      /\ busyPanel' = [busyPanel EXCEPT ![o] = FALSE]
      /\ torn' = [p \in Owners |-> IF reading[p].on THEN TRUE
                                   ELSE IF p = o /\ busyPanel[o] THEN FALSE ELSE torn[p]]
      /\ UNCHANGED <<today, made, reading, overlapped>>
  BY DEF ForecastInv, ForecastTypeOK, Saver, Commit
<1>2. /\ made \in 0 .. MaxRuns /\ today \in 0 .. LastDay /\ RunDays \in Nat /\ Dates \subseteq Nat
      /\ s.run \in 1 .. made /\ s.run \in Runs /\ s.run # 0 /\ s.start \in Dates
  BY <1>1, DatesAreNaturals DEF ForecastInv, ForecastTypeOK, SaverFits, Saver, Runs
<1>3. /\ own \in [Dates -> Runs \cup {0}]
      /\ \A d \in Dates : own[d] \in {s.run, 0}
      /\ \A d \in Dates : own[d] # 0 <=> d >= s.start /\ d < s.start + RunDays
  BY <1>2
<1>4. \A p \in Owners : saver'[p] = IF p = o THEN NoSaver ELSE saver[p]
  BY <1>1 DEF ForecastInv, ForecastTypeOK
<1> HIDE DEF own
<1>5. rows' \in [Dates -> Runs \cup {0}] /\ \A d \in Dates : rows'[d] = IF own[d] # 0 THEN s.run ELSE rows[d]
  BY <1>1, <1>2 DEF ForecastInv, ForecastTypeOK
<1>6. ForecastTypeOK'
  <2>1. torn' \in [Owners -> BOOLEAN] /\ busyPanel' \in [Owners -> BOOLEAN]
    <3>1. torn \in [Owners -> BOOLEAN] /\ busyPanel \in [Owners -> BOOLEAN]
      BY DEF ForecastInv, ForecastTypeOK
    <3>2. \A p \in Owners : torn'[p] \in BOOLEAN
      BY <1>1, <3>1
    <3> QED BY <1>1, <3>1, <3>2
  <2>2. panel' \in [Owners -> PanelShown]
    BY <1>1, <1>2, <1>3 DEF ForecastInv, ForecastTypeOK, PanelShown
  <2>3. saver' \in [Owners -> Saver]
    BY <1>1, NoForecast DEF ForecastInv, ForecastTypeOK, Saver
  <2>4. savedRuns' \subseteq Runs
    BY <1>1, <1>2 DEF ForecastInv, ForecastTypeOK
  <2> QED BY <1>1, <1>5, <2>1, <2>2, <2>3, <2>4 DEF ForecastInv, ForecastTypeOK, Saver, PanelShown
<1>7. ASSUME NEW p \in Owners PROVE SaverFits(saver[p])'
  <2>1. CASE p = o
    BY <1>4, <2>1 DEF SaverFits, NoSaver
  <2>2. CASE p # o
    <3>1. saver'[p] = saver[p] /\ SaverFits(saver[p])
      BY <1>4, <2>2 DEF ForecastInv
    <3>2. ASSUME saver[p].at = "saving" PROVE saver[p].run \in overlapped
      <4>1. saver[p].run # s.run /\ saver[p].run \in 1 .. made
        BY <1>1, <2>2, <3>1, <3>2 DEF ForecastInv, SaverFits
      <4> QED BY <1>1, <1>2, <3>1, <3>2, <4>1 DEF SaverFits
    <3> QED BY <1>1, <3>1, <3>2 DEF SaverFits
  <2> QED BY <2>1, <2>2
<1>8. DaysFit'
  <2>1. ASSUME NEW d \in Dates, rows'[d] # 0 PROVE d < today + RunDays /\ savedRuns' # {}
    <3>1. s.start <= today /\ s.start \in Nat
      BY <1>1, <1>2 DEF SaverFits
    <3>2. CASE own[d] # 0
      BY <1>1, <1>2, <1>3, <3>1, <3>2
    <3>3. CASE own[d] = 0
      BY <1>1, <1>5, <2>1, <3>3 DEF ForecastInv, DaysFit
    <3> QED BY <3>2, <3>3
  <2>2. \E r \in savedRuns' : IsLatest(r)'
    <3>1. savedRuns \subseteq Nat
      BY <1>2 DEF ForecastInv
    <3>2. CASE savedRuns = {}
      BY <1>1, <1>2, <3>2 DEF IsLatest
    <3>3. CASE savedRuns # {}
      <4>1. PICK r \in savedRuns : IsLatest(r)
        BY <3>3 DEF ForecastInv, DaysFit
      <4>2. CASE r >= s.run
        BY <1>1, <1>2, <3>1, <4>1, <4>2 DEF IsLatest
      <4>3. CASE ~(r >= s.run)
        BY <1>1, <1>2, <3>1, <4>1, <4>3 DEF IsLatest
      <4> QED BY <4>2, <4>3
    <3> QED BY <3>2, <3>3
  <2>3. ASSUME NEW r \in savedRuns', IsLatest(r)', r \notin overlapped, NEW d \in Dates, d >= today
        PROVE  rows'[d] \in {r, 0}
    <3>1. r >= s.run /\ r \in 1 .. made
      BY <1>1, <1>2, <2>3 DEF ForecastInv, IsLatest
    <3>2. r = s.run
      BY <1>1, <1>2, <2>3, <3>1 DEF SaverFits
    <3>3. rows[d] # 0 => d < s.start + RunDays
      BY <1>1, <2>3, <3>2 DEF SaverFits
    <3>4. s.start <= d
      BY <1>1, <1>2, <2>3 DEF SaverFits
    <3> QED BY <1>2, <1>3, <1>5, <3>2, <3>3, <3>4
  <2> QED BY <1>1, <2>1, <2>2, <2>3 DEF DaysFit
<1>9. ASSUME NEW p \in Owners PROVE ReadingFits(p)'
  BY <1>1 DEF ReadingFits
<1>10. DaysOfTheirRun'
  <2> SUFFICES ASSUME NEW p \in Owners, panel'[p].open, ~torn'[p], panel'[p].run \notin overlapped,
                      NEW d \in Dates
               PROVE  panel'[p].days[d] \in {panel'[p].run, 0}
    BY <1>1 DEF DaysOfTheirRun
  <2>1. CASE p = o /\ busyPanel[o]
    <3>1. panel'[p].days = own /\ panel'[p].run = s.run
      BY <1>1, <2>1 DEF ForecastInv, ForecastTypeOK
    <3> QED BY <1>3, <3>1
  <2>2. CASE ~(p = o /\ busyPanel[o])
    <3>1. panel'[p] = panel[p] /\ ~torn[p]
      BY <1>1, <2>2 DEF ForecastInv, ForecastTypeOK
    <3> QED BY <3>1 DEF ForecastInv, DaysOfTheirRun
  <2> QED BY <2>1, <2>2
<1>11. savedRuns' \subseteq 1 .. made'
  BY <1>1, <1>2 DEF ForecastInv
<1>12. ASSUME NEW p \in Owners, NEW q \in Owners,
              saver'[p].at = "saving", saver'[q].at = "saving", p # q
       PROVE  saver'[p].run # saver'[q].run
  BY <1>4, <1>12 DEF ForecastInv, NoSaver
<1> QED BY <1>6, <1>7, <1>8, <1>9, <1>10, <1>11, <1>12 DEF ForecastInv

(* Every step keeps the invariant. *)
LEMMA ForecastInvStep == ForecastInv /\ [ForecastNext]_forecastVars => ForecastInv'
<1>1. ASSUME ForecastInv, UNCHANGED forecastVars PROVE ForecastInv'
  BY <1>1 DEF forecastVars, ForecastInv, ForecastTypeOK, SaverFits, DaysFit, IsLatest, ReadingFits,
     DaysOfTheirRun
<1> QED
  BY <1>1, ForecastMidnight, ForecastReads, ForecastAsks, ForecastCreates, ForecastCommits DEF ForecastNext

(* The days a page shows are those of the run it names, never half of a failed save, for
   any number of owners and refreshes, but for saves that crossed and a save between a
   page's two reads. *)
THEOREM DaysAreOfTheirRun == ForecastSpec => []DaysOfTheirRun
<1>1. ForecastInv => DaysOfTheirRun
  BY DEF ForecastInv
<1> QED BY <1>1, ForecastInvInit, ForecastInvStep, PTL DEF ForecastSpec

-----------------------------------------------------------------------------
(* Paydays *)

(* A month has 28 to 31 days; the second payday is one of them, and comes after the first. *)
LEMMA MonthLengths ==
  ASSUME NEW y, NEW m
  PROVE  /\ MonthLength(y, m) \in 28 .. 31
         /\ SecondPayday(y, m) \in 28 .. MonthLength(y, m)
BY DEF MonthLength, SecondPayday

(* The years looked at lie between the first and the last. *)
LEMMA YearsInRange ==
  /\ Min(Years) \in Nat \ {0} /\ Max(Years) \in Nat
  /\ \A y \in Years : y \in Nat /\ Min(Years) <= y /\ y <= Max(Years)
<1>1. Years \subseteq Int /\ IsFiniteSet(Years) /\ Years # {}
  BY YearsAssumption
<1>2. Min(Years) \in Years /\ Max(Years) \in Years
      /\ \A y \in Years : Min(Years) <= y /\ y <= Max(Years)
  BY <1>1, MinOfFinite, MaxOfFinite
<1> QED BY <1>2, YearsAssumption

(* The months looked at: finitely many, with years that are numbers. *)
LEMMA MonthsAreFinite ==
  /\ IsFiniteSet(Months)
  /\ \A M \in Months : M[1] \in Nat /\ M[2] \in 1 .. 12 /\ M = <<M[1], M[2]>>
<1>1. Min(Years) - 1 \in Int /\ Max(Years) \in Int /\ 1 \in Int /\ 12 \in Int
  BY YearsInRange
<1>2. IsFiniteSet(Min(Years) - 1 .. Max(Years)) /\ IsFiniteSet(1 .. 12)
  BY ONLY <1>1, FS_Interval
<1>3. IsFiniteSet(Months)
  BY <1>2, FS_Product DEF Months
<1> QED BY <1>3, YearsInRange DEF Months

(* Each month with its days. *)
Length == [n \in Months |-> MonthLength(n[1], n[2])]

(* The days before a month, as the sum of the lengths of the months before it. *)
LEMMA DaysAreSum ==
  ASSUME NEW h, IsSum(h, Length, Months), NEW M \in Months
  PROVE  DaysBefore[M] = h[Before(M)]
<1> DEFINE S == Before(M)
           g == [n \in S |-> Length[n]]
           Adds(i) == i = [s \in SUBSET S |->
                             IF s = {} THEN 0
                             ELSE LET x == CHOOSE x \in s : TRUE
                                  IN  MonthLength(x[1], x[2]) + i[s \ {x}]]
           i == CHOOSE i : Adds(i)
<1>1. DaysBefore[M] = i[S]
  BY DEF DaysBefore, MapThenSumSet, MapThenFoldSet
<1>2. Length \in [Months -> Nat]
  BY MonthLengths DEF Length
<1>3. S \in SUBSET Months
  BY DEF Before
<1>4. g \in [S -> Nat] /\ \A x \in S : Length[x] = g[x]
  <2> HIDE DEF S
  <2> QED BY <1>2, <1>3
<1>5. IsFiniteSet(S)
  BY <1>3, MonthsAreFinite, FS_Subset
<1>6. ASSUME NEW j PROVE Adds(j) <=> Folds(j, g, S)
  <2>1. ASSUME NEW s \in SUBSET S, s # {}
        PROVE  g[CHOOSE x \in s : TRUE]
                 = MonthLength((CHOOSE x \in s : TRUE)[1], (CHOOSE x \in s : TRUE)[2])
    <3>1. (CHOOSE x \in s : TRUE) \in s
      BY <2>1
    <3> HIDE DEF S
    <3> QED BY <1>3, <3>1 DEF Length
  <2>2. ASSUME NEW s \in SUBSET S
        PROVE  (IF s = {} THEN 0
                ELSE LET x == CHOOSE x \in s : TRUE
                     IN  MonthLength(x[1], x[2]) + j[s \ {x}])
             = (IF s = {} THEN 0
                ELSE g[CHOOSE x \in s : TRUE] + j[s \ {CHOOSE x \in s : TRUE}])
    <3> HIDE DEF g, S
    <3>1. CASE s = {}
      BY <3>1
    <3>2. CASE s # {}
      BY <2>1, <3>2
    <3> QED BY <3>1, <3>2
  <2> HIDE DEF g, S
  <2> QED BY <2>2 DEF Folds
<1> HIDE DEF i, g, S
<1>7. \E j : Adds(j)
  <2> HIDE DEF Adds
  <2> QED BY <1>4, <1>5, <1>6, FoldExists
<1>8. Adds(i)
  <2> HIDE DEF Adds
  <2> QED BY <1>7 DEF i
<1> HIDE DEF Adds
<1>9. IsSum(i, g, S)
  BY <1>4, <1>5, <1>6, <1>8, FoldIsSum
<1>10. i[S] = h[S]
  BY <1>2, <1>3, <1>4, <1>9, MonthsAreFinite, SumOfPart
<1> QED BY <1>1, <1>10 DEF S

(* The month before, its last day, and what comes before what. *)
Previous(M) == IF M[2] > 1 THEN <<M[1], M[2] - 1>> ELSE <<M[1] - 1, 12>>
Ends(M) == DaysBefore[M] + MonthLength(M[1], M[2])
IsBefore(N, M) == N[1] < M[1] \/ (N[1] = M[1] /\ N[2] < M[2])

(* A month that comes before another ends before it starts; the month before ends the day
   before. *)
LEMMA MonthsInOrder ==
  /\ \A M \in Months : DaysBefore[M] \in Nat
  /\ \A N, M \in Months : IsBefore(N, M) => Ends(N) <= DaysBefore[M]
  /\ \A N, M \in Months : N = Previous(M) => Ends(N) = DaysBefore[M]
<1>1. PICK h : IsSum(h, Length, Months)
  BY MonthsAreFinite, SumExists, MonthLengths DEF Length
<1>2. \A M \in Months : DaysBefore[M] = h[Before(M)] /\ Before(M) \in SUBSET Months
  BY <1>1, DaysAreSum DEF Before
<1>3. \A M \in Months : DaysBefore[M] \in Nat
  BY <1>1, <1>2 DEF IsSum
<1>4. ASSUME NEW N \in Months PROVE h[Before(N) \cup {N}] = Ends(N)
  <2>1. N \notin Before(N) /\ Before(N) \cup {N} \in SUBSET Months
    BY MonthsAreFinite DEF Before
  <2>2. h[Before(N) \cup {N}] = Length[N] + h[(Before(N) \cup {N}) \ {N}]
    BY <1>1, <2>1 DEF IsSum
  <2>3. (Before(N) \cup {N}) \ {N} = Before(N)
    BY <2>1
  <2>4. Length[N] = MonthLength(N[1], N[2]) /\ MonthLength(N[1], N[2]) \in Nat
    BY MonthLengths DEF Length
  <2>5. DaysBefore[N] = h[Before(N)] /\ DaysBefore[N] \in Nat
    BY <1>2, <1>3
  <2> HIDE DEF Length
  <2> QED BY ONLY <2>2, <2>3, <2>4, <2>5 DEF Ends
<1>5. ASSUME NEW N \in Months, NEW M \in Months, IsBefore(N, M) PROVE Ends(N) <= DaysBefore[M]
  <2>1. Before(N) \cup {N} \in SUBSET Before(M)
    BY <1>5, MonthsAreFinite DEF Before, IsBefore
  <2>2. h[Before(N) \cup {N}] <= h[Before(M)]
    BY <1>1, <1>2, <2>1, MonthsAreFinite, MonthLengths, SumOfMore DEF Length
  <2> QED BY <1>2, <1>4, <2>2
<1>6. ASSUME NEW N \in Months, NEW M \in Months, N = Previous(M) PROVE Ends(N) = DaysBefore[M]
  <2>1. Before(M) = Before(N) \cup {N}
    BY <1>6, MonthsAreFinite DEF Before, Previous
  <2> QED BY <1>2, <1>4, <2>1
<1> QED BY <1>3, <1>5, <1>6

(* One month comes before the other; nothing lies between a month and the one before it. *)
LEMMA MonthsCompare ==
  ASSUME NEW M \in Months, NEW N \in Months
  PROVE  /\ IsBefore(N, M) \/ N = M \/ IsBefore(M, N)
         /\ IsBefore(N, M) => N = Previous(M) \/ IsBefore(N, Previous(M))
<1>1. /\ M[1] \in Nat /\ M[2] \in 1 .. 12 /\ M = <<M[1], M[2]>>
      /\ N[1] \in Nat /\ N[2] \in 1 .. 12 /\ N = <<N[1], N[2]>>
  BY MonthsAreFinite
<1>2. IsBefore(N, M) \/ N = M \/ IsBefore(M, N)
  BY <1>1 DEF IsBefore
<1>3. ASSUME IsBefore(N, M) PROVE N = Previous(M) \/ IsBefore(N, Previous(M))
  <2>1. CASE M[2] > 1
    BY <1>1, <1>3, <2>1 DEF IsBefore, Previous
  <2>2. CASE ~(M[2] > 1)
    BY <1>1, <1>3, <2>2 DEF IsBefore, Previous
  <2> QED BY <2>1, <2>2
<1> QED BY <1>2, <1>3

(* The rule of the code finds the latest payday: it is one, and none lies between it and
   the date. *)
LEMMA LatestPayday ==
  ASSUME NEW month \in Years \X (1 .. 12), NEW d \in 1 .. MonthLength(month[1], month[2])
  PROVE  /\ DaysSincePayday(month[1], month[2], d) \in Nat
         /\ \A k \in 0 .. DaysSincePayday(month[1], month[2], d) :
              (DaysBefore[month] + d) - k \in Paydays <=> k = DaysSincePayday(month[1], month[2], d)
<1> DEFINE y == month[1]
           m == month[2]
           M == month
           P == Previous(M)
           since == DaysSincePayday(y, m, d)
           second == SecondPayday(y, m)
           date == DaysBefore[M] + d
<1>1. /\ M \in Months /\ P \in Months /\ M[1] = y /\ M[2] = m
      /\ P = <<P[1], P[2]>> /\ y \in Nat /\ m \in 1 .. 12
  BY YearsInRange DEF Months, Previous
<1>2. /\ MonthLength(y, m) \in 28 .. 31 /\ second \in 28 .. MonthLength(y, m)
      /\ MonthLength(P[1], P[2]) \in 28 .. 31
      /\ SecondPayday(P[1], P[2]) \in 28 .. MonthLength(P[1], P[2])
  BY MonthLengths
<1>3. /\ DaysBefore[M] \in Nat /\ DaysBefore[P] \in Nat
      /\ DaysBefore[P] + MonthLength(P[1], P[2]) = DaysBefore[M]
  BY <1>1, MonthsInOrder DEF Ends
<1> DEFINE last == IF d >= second THEN DaysBefore[M] + second
                   ELSE IF d >= 15 THEN DaysBefore[M] + 15
                   ELSE DaysBefore[P] + SecondPayday(P[1], P[2])
<1>4. since = IF d >= second THEN d - second
              ELSE IF d >= 15 THEN d - 15
              ELSE d + MonthLength(P[1], P[2]) - SecondPayday(P[1], P[2])
  <2>1. P[1] = (IF m > 1 THEN y ELSE y - 1) /\ P[2] = (IF m > 1 THEN m - 1 ELSE 12)
    BY DEF Previous
  <2>2. d \in Int /\ second \in Int
    BY <1>2
  <2> HIDE DEF P
  <2> QED BY <2>1, <2>2 DEF DaysSincePayday
<1>5. last \in Paydays
  <2>1. \A n \in Months : {DaysBefore[n] + 15, DaysBefore[n] + SecondPayday(n[1], n[2])} \subseteq Paydays
    BY DEF Paydays
  <2> HIDE DEF P
  <2> QED BY <1>1, <2>1
<1> HIDE DEF P, since
<1>6. since \in Nat /\ date - since = last /\ last \in Nat /\ last <= date
  BY <1>2, <1>3, <1>4
<1>7. ASSUME NEW q \in Paydays, q > last, q <= date PROVE FALSE
  <2>1. PICK N \in Months : q \in {DaysBefore[N] + 15, DaysBefore[N] + SecondPayday(N[1], N[2])}
    BY DEF Paydays
  <2>2. /\ DaysBefore[N] \in Nat /\ q \in Nat
        /\ DaysBefore[N] + 15 <= q /\ q <= Ends(N)
        /\ SecondPayday(N[1], N[2]) \in 28 .. 31
        /\ q = DaysBefore[N] + 15 \/ q = DaysBefore[N] + SecondPayday(N[1], N[2])
    <3>1. DaysBefore[N] \in Nat /\ MonthLength(N[1], N[2]) \in 28 .. 31
          /\ SecondPayday(N[1], N[2]) \in 28 .. MonthLength(N[1], N[2])
      BY MonthsInOrder, MonthLengths
    <3> QED BY <2>1, <3>1 DEF Ends
  <2>3. CASE IsBefore(M, N)
    <3>1. Ends(M) <= DaysBefore[N]
      BY <1>1, <2>3, MonthsInOrder
    <3> QED BY <1>1, <1>2, <1>3, <1>7, <2>2, <3>1 DEF Ends
  <2>4. CASE N = M
    BY <1>1, <1>2, <1>3, <1>7, <2>2, <2>4
  <2>5. CASE N = P
    BY <1>1, <1>2, <1>3, <1>7, <2>2, <2>5
  <2>6. CASE IsBefore(N, P)
    <3>1. Ends(N) <= DaysBefore[P]
      BY <1>1, <2>6, MonthsInOrder
    <3>2. q <= DaysBefore[P] /\ DaysBefore[P] < last
      <4>1. Ends(N) \in Nat
        <5>1. DaysBefore[N] \in Nat /\ MonthLength(N[1], N[2]) \in 28 .. 31
          BY MonthsInOrder, MonthLengths
        <5> QED BY <5>1 DEF Ends
      <4>2. q <= DaysBefore[P]
        BY ONLY <1>3, <2>2, <3>1, <4>1
      <4> QED BY <1>2, <1>3, <4>2
    <3> QED BY ONLY <1>3, <1>6, <1>7, <2>2, <3>2
  <2> QED BY <1>1, <2>3, <2>4, <2>5, <2>6, MonthsCompare DEF P
<1>8. ASSUME NEW k \in 0 .. since PROVE date - k \in Paydays <=> k = since
  <2>1. date \in Nat
    BY <1>2, <1>3
  <2>2. CASE k = since
    BY <1>5, <1>6, <2>2
  <2>3. CASE k # since
    <3>1. date - k > last /\ date - k <= date
      BY <1>6, <2>1, <2>3
    <3> QED BY <1>7, <2>3, <3>1
  <2> QED BY <2>2, <2>3
<1>9. since \in Nat /\ \A k \in 0 .. since : date - k \in Paydays <=> k = since
  BY <1>6, <1>8
<1> QED BY <1>9 DEF since, date

(* The days since the latest payday, as the forecast's model takes them, are right on every
   date of every year (pipeline.py:144). *)
THEOREM PaydaysAreRight == PaydaysAreLatest
<1> DEFINE since(month, d) == DaysSincePayday(month[1], month[2], d)
           date(month, d) == DaysBefore[month] + d
           Hits(month, d) == {k \in 0 .. since(month, d) : date(month, d) - k \in Paydays}
<1>1. ASSUME NEW month \in Years \X (1 .. 12), NEW d \in 1 .. MonthLength(month[1], month[2])
      PROVE  Hits(month, d) = {since(month, d)}
  <2>1. since(month, d) \in Nat
        /\ \A k \in 0 .. since(month, d) : date(month, d) - k \in Paydays <=> k = since(month, d)
    BY LatestPayday
  <2> HIDE DEF since, date
  <2> QED BY <2>1
<1>2. (\A month \in Years \X (1 .. 12) : \A d \in 1 .. MonthLength(month[1], month[2]) :
         Hits(month, d) = {since(month, d)}) => PaydaysAreLatest
  BY Zenon DEF PaydaysAreLatest
<1> HIDE DEF Hits, since
<1> QED BY <1>1, <1>2

-----------------------------------------------------------------------------
(* Training *)

(* The table that train.py works with, of a logbook it can train on: its open days are past
   days of the logbook with customers, and every test week has enough days before it. *)
TableIsSound(t) ==
  /\ t.open \in SUBSET LogDates /\ t.open # {} /\ t.to = Max(t.open)
  /\ DOMAIN t.customers = t.open
  /\ \A d \in t.open : d >= PostGap /\ t.customers[d] > 0
  /\ \A start \in Starts(t, AnyDate) : ~Untestable(t, start)

(* A training accepts only logbooks with a sound table. *)
LEMMA TrainedTableIsSound ==
  ASSUME NEW book, book.rows \in [LogDates -> Nat], CanTrain(book)
  PROVE  TableIsSound(DailyTable(book))
<1> DEFINE t == DailyTable(book)
<1>1. t.open = HasEntries(book) /\ t.to = DataTo(book) /\ t.customers = [d \in HasEntries(book) |-> book.rows[d]]
  BY DEF DailyTable
<1>2. HasEntries(book) \in SUBSET LogDates /\ HasEntries(book) # {}
      /\ \A d \in HasEntries(book) : d \in LogDates /\ d >= PostGap /\ book.status[d] = "Has entries"
  BY DEF HasEntries, Checkable, CanTrain
<1>3. HasEntries(book) \subseteq Int /\ IsFiniteSet(HasEntries(book))
  <2>1. IsFiniteSet(LogDates) /\ LogDates \subseteq Nat
    BY TrainingAssumption
  <2>2. IsFiniteSet(HasEntries(book))
    BY ONLY <1>2, <2>1, FS_Subset
  <2>3. ASSUME NEW x \in HasEntries(book) PROVE x \in Int
    <3>1. x \in LogDates
      BY <1>2
    <3> QED BY <2>1, <3>1
  <2> QED BY ONLY <2>2, <2>3
<1>4. ASSUME NEW d \in HasEntries(book) PROVE book.rows[d] > 0
  <2>1. d <= DataTo(book)
    BY <1>2, <1>3, MaxOfFinite DEF DataTo
  <2>2. d \in InRange(book)
    BY <1>2, <2>1 DEF InRange
  <2>3. d \notin Problems(book)
    BY DEF CanTrain
  <2>4. book.rows[d] # 0
    BY <1>2, <2>2, <2>3 DEF Problems
  <2>5. book.rows[d] \in Nat
    BY <1>2
  <2> QED BY <2>4, <2>5
<1>5. \A start \in Starts(t, AnyDate) : ~Untestable(t, start)
  BY DEF CanTrain
<1> HIDE DEF t
<1>6. t.to = Max(t.open)
  BY <1>1 DEF DataTo
<1>7. \A d \in t.open : d >= PostGap /\ t.customers[d] > 0
  BY <1>1, <1>2, <1>4
<1>8. DOMAIN t.customers = t.open /\ t.open \in SUBSET LogDates /\ t.open # {}
  BY <1>1, <1>2
<1> QED BY <1>5, <1>6, <1>7, <1>8 DEF TableIsSound, t

(* The weeks of the last days lie apart, and looking at all of them leaves none out. *)
LEMMA StartsLieApart ==
  ASSUME NEW t, t.to \in Nat, NEW from \in Int
  PROVE  /\ Starts(t, from) \subseteq Starts(t, AnyDate) /\ Starts(t, AnyDate) \subseteq Int
         /\ Starts(t, AnyDate) # {}
         /\ \A a, b \in Starts(t, AnyDate) : a # b => a + BlockDays <= b \/ b + BlockDays <= a
<1> DEFINE B == BlockDays
           W == TestWeeks
           Block(k) == t.to - (B * k + B - 1)
<1>1. B \in Nat \ {0} /\ W \in Nat \ {0}
  BY TrainingAssumption
<1>2. ASSUME NEW j \in Nat, NEW k \in Nat, j < k PROVE B * j + B <= B * k
  <2>1. B * (k - j - 1) >= 0
    BY <1>1, <1>2
  <2>2. B * (k - j - 1) = B * k - B * j - B
    BY <1>1, <1>2
  <2>3. B * j \in Int /\ B * k \in Int
    BY <1>1
  <2> QED BY <1>1, <2>1, <2>2, <2>3
<1>3. ASSUME NEW k \in 0 .. W - 1 PROVE B * k \in Int /\ Block(k) \in Int /\ Block(k) >= AnyDate
  <2>1. B * k \in Int /\ W * B \in Int /\ W * B = B * W
    BY <1>1
  <2>2. B * k + B <= B * W
    BY <1>1, <1>2
  <2> QED BY <1>1, <2>1, <2>2 DEF AnyDate
<1>4. \A a \in Starts(t, AnyDate) : \E k \in 0 .. W - 1 : a = Block(k)
  BY DEF Starts
<1>5. \A k \in 0 .. W - 1 : Block(k) \in Starts(t, AnyDate)
  BY <1>3 DEF Starts
<1>6. \A a \in Starts(t, from) : \E k \in 0 .. W - 1 : a = Block(k)
  BY DEF Starts
<1>7. ASSUME NEW j \in 0 .. W - 1, NEW k \in 0 .. W - 1, Block(j) # Block(k)
      PROVE  Block(j) + B <= Block(k) \/ Block(k) + B <= Block(j)
  <2>1. j \in Nat /\ k \in Nat /\ B * j \in Int /\ B * k \in Int
    BY <1>1, <1>3
  <2>2. CASE j < k
    BY <1>1, <1>2, <2>1, <2>2
  <2>3. CASE k < j
    BY <1>1, <1>2, <2>1, <2>3
  <2>4. j # k
    BY <1>7
  <2> QED BY <2>1, <2>2, <2>3, <2>4
<1> HIDE DEF Block
<1>8. 0 \in 0 .. W - 1
  BY ONLY <1>1
<1> QED BY <1>3, <1>4, <1>5, <1>6, <1>7, <1>8

(* The latest days of a set are some of its days, the very last one among them. *)
LEMMA LatestDays ==
  ASSUME NEW S, S \subseteq Int, IsFiniteSet(S), S # {}, NEW n \in Nat \ {0}
  PROVE  Latest(S, n) \subseteq S /\ Latest(S, n) # {} /\ Max(S) \in S
<1>1. Max(S) \in S /\ \A x \in S : x <= Max(S)
  BY MaxOfFinite
<1>2. {e \in S : e > Max(S)} = {}
  <2>1. ASSUME NEW e \in S, e > Max(S) PROVE FALSE
    <3>1. e \in Int /\ Max(S) \in Int /\ e <= Max(S)
      BY <1>1
    <3> QED BY ONLY <2>1, <3>1
  <2> QED BY <2>1
<1>3. Cardinality({e \in S : e > Max(S)}) = 0
  BY <1>2, FS_EmptySet
<1>4. Max(S) \in Latest(S, n)
  BY <1>1, <1>3 DEF Latest
<1> QED BY <1>1, <1>4 DEF Latest

(* The value of a block is of days before its first, which is none of its days' future. *)
LEMMA BlockStartsBefore ==
  ASSUME NEW train, train \subseteq Int, IsFiniteSet(train), NEW d \in train
  PROVE  BlockFirst(train, d) \in Int /\ BlockFirst(train, d) <= d
<1> DEFINE gap == Max(train) - d
           q == gap \div BlockDays
<1>0. Max(train) \in train /\ \A x \in train : x <= Max(train)
  <2>1. train \subseteq Int /\ IsFiniteSet(train) /\ train # {}
    OBVIOUS
  <2> QED BY ONLY <2>1, MaxOfFinite
<1>1. gap \in Nat
  <2>1. Max(train) \in Int /\ d \in Int /\ d <= Max(train)
    BY <1>0
  <2> QED BY ONLY <2>1
<1>2. BlockDays \in Nat \ {0}
  BY TrainingAssumption
<1> HIDE DEF gap
<1>3. q \in Int /\ q * BlockDays \in Int /\ gap < q * BlockDays + BlockDays
  BY <1>1, <1>2
<1>4. BlockFirst(train, d) = Max(train) - (q * BlockDays + BlockDays - 1)
  BY DEF BlockFirst, gap
<1>5. Max(train) \in Int /\ gap = Max(train) - d
  BY <1>0 DEF gap
<1> HIDE DEF q
<1> QED BY <1>2, <1>3, <1>4, <1>5

(* The last-7 value before a date is of days before it. *)
LEMMA Last7IsPast ==
  ASSUME NEW train, train \subseteq Int, NEW before \in Int
  PROVE  \A e \in Last7At(train, before) : e \in train /\ e < before
BY DEF Last7At, Latest

(* What a test week's guesses are made from: past days, and at least one. *)
LEMMA GuessesUseThePast ==
  ASSUME NEW train, train \subseteq Int, IsFiniteSet(train), train # {},
         NEW start \in Int, \A e \in train : e < start,
         WithLast7(train) # {}, NEW d, NEW m \in Methods7
  PROVE  UsedFor(train, d, start)[m] # {} /\ \A e \in UsedFor(train, d, start)[m] : e < start
<1> DEFINE used == UsedFor(train, d, start)[m]
           sameDay == {e \in train : e % WeekLength = d % WeekLength}
<1>1. LastOpen \in Nat \ {0}
  BY TrainingAssumption
<1>2. Latest(train, LastOpen) \subseteq train /\ Latest(train, LastOpen) # {} /\ Max(train) \in train
  BY ONLY <1>1, LatestDays, train \subseteq Int, IsFiniteSet(train), train # {}
<1>3. used # {} /\ used \subseteq train
  <2>1. CASE m \in {"average", "evidence", "random_forest"}
    BY <2>1 DEF UsedFor, Methods7
  <2>2. CASE m = "weekday"
    <3>1. used = IF sameDay = {} THEN train ELSE sameDay
      BY <2>2 DEF UsedFor
    <3> QED BY <3>1
  <2>3. CASE m = "last7"
    <3>1. used = Latest(train, LastOpen)
      BY <2>3 DEF UsedFor
    <3> QED BY <1>2, <3>1
  <2>4. CASE m = "naive"
    <3>1. used = {Max(train)}
      BY <2>4 DEF UsedFor
    <3> QED BY <1>2, <3>1
  <2>5. CASE m = "random_forest_last7"
    <3> DEFINE values == {Last7Values(train)[e] : e \in WithLast7(train)}
    <3>1. used = WithLast7(train) \cup (UNION values) \cup Last7At(train, start)
      BY <2>5 DEF UsedFor
    <3>2. WithLast7(train) \subseteq train
      BY DEF WithLast7
    <3>3. \A before : Last7At(train, before) \subseteq train
      BY DEF Last7At, Latest
    <3>4. \A e \in WithLast7(train) : Last7Values(train)[e] \subseteq train
      BY <3>3 DEF Last7Values
    <3>5. \A v \in values : v \subseteq train
      BY <3>4
    <3> HIDE DEF used, values
    <3>6. WithLast7(train) \subseteq used
      BY <3>1
    <3>7. UNION values \subseteq train /\ Last7At(train, start) \subseteq train
      BY <3>3, <3>5
    <3>8. used # {}
      BY <3>6
    <3>9. \A x \in used : x \in train
      BY ONLY <3>1, <3>2, <3>7
    <3> QED BY ONLY <3>8, <3>9
  <2> HIDE DEF used
  <2> QED BY <2>1, <2>2, <2>3, <2>4, <2>5 DEF Methods7
<1> HIDE DEF used
<1>4. used # {} /\ \A e \in used : e < start
  BY <1>3
<1> QED BY <1>4 DEF used

(* The last-7 input of a training day is of days before it, and before every day that has
   the same input. *)
LEMMA ValuesUseThePast ==
  ASSUME NEW train, train \subseteq Int, IsFiniteSet(train)
  PROVE  \A d \in DOMAIN Last7Values(train) :
           \A e \in Last7Values(train)[d] :
             e < d /\ \A o \in DOMAIN Last7Values(train) : Last7Values(train)[o] = Last7Values(train)[d] => e < o
<1> DEFINE values == Last7Values(train)
<1>1. DOMAIN values \subseteq train
      /\ \A d \in DOMAIN values : values[d] = Last7At(train, BlockFirst(train, d))
  BY DEF Last7Values, WithLast7
<1>2. ASSUME NEW d \in DOMAIN values, NEW e \in values[d] PROVE e < d
  <2>0. d \in train
    BY <1>1
  <2>1. BlockFirst(train, d) \in Int /\ BlockFirst(train, d) <= d
    BY ONLY <2>0, BlockStartsBefore, train \subseteq Int, IsFiniteSet(train)
  <2>2. e \in Last7At(train, BlockFirst(train, d))
    BY <1>1
  <2>3. e \in train /\ e < BlockFirst(train, d)
    BY <2>1, <2>2, Last7IsPast
  <2>4. e \in Int /\ d \in Int
    BY <2>0, <2>3
  <2> QED BY ONLY <2>1, <2>3, <2>4
<1> HIDE DEF values
<1>3. \A d \in DOMAIN values : \A e \in values[d] :
        e < d /\ \A o \in DOMAIN values : values[o] = values[d] => e < o
  BY <1>2
<1> QED BY <1>3 DEF values

(* A sound table is tested on weeks that use the past only and lie apart. *)
LEMMA SoundTableTestsHonestly ==
  ASSUME NEW t, TableIsSound(t)
  PROVE  /\ Evaluation(t) # {}
         /\ \A w \in Evaluation(t) :
              /\ WeekIsHonest(w) /\ (Basis(t) = "test" => w.start >= TestFrom)
              /\ w.scored \subseteq t.open
         /\ \A v, w \in Evaluation(t) : v # w => v.scored \cap w.scored = {}
<1> DEFINE from == IF Basis(t) = "test" THEN TestFrom ELSE AnyDate
           week(start) ==
             [start |-> start, scored |-> Scored(t, start), train |-> TrainBefore(t, start),
              values |-> Last7Values(TrainBefore(t, start)),
              used |-> [d \in Scored(t, start) |-> UsedFor(TrainBefore(t, start), d, start)]]
<1>1. AnyDate \in Int /\ TestFrom \in Int /\ BlockDays \in Nat \ {0}
  <2>1. BlockDays \in Nat \ {0} /\ TestWeeks \in Nat \ {0} /\ TestFrom \in Int
    BY TrainingAssumption
  <2> QED BY <2>1 DEF AnyDate
<1>2. t.open \subseteq Int /\ t.open \subseteq Nat /\ IsFiniteSet(t.open) /\ t.to \in Nat
  <2>1. LogDates \subseteq Nat /\ IsFiniteSet(LogDates)
    BY TrainingAssumption
  <2>2. t.open \in SUBSET LogDates /\ t.open # {} /\ t.to = Max(t.open)
    BY DEF TableIsSound
  <2>3. IsFiniteSet(t.open)
    BY ONLY <2>1, <2>2, FS_Subset
  <2>4. ASSUME NEW x \in t.open PROVE x \in Nat /\ x \in Int
    <3>1. x \in LogDates
      BY <2>2
    <3> QED BY <2>1, <3>1
  <2>5. t.open \subseteq Int
    BY <2>4
  <2>6. Max(t.open) \in t.open
    BY ONLY <2>2, <2>3, <2>5, MaxOfFinite
  <2> QED BY <2>2, <2>3, <2>4, <2>6
<1>3. from \in Int /\ Evaluation(t) = {week(start) : start \in Starts(t, from)}
      /\ (Basis(t) = "test" => from = TestFrom)
  BY <1>1 DEF Evaluation, Weeks
<1>4. /\ Starts(t, from) \subseteq Starts(t, AnyDate) /\ Starts(t, AnyDate) \subseteq Int
      /\ Starts(t, AnyDate) # {}
      /\ \A a, b \in Starts(t, AnyDate) : a # b => a + BlockDays <= b \/ b + BlockDays <= a
  BY ONLY <1>2, <1>3, StartsLieApart
<1>5. Starts(t, from) # {}
  BY <1>4 DEF Basis
<1>6. ASSUME NEW start \in Starts(t, from) PROVE WeekIsHonest(week(start))
  <2> DEFINE train == TrainBefore(t, start)
  <2>1. start \in Int /\ start \in Starts(t, AnyDate)
    BY <1>4
  <2>2. ~Untestable(t, start)
    BY <2>1 DEF TableIsSound
  <2>3. train # {} /\ WithLast7(train) # {}
    BY <2>2 DEF Untestable
  <2>4. train \in SUBSET t.open /\ \A e \in train : e < start
    BY DEF TrainBefore
  <2>5. train \subseteq Int
    BY <1>2, <2>4
  <2>6. IsFiniteSet(train)
    BY ONLY <1>2, <2>4, FS_Subset
  <2> HIDE DEF train
  <2>7. \A d, m : m \in Methods7 =>
          UsedFor(train, d, start)[m] # {} /\ \A e \in UsedFor(train, d, start)[m] : e < start
    BY <2>1, <2>3, <2>4, <2>5, <2>6, GuessesUseThePast
  <2>8. \A d \in DOMAIN Last7Values(train) :
          \A e \in Last7Values(train)[d] :
            e < d /\ \A o \in DOMAIN Last7Values(train) : Last7Values(train)[o] = Last7Values(train)[d] => e < o
    BY ONLY <2>5, <2>6, ValuesUseThePast
  <2> DEFINE w == week(start)
  <2>9. w.start = start /\ w.values = Last7Values(train)
        /\ \A d \in w.scored : w.used[d] = UsedFor(train, d, start)
    BY DEF train
  <2> HIDE DEF w
  <2>10. WeekIsHonest(w)
    BY <2>7, <2>8, <2>9 DEF WeekIsHonest
  <2> QED BY <2>10 DEF w
<1>7. ASSUME NEW start \in Starts(t, from)
      PROVE  (Basis(t) = "test" => start >= TestFrom) /\ Scored(t, start) \subseteq t.open
  BY <1>3 DEF Starts, Scored
<1>8. ASSUME NEW a \in Starts(t, from), NEW b \in Starts(t, from), a # b
      PROVE  Scored(t, a) \cap Scored(t, b) = {}
  <2>1. a \in Int /\ b \in Int /\ (a + BlockDays <= b \/ b + BlockDays <= a)
    BY <1>4, <1>8
  <2>2. ASSUME NEW d \in Scored(t, a), d \in Scored(t, b) PROVE FALSE
    <3>1. d \in t.open /\ a <= d /\ d < a + BlockDays /\ b <= d /\ d < b + BlockDays
      BY <2>2 DEF Scored
    <3>2. d \in Int
      BY <1>2, <3>1
    <3> QED BY ONLY <1>1, <2>1, <3>1, <3>2
  <2> QED BY <2>2
<1>9. \A start : week(start).start = start /\ week(start).scored = Scored(t, start)
  OBVIOUS
<1> HIDE DEF week, from
<1>10. \A w \in Evaluation(t) : \E start \in Starts(t, from) : w = week(start)
  BY <1>3
<1>11. Evaluation(t) # {}
  BY <1>3, <1>5
<1>12. \A w \in Evaluation(t) : WeekIsHonest(w) /\ (Basis(t) = "test" => w.start >= TestFrom)
                                /\ w.scored \subseteq t.open
  BY <1>6, <1>7, <1>9, <1>10
<1>13. ASSUME NEW v \in Evaluation(t), NEW w \in Evaluation(t), v # w
       PROVE  v.scored \cap w.scored = {}
  <2>1. PICK a \in Starts(t, from) : v = week(a)
    BY <1>10
  <2>2. PICK b \in Starts(t, from) : w = week(b)
    BY <1>10
  <2>3. a # b
    BY <1>13, <2>1, <2>2
  <2> QED BY <1>8, <1>9, <2>1, <2>2, <2>3
<1> QED BY <1>11, <1>12, <1>13

(* What the files and a running train.py hold, at every moment: tables a training accepted;
   a model and figures with one number come of one table; a running train.py is the latest,
   so neither file has its number before it writes it. *)
TrainingInv ==
  /\ logbook = [status |-> logbook.status, rows |-> logbook.rows, priced |-> logbook.priced, slip |-> logbook.slip]
  /\ logbook.rows \in [LogDates -> Nat] /\ trainings \in Nat
  /\ files = [evaluation |-> files.evaluation, model |-> files.model, metadata |-> files.metadata]
  /\ files.evaluation # NoFile => TableIsSound(files.evaluation)
  /\ files.model # NoFile =>
       /\ files.model.id \in Nat /\ files.model.id <= trainings
       /\ \A d \in DOMAIN files.model.fitted : d >= PostGap /\ files.model.fitted[d] > 0
  /\ files.metadata # NoFile =>
       /\ files.metadata.id \in Nat /\ files.metadata.id <= trainings
       /\ TableIsSound(files.metadata.table)
       /\ files.model # NoFile /\ files.metadata.id = files.model.id =>
            files.metadata.table.customers = files.model.fitted
  /\ trainer # NotTraining =>
       /\ trainer = [next |-> trainer.next, only |-> trainer.only, id |-> trainer.id, table |-> trainer.table]
       /\ trainer.next \in {"evaluation", "model", "metadata"}
       /\ trainer.id = trainings /\ TableIsSound(trainer.table)
       /\ files.metadata # NoFile => files.metadata.id < trainer.id
       /\ trainer.next # "metadata" /\ files.model # NoFile => files.model.id < trainer.id
       /\ trainer.next = "metadata" =>
            files.model = [id |-> trainer.id, fitted |-> trainer.table.customers]

(* The files as the invariant has them hold nothing ahead. *)
LEMMA TrainingInvHonest == TrainingInv => NothingAhead
<1> SUFFICES ASSUME TrainingInv PROVE NothingAhead
  OBVIOUS
<1>1. files.evaluation # NoFile => \A weeks \in {Evaluation(files.evaluation)} :
        /\ weeks # {}
        /\ \A w \in weeks : WeekIsHonest(w) /\ (Basis(files.evaluation) = "test" => w.start >= TestFrom)
        /\ \A v, w \in weeks : v # w => v.scored \cap w.scored = {}
  <2> SUFFICES ASSUME files.evaluation # NoFile
               PROVE  /\ Evaluation(files.evaluation) # {}
                      /\ \A w \in Evaluation(files.evaluation) :
                           WeekIsHonest(w) /\ (Basis(files.evaluation) = "test" => w.start >= TestFrom)
                      /\ \A v, w \in Evaluation(files.evaluation) : v # w => v.scored \cap w.scored = {}
    OBVIOUS
  <2>1. TableIsSound(files.evaluation)
    BY DEF TrainingInv
  <2> QED BY ONLY <2>1, SoundTableTestsHonestly
<1>2. files.model # NoFile =>
        /\ \A d \in DOMAIN files.model.fitted : d >= PostGap /\ files.model.fitted[d] > 0
        /\ files.metadata # NoFile /\ files.metadata.id = files.model.id =>
             /\ files.metadata.table.to = Max(DOMAIN files.model.fitted)
             /\ \A w \in Evaluation(files.metadata.table) : w.scored \subseteq DOMAIN files.model.fitted
  <2> SUFFICES ASSUME files.model # NoFile, files.metadata # NoFile, files.metadata.id = files.model.id
               PROVE  /\ files.metadata.table.to = Max(DOMAIN files.model.fitted)
                      /\ \A w \in Evaluation(files.metadata.table) : w.scored \subseteq DOMAIN files.model.fitted
    BY DEF TrainingInv
  <2>1. TableIsSound(files.metadata.table) /\ files.metadata.table.customers = files.model.fitted
    BY DEF TrainingInv
  <2>2. DOMAIN files.model.fitted = files.metadata.table.open
        /\ files.metadata.table.to = Max(files.metadata.table.open)
    BY <2>1 DEF TableIsSound
  <2>3. \A w \in Evaluation(files.metadata.table) : w.scored \subseteq files.metadata.table.open
    BY ONLY <2>1, SoundTableTestsHonestly
  <2> QED BY <2>2, <2>3
<1> QED BY <1>1, <1>2, PaydaysAreRight DEF NothingAhead

(* Before the first training no file was written. *)
LEMMA TrainingInvInit == TrainingInit => TrainingInv
<1> SUFFICES ASSUME TrainingInit PROVE TrainingInv
  OBVIOUS
<1>1. logbook = [status |-> logbook.status, rows |-> logbook.rows, priced |-> logbook.priced, slip |-> logbook.slip]
      /\ logbook.rows = [d \in LogDates |-> IF d \in LogDates \ {Max(LogDates)} THEN 1 ELSE 0]
  BY DEF TrainingInit
<1>2. logbook.rows \in [LogDates -> Nat]
  BY <1>1
<1>3. trainings = 0 /\ trainer = NotTraining
      /\ files = [evaluation |-> NoFile, model |-> NoFile, metadata |-> NoFile]
  BY DEF TrainingInit
<1> QED BY <1>1, <1>2, <1>3 DEF TrainingInv

(* The owner's edits leave the files alone. *)
LEMMA EditKeeps ==
  ASSUME TrainingInv, NEW book, book.rows \in [LogDates -> Nat],
         book = [status |-> book.status, rows |-> book.rows, priced |-> book.priced, slip |-> book.slip],
         Edit(book)
  PROVE  TrainingInv'
BY DEF TrainingInv, Edit, NotTraining, TableIsSound, Starts, AnyDate, Untestable

(* Every step of the owner, of train.py and of the service keeps it. *)
LEMMA TrainingInvStep == TrainingInv /\ [TrainingNext]_trainingVars => TrainingInv'
<1> SUFFICES ASSUME TrainingInv, [TrainingNext]_trainingVars PROVE TrainingInv'
  OBVIOUS
<1> USE DEF NotTraining
<1>1. ASSUME NEW d \in Edited, AddEntry(d) PROVE TrainingInv'
  <2> DEFINE book == [logbook EXCEPT !.rows[d] = @ + 1]
  <2>1. d \in LogDates /\ logbook.rows \in [LogDates -> Nat]
    BY TrainingAssumption DEF TrainingInv
  <2>2. book.rows = [logbook.rows EXCEPT ![d] = logbook.rows[d] + 1]
        /\ book = [status |-> book.status, rows |-> book.rows, priced |-> book.priced, slip |-> book.slip]
    BY DEF TrainingInv
  <2>3. book.rows \in [LogDates -> Nat]
    BY <2>1, <2>2
  <2> HIDE DEF book
  <2>4. Edit(book)
    BY <1>1 DEF AddEntry, book
  <2> QED BY <2>2, <2>3, <2>4, EditKeeps
<1>2. ASSUME NEW d \in Edited, DropEntries(d) PROVE TrainingInv'
  <2> DEFINE book == [logbook EXCEPT !.rows[d] = 0]
  <2>1. d \in LogDates /\ logbook.rows \in [LogDates -> Nat]
    BY TrainingAssumption DEF TrainingInv
  <2>2. book.rows = [logbook.rows EXCEPT ![d] = 0]
        /\ book = [status |-> book.status, rows |-> book.rows, priced |-> book.priced, slip |-> book.slip]
    BY DEF TrainingInv
  <2>3. book.rows \in [LogDates -> Nat]
    BY <2>1, <2>2
  <2> HIDE DEF book
  <2>4. Edit(book)
    BY <1>2 DEF DropEntries, book
  <2> QED BY <2>2, <2>3, <2>4, EditKeeps
<1>3. ASSUME NEW d \in Edited, NEW s \in Statuses, MarkDay(d, s) PROVE TrainingInv'
  <2> DEFINE book == [logbook EXCEPT !.status[d] = s]
  <2>1. book.rows = logbook.rows
        /\ book = [status |-> book.status, rows |-> book.rows, priced |-> book.priced, slip |-> book.slip]
    BY DEF TrainingInv
  <2> HIDE DEF book
  <2>2. Edit(book) /\ book.rows \in [LogDates -> Nat]
    BY <1>3, <2>1 DEF MarkDay, book, TrainingInv
  <2> QED BY <2>1, <2>2, EditKeeps
<1>4. CASE Slips
  <2> DEFINE book == [logbook EXCEPT !.slip = ~@]
  <2>1. book.rows = logbook.rows
        /\ book = [status |-> book.status, rows |-> book.rows, priced |-> book.priced, slip |-> book.slip]
    BY DEF TrainingInv
  <2> HIDE DEF book
  <2>2. Edit(book) /\ book.rows \in [LogDates -> Nat]
    BY <1>4, <2>1 DEF Slips, book, TrainingInv
  <2> QED BY <2>1, <2>2, EditKeeps
<1>5. CASE NoAmounts
  <2> DEFINE book == [logbook EXCEPT !.priced = {}]
  <2>1. book.rows = logbook.rows
        /\ book = [status |-> book.status, rows |-> book.rows, priced |-> book.priced, slip |-> book.slip]
    BY DEF TrainingInv
  <2> HIDE DEF book
  <2>2. Edit(book) /\ book.rows \in [LogDates -> Nat]
    BY <1>5, <2>1 DEF NoAmounts, book, TrainingInv
  <2> QED BY <2>1, <2>2, EditKeeps
<1>6. ASSUME NEW only \in BOOLEAN, Train(only) PROVE TrainingInv'
  <2>1. TableIsSound(DailyTable(logbook))
    BY <1>6, TrainedTableIsSound DEF Train, TrainingInv
  <2> DEFINE t == DailyTable(logbook)
  <2> HIDE DEF t
  <2>2. trainer' = [next |-> "evaluation", only |-> only, id |-> trainings + 1, table |-> t]
        /\ trainings' = trainings + 1 /\ UNCHANGED <<logbook, files>>
    BY <1>6 DEF Train, t
  <2>3. TableIsSound(t)
    BY <2>1 DEF t
  <2> QED BY <2>2, <2>3 DEF TrainingInv, TableIsSound, Starts, AnyDate, Untestable
<1>7. CASE TrainRefuses
  BY <1>7 DEF TrainRefuses, TrainingInv, TableIsSound, Starts, AnyDate, Untestable
<1>8. CASE WriteEvaluation
  <2>1. trainer # NotTraining /\ TableIsSound(trainer.table)
    BY <1>8 DEF WriteEvaluation, Writes, TrainingInv
  <2>2. files' = [files EXCEPT !.evaluation = trainer.table] /\ UNCHANGED <<logbook, trainings>>
        /\ trainer' = (IF trainer.only THEN NotTraining ELSE [trainer EXCEPT !.next = "model"])
        /\ trainer.next = "evaluation"
    BY <1>8 DEF WriteEvaluation, Writes
  <2>3. files'.evaluation = trainer.table /\ files'.model = files.model /\ files'.metadata = files.metadata
        /\ files' = [evaluation |-> files'.evaluation, model |-> files'.model, metadata |-> files'.metadata]
    BY <2>2 DEF TrainingInv
  <2>4. CASE trainer.only
    <3>1. trainer' = NotTraining
      BY <2>2, <2>4
    <3> QED BY <2>1, <2>2, <2>3, <3>1 DEF TrainingInv
  <2>5. CASE ~trainer.only
    <3>1. trainer' = [next |-> "model", only |-> trainer.only, id |-> trainer.id, table |-> trainer.table]
      BY <2>1, <2>2, <2>5 DEF TrainingInv
    <3> QED BY <2>1, <2>2, <2>3, <3>1 DEF TrainingInv
  <2> QED BY <2>4, <2>5
<1>9. CASE WriteModel
  <2> DEFINE written == [id |-> trainer.id, fitted |-> trainer.table.customers]
  <2>1. trainer # NotTraining /\ TableIsSound(trainer.table) /\ trainer.id = trainings /\ trainings \in Nat
        /\ (files.metadata # NoFile => files.metadata.id \in Nat /\ files.metadata.id < trainer.id)
    BY <1>9 DEF WriteModel, Writes, TrainingInv
  <2>2. files' = [files EXCEPT !.model = written] /\ UNCHANGED <<logbook, trainings>>
        /\ trainer' = [trainer EXCEPT !.next = "metadata"] /\ trainer.next = "model"
    BY <1>9 DEF WriteModel, Writes
  <2>3. files'.evaluation = files.evaluation /\ files'.model = written /\ files'.metadata = files.metadata
        /\ files' = [evaluation |-> files'.evaluation, model |-> files'.model, metadata |-> files'.metadata]
    BY <2>2 DEF TrainingInv
  <2>4. trainer' = [next |-> "metadata", only |-> trainer.only, id |-> trainer.id, table |-> trainer.table]
    BY <2>1, <2>2 DEF TrainingInv
  <2>5. \A d \in DOMAIN trainer.table.customers : d >= PostGap /\ trainer.table.customers[d] > 0
    BY <2>1 DEF TableIsSound
  <2>6. files.metadata # NoFile => files.metadata.id # trainer.id
    BY <2>1
  <2> QED BY <2>1, <2>2, <2>3, <2>4, <2>5, <2>6 DEF TrainingInv
<1>10. CASE WriteMetadata
  <2> DEFINE written == [id |-> trainer.id, table |-> trainer.table]
  <2>1. trainer # NotTraining /\ TableIsSound(trainer.table) /\ trainer.id = trainings /\ trainings \in Nat
        /\ files.model = [id |-> trainer.id, fitted |-> trainer.table.customers]
    BY <1>10 DEF WriteMetadata, Writes, TrainingInv
  <2>2. files' = [files EXCEPT !.metadata = written] /\ UNCHANGED <<logbook, trainings>>
        /\ trainer' = NotTraining
    BY <1>10 DEF WriteMetadata, Writes
  <2>3. files'.evaluation = files.evaluation /\ files'.model = files.model /\ files'.metadata = written
        /\ files' = [evaluation |-> files'.evaluation, model |-> files'.model, metadata |-> files'.metadata]
    BY <2>2 DEF TrainingInv
  <2> QED BY <2>1, <2>2, <2>3 DEF TrainingInv
<1>11. CASE TrainingCut
  BY <1>11 DEF TrainingCut, TrainingInv
<1>12. CASE StartService \/ LoadMetadata \/ StopService
  BY <1>12 DEF StartService, LoadMetadata, StopService, TrainingInv
<1>13. CASE UNCHANGED trainingVars
  BY <1>13 DEF trainingVars, TrainingInv
<1> QED BY <1>1, <1>2, <1>3, <1>4, <1>5, <1>6, <1>7, <1>8, <1>9, <1>10, <1>11, <1>12, <1>13 DEF TrainingNext

(* However the logbook was encoded and whenever train.py ran or was cut off: no saved error
   was measured with a day the guess was made from, and the model and the figures of one
   training rest on the same open days (pipeline.py:228, pipeline.py:249, train.py). *)
THEOREM NothingIsAhead == TrainingSpec => []NothingAhead
<1>1. TrainingInit => TrainingInv
  BY TrainingInvInit
<1>2. TrainingInv /\ [TrainingNext]_trainingVars => TrainingInv'
  BY TrainingInvStep
<1>3. TrainingInv => NothingAhead
  BY TrainingInvHonest
<1> QED BY <1>1, <1>2, <1>3, PTL DEF TrainingSpec

(* What TrainingTypeOK says beyond TrainingInv: a day has at most one row more than there
   were edits, and the service has a model unless it is down or found none. *)
TrainingRest ==
  /\ logbook = [status |-> logbook.status, rows |-> logbook.rows, priced |-> logbook.priced, slip |-> logbook.slip]
  /\ logbook.status \in [LogDates -> Statuses]
  /\ logbook.rows \in [LogDates -> 0 .. edits + 1]
  /\ logbook.priced \subseteq LogDates /\ logbook.slip \in BOOLEAN
  /\ edits \in 0 .. MaxEdits /\ trainings \in 0 .. MaxTrainings
  /\ DOMAIN files = {"evaluation", "model", "metadata"}
  /\ service = [state |-> service.state, model |-> service.model, metadata |-> service.metadata, none |-> service.none]
  /\ service.state \in {"down", "loading", "up"}
  /\ service.none \in BOOLEAN
  /\ service.model = NoFile <=> service.state = "down" \/ service.none

(* They hold in the beginning. *)
LEMMA TrainingRestInit == TrainingInit => TrainingRest
<1> SUFFICES ASSUME TrainingInit PROVE TrainingRest
  OBVIOUS
<1>1. /\ logbook = [status |-> logbook.status, rows |-> logbook.rows, priced |-> logbook.priced, slip |-> logbook.slip]
      /\ logbook.status = [d \in LogDates |-> IF d \in LogDates \ {Max(LogDates)} THEN "Has entries" ELSE "Not yet encoded"]
      /\ logbook.rows = [d \in LogDates |-> IF d \in LogDates \ {Max(LogDates)} THEN 1 ELSE 0]
      /\ logbook.priced = LogDates /\ logbook.slip = FALSE
  BY DEF TrainingInit
<1>2. edits = 0 /\ trainings = 0
      /\ files = [evaluation |-> NoFile, model |-> NoFile, metadata |-> NoFile]
      /\ service = [state |-> "down", model |-> NoFile, metadata |-> NoFile, none |-> FALSE]
  BY DEF TrainingInit
<1>3. MaxEdits \in Nat /\ MaxTrainings \in Nat
  BY TrainingAssumption
<1>4. logbook.status \in [LogDates -> Statuses]
  BY <1>1 DEF Statuses
<1>5. logbook.rows \in [LogDates -> 0 .. edits + 1]
  <2>1. logbook.rows \in [LogDates -> {0, 1}]
    BY <1>1
  <2>2. edits + 1 = 1 /\ {0, 1} = 0 .. 1
    BY <1>2
  <2> QED BY <2>1, <2>2
<1>6. 0 \in 0 .. MaxEdits /\ 0 \in 0 .. MaxTrainings
  BY <1>3
<1>7. /\ DOMAIN files = {"evaluation", "model", "metadata"}
      /\ service.state = "down" /\ service.model = NoFile /\ service.metadata = NoFile /\ service.none = FALSE
      /\ service = [state |-> service.state, model |-> service.model, metadata |-> service.metadata,
                    none |-> service.none]
  BY <1>2
<1> QED BY <1>1, <1>2, <1>4, <1>5, <1>6, <1>7 DEF TrainingRest

(* An edit leaves a logbook of the same type, with one row more at most. *)
LEMMA EditTypes ==
  ASSUME TrainingRest, NEW book,
         book = [status |-> book.status, rows |-> book.rows, priced |-> book.priced, slip |-> book.slip],
         book.status \in [LogDates -> Statuses], book.rows \in [LogDates -> 0 .. edits + 2],
         book.priced \subseteq LogDates, book.slip \in BOOLEAN, Edit(book)
  PROVE  TrainingRest'
<1>1. MaxEdits \in Nat
  BY TrainingAssumption
<1>2. logbook' = book /\ edits' = edits + 1 /\ edits' \in 0 .. MaxEdits
  BY <1>1 DEF Edit, TrainingRest
<1>3. book.rows \in [LogDates -> 0 .. edits' + 1]
  BY <1>2, <1>1 DEF TrainingRest
<1> QED BY <1>2, <1>3 DEF Edit, TrainingRest

(* Every step keeps them. *)
LEMMA TrainingRestStep == TrainingRest /\ TrainingInv /\ [TrainingNext]_trainingVars => TrainingRest'
<1> SUFFICES ASSUME TrainingRest, TrainingInv, [TrainingNext]_trainingVars PROVE TrainingRest'
  OBVIOUS
<1>0. /\ edits \in Nat /\ MaxTrainings \in Nat /\ trainings \in 0 .. MaxTrainings
      /\ logbook.rows \in [LogDates -> 0 .. edits + 1]
      /\ logbook.rows \in [LogDates -> 0 .. edits + 2]
      /\ logbook.status \in [LogDates -> Statuses] /\ logbook.priced \subseteq LogDates /\ logbook.slip \in BOOLEAN
      /\ logbook = [status |-> logbook.status, rows |-> logbook.rows, priced |-> logbook.priced, slip |-> logbook.slip]
  BY TrainingAssumption DEF TrainingRest
<1>1. ASSUME NEW d \in Edited, AddEntry(d) PROVE TrainingRest'
  <2> DEFINE book == [logbook EXCEPT !.rows[d] = @ + 1]
  <2>1. d \in LogDates
    BY TrainingAssumption
  <2>2. /\ book = [status |-> book.status, rows |-> book.rows, priced |-> book.priced, slip |-> book.slip]
        /\ book.rows = [logbook.rows EXCEPT ![d] = logbook.rows[d] + 1]
        /\ book.status = logbook.status /\ book.priced = logbook.priced /\ book.slip = logbook.slip
    BY <1>0
  <2>3. book.rows \in [LogDates -> 0 .. edits + 2]
    BY <1>0, <2>1, <2>2
  <2> HIDE DEF book
  <2>4. Edit(book)
    BY <1>1 DEF AddEntry, book
  <2> QED BY <1>0, <2>2, <2>3, <2>4, EditTypes
<1>2. ASSUME NEW d \in Edited, DropEntries(d) PROVE TrainingRest'
  <2> DEFINE book == [logbook EXCEPT !.rows[d] = 0]
  <2>1. d \in LogDates
    BY TrainingAssumption
  <2>2. /\ book = [status |-> book.status, rows |-> book.rows, priced |-> book.priced, slip |-> book.slip]
        /\ book.rows = [logbook.rows EXCEPT ![d] = 0]
        /\ book.status = logbook.status /\ book.priced = logbook.priced /\ book.slip = logbook.slip
    BY <1>0
  <2>3. book.rows \in [LogDates -> 0 .. edits + 2]
    BY <1>0, <2>1, <2>2
  <2> HIDE DEF book
  <2>4. Edit(book)
    BY <1>2 DEF DropEntries, book
  <2> QED BY <1>0, <2>2, <2>3, <2>4, EditTypes
<1>3. ASSUME NEW d \in Edited, NEW s \in Statuses, MarkDay(d, s) PROVE TrainingRest'
  <2> DEFINE book == [logbook EXCEPT !.status[d] = s]
  <2>1. /\ book = [status |-> book.status, rows |-> book.rows, priced |-> book.priced, slip |-> book.slip]
        /\ book.status = [logbook.status EXCEPT ![d] = s]
        /\ book.rows = logbook.rows /\ book.priced = logbook.priced /\ book.slip = logbook.slip
    BY <1>0
  <2>2. book.status \in [LogDates -> Statuses]
    BY <1>0, <2>1
  <2> HIDE DEF book
  <2>3. Edit(book)
    BY <1>3 DEF MarkDay, book
  <2> QED BY <1>0, <2>1, <2>2, <2>3, EditTypes
<1>4. CASE Slips
  <2> DEFINE book == [logbook EXCEPT !.slip = ~@]
  <2>1. /\ book = [status |-> book.status, rows |-> book.rows, priced |-> book.priced, slip |-> book.slip]
        /\ book.slip \in BOOLEAN
        /\ book.rows = logbook.rows /\ book.priced = logbook.priced /\ book.status = logbook.status
    BY <1>0
  <2> HIDE DEF book
  <2>3. Edit(book)
    BY <1>4 DEF Slips, book
  <2> QED BY <1>0, <2>1, <2>3, EditTypes
<1>5. CASE NoAmounts
  <2> DEFINE book == [logbook EXCEPT !.priced = {}]
  <2>1. /\ book = [status |-> book.status, rows |-> book.rows, priced |-> book.priced, slip |-> book.slip]
        /\ book.priced = {}
        /\ book.rows = logbook.rows /\ book.slip = logbook.slip /\ book.status = logbook.status
    BY <1>0
  <2> HIDE DEF book
  <2>3. Edit(book)
    BY <1>5 DEF NoAmounts, book
  <2> QED BY <1>0, <2>1, <2>3, EditTypes
<1>6. CASE (\E only \in BOOLEAN : Train(only)) \/ TrainRefuses
  <2>1. trainings' \in 0 .. MaxTrainings /\ UNCHANGED <<logbook, edits, files, service>>
    BY <1>0, <1>6 DEF Train, TrainRefuses
  <2> QED BY <2>1 DEF TrainingRest
<1>7. CASE WriteEvaluation \/ WriteModel \/ WriteMetadata
  <2>1. DOMAIN files' = DOMAIN files /\ UNCHANGED <<logbook, edits, trainings, service>>
    BY <1>7 DEF WriteEvaluation, WriteModel, WriteMetadata, Writes
  <2> QED BY <2>1 DEF TrainingRest
<1>8. CASE StartService
  <2> DEFINE none == NoFile \in {files.model, files.metadata}
  <2>1. /\ service' = [state |-> IF none THEN "up" ELSE "loading", none |-> none,
                       model |-> IF none THEN NoFile ELSE files.model, metadata |-> NoFile]
        /\ UNCHANGED <<logbook, edits, trainings, files>>
    BY <1>8 DEF StartService
  <2>2. none \in BOOLEAN /\ (~none => files.model # NoFile)
    OBVIOUS
  <2> HIDE DEF none
  <2>3. /\ service'.state = (IF none THEN "up" ELSE "loading") /\ service'.none = none
        /\ service'.model = (IF none THEN NoFile ELSE files.model)
        /\ service' = [state |-> service'.state, model |-> service'.model, metadata |-> service'.metadata,
                       none |-> service'.none]
    BY <2>1
  <2>4. CASE none
    BY <2>1, <2>2, <2>3, <2>4 DEF TrainingRest
  <2>5. CASE ~none
    BY <2>1, <2>2, <2>3, <2>5 DEF TrainingRest
  <2> QED BY <2>4, <2>5
<1>9. CASE LoadMetadata
  <2>1. /\ service' = [state |-> "up", model |-> service.model, metadata |-> files.metadata, none |-> service.none]
        /\ service.state = "loading"
        /\ UNCHANGED <<logbook, edits, trainings, files>>
    BY <1>9 DEF LoadMetadata, TrainingRest
  <2> QED BY <2>1 DEF TrainingRest
<1>10. CASE StopService
  BY <1>10 DEF StopService, TrainingRest
<1>11. CASE TrainingCut \/ UNCHANGED trainingVars
  BY <1>11 DEF TrainingCut, trainingVars, TrainingRest
<1> QED BY <1>1, <1>2, <1>3, <1>4, <1>5, <1>6, <1>7, <1>8, <1>9, <1>10, <1>11 DEF TrainingNext

(* With the invariant they are all the types. *)
LEMMA TrainingTyped == TrainingInv /\ TrainingRest => TrainingTypeOK
<1> SUFFICES ASSUME TrainingInv, TrainingRest PROVE TrainingTypeOK
  OBVIOUS
<1>1. MaxEdits \in Nat /\ edits \in 0 .. MaxEdits
  BY TrainingAssumption DEF TrainingRest
<1>2. logbook.rows \in [LogDates -> 0 .. MaxEdits + 2]
  BY <1>1 DEF TrainingRest
<1>3. logbook \in [status : [LogDates -> Statuses], rows : [LogDates -> 0 .. MaxEdits + 2], priced : SUBSET LogDates,
                   slip : BOOLEAN]
  BY <1>2 DEF TrainingRest
<1>4. trainer.next \in {"idle", "evaluation", "model", "metadata"}
  BY DEF TrainingInv, NotTraining
<1> QED BY <1>1, <1>3, <1>4 DEF TrainingRest, TrainingTypeOK

(* Logbook, files and service keep their types, however training is cut off. *)
THEOREM TrainingTypes == TrainingSpec => []TrainingTypeOK
<1>1. TrainingInit => TrainingInv /\ TrainingRest
  BY TrainingInvInit, TrainingRestInit
<1>2. (TrainingInv /\ TrainingRest) /\ [TrainingNext]_trainingVars => (TrainingInv /\ TrainingRest)'
  BY TrainingInvStep, TrainingRestStep
<1>3. TrainingInv /\ TrainingRest => TrainingTypeOK
  BY TrainingTyped
<1> QED BY <1>1, <1>2, <1>3, PTL DEF TrainingSpec

-----------------------------------------------------------------------------
(* The page of ShopParts is the page of FiguresProofs over tables of its own: two instances
   of one module are told apart by name only, so their definitions are matched one after
   the other. *)
PageProofs == INSTANCE FiguresProofs WITH
  sold <- stored, paidOut <- handedOut, counts <- saves, NewSales <- ShownSales, MaxSold <- MaxShown,
  NewPayouts <- ShownPayouts, MaxPayouts <- 1, NewCounts <- ShownCounts, MaxCounts <- 1

(* What either instance says, the other says. *)
LEMMA SamePage ==
  /\ Page!FiguresAssumption <=> PageProofs!FiguresAssumption
  /\ Page!InsightsAssumption <=> PageProofs!InsightsAssumption
  /\ Page!InsightsInit <=> PageProofs!InsightsInit
  /\ Page!InsightsNext <=> PageProofs!InsightsNext
  /\ Page!InsightsTypeOK <=> PageProofs!InsightsTypeOK
  /\ Page!PageIsTrue <=> PageProofs!PageIsTrue
<1>1. \A S : Page!IsFiniteSet(S) <=> PageProofs!IsFiniteSet(S)
  BY DEF Page!IsFiniteSet, PageProofs!IsFiniteSet
<1>2. \A S : Page!Cardinality(S) = PageProofs!Cardinality(S)
  BY DEF Page!Cardinality, PageProofs!Cardinality
<1>3. Page!FiguresAssumption <=> PageProofs!FiguresAssumption
  BY <1>1 DEF Page!FiguresAssumption, PageProofs!FiguresAssumption, Page!StoredSale,
       PageProofs!StoredSale, Page!StoredPayout, PageProofs!StoredPayout, Page!Ticket,
       PageProofs!Ticket
<1>4. Page!InsightsAssumption <=> PageProofs!InsightsAssumption
  BY <1>1 DEF Page!InsightsAssumption, PageProofs!InsightsAssumption
<1>5. Page!InsightsInit <=> PageProofs!InsightsInit
  BY DEF Page!InsightsInit, PageProofs!InsightsInit, Page!FiguresInit, PageProofs!FiguresInit,
       Page!NoPage, PageProofs!NoPage, Page!NoRows, PageProofs!NoRows, Page!Reads,
       PageProofs!Reads, Page!DayReads, PageProofs!DayReads, Page!TrendReads,
       PageProofs!TrendReads
<1>6. \A d, isOwner : Page!Ask(d, isOwner) <=> PageProofs!Ask(d, isOwner)
  BY DEF Page!Ask, PageProofs!Ask, Page!NoPage, PageProofs!NoPage, Page!figureVars,
       PageProofs!figureVars, Page!NoRows, PageProofs!NoRows, Page!Reads, PageProofs!Reads,
       Page!DayReads, PageProofs!DayReads, Page!TrendReads, PageProofs!TrendReads
<1>7. \A load : Page!ReadsOf(load) = PageProofs!ReadsOf(load)
  BY DEF Page!ReadsOf, PageProofs!ReadsOf, Page!DayReads, PageProofs!DayReads, Page!TrendReads,
       PageProofs!TrendReads
<1>8. \A load : Page!Fail(load) <=> PageProofs!Fail(load)
  BY <1>7 DEF Page!Fail, PageProofs!Fail, Page!Reads, PageProofs!Reads, Page!figureVars,
       PageProofs!figureVars, Page!DayReads, PageProofs!DayReads, Page!TrendReads,
       PageProofs!TrendReads, Page!ReadsOf, PageProofs!ReadsOf, Page!Loads, PageProofs!Loads
<1>9. \A q : Page!After(q) = PageProofs!After(q)
  BY DEF Page!After, PageProofs!After
<1>10. \A r, d : Page!CountedOn(r, d) <=> PageProofs!CountedOn(r, d)
  BY DEF Page!CountedOn, PageProofs!CountedOn
<1>11. \A first, last : Page!Held(first, last) = PageProofs!Held(first, last)
  BY DEF Page!Held, PageProofs!Held, Page!Unreviewed, PageProofs!Unreviewed
<1>12. \A r, first, last : Page!CountedIn(r, first, last) <=> PageProofs!CountedIn(r, first, last)
  BY DEF Page!CountedIn, PageProofs!CountedIn, Page!Unreviewed, PageProofs!Unreviewed
<1>13. Page!Finds = PageProofs!Finds
  BY <1>11, <1>12, <1>10 DEF Page!Finds, PageProofs!Finds, Page!CountsOf, PageProofs!CountsOf,
       Page!LatestCount, PageProofs!LatestCount, Page!OnDay, PageProofs!OnDay, Page!PayoutsOn,
       PageProofs!PayoutsOn, Page!PaidSales, PageProofs!PaidSales, Page!PaidIn, PageProofs!PaidIn,
       Page!First, PageProofs!First, Page!SalesBefore, PageProofs!SalesBefore
<1>14. \A load, q : Page!Answer(load, q) <=> PageProofs!Answer(load, q)
  <2> TAKE load, q
  <2> DEFINE Updated(F) == page' = [page EXCEPT !.answered = page.answered \cup {q}, !.rows[q] = F[q]]
  <2>1. Page!Answer(load, q) <=>
          /\ page.open /\ load \notin page.failed
          /\ q \in Page!ReadsOf(load) \ page.answered /\ Page!After(q) \subseteq page.answered
          /\ Updated(Page!Finds) /\ UNCHANGED <<<<stored, handedOut, saves>>, touched, meanwhile>>
    BY DEF Page!Answer, Page!figureVars
  <2>2. PageProofs!Answer(load, q) <=>
          /\ page.open /\ load \notin page.failed
          /\ q \in PageProofs!ReadsOf(load) \ page.answered
          /\ PageProofs!After(q) \subseteq page.answered
          /\ Updated(PageProofs!Finds) /\ UNCHANGED <<<<stored, handedOut, saves>>, touched, meanwhile>>
    BY DEF PageProofs!Answer, PageProofs!figureVars
  <2>3. Updated(Page!Finds) <=> Updated(PageProofs!Finds)
    <3> HIDE DEF Updated
    <3> QED BY <1>13
  <2> HIDE DEF Updated
  <2> QED BY <1>7, <1>9, <2>1, <2>2, <2>3
<1>15. \A g : Page!SumOf(g) = PageProofs!SumOf(g)
  BY DEF Page!SumOf, PageProofs!SumOf, Page!MapThenSumSet, PageProofs!MapThenSumSet,
       Page!MapThenFoldSet, PageProofs!MapThenFoldSet
<1>16. \A n, d : Page!HalfUp(n, d) = PageProofs!HalfUp(n, d)
  BY DEF Page!HalfUp, PageProofs!HalfUp
<1>17. \A t : Page!PriceSale(t) = PageProofs!PriceSale(t)
  BY <1>16 DEF Page!PriceSale, PageProofs!PriceSale, Page!LoyaltyService,
       PageProofs!LoyaltyService, Page!LoyaltyPercent, PageProofs!LoyaltyPercent,
       Page!AtLeastZero, PageProofs!AtLeastZero
<1>18. \A r : Page!AmountOf(r) = PageProofs!AmountOf(r)
  BY <1>17 DEF Page!AmountOf, PageProofs!AmountOf
<1>19. \A paid, handed, petty : Page!FiguresOf(paid, handed, petty)
       = PageProofs!FiguresOf(paid, handed, petty)
  BY <1>18, <1>15, <1>2 DEF Page!FiguresOf, PageProofs!FiguresOf, Page!Total, PageProofs!Total,
       Page!TipOf, PageProofs!TipOf
<1>20. \A c : Page!CountDrawer(c) <=> PageProofs!CountDrawer(c)
  BY <1>10, <1>19, <1>15, <1>2 DEF Page!CountDrawer, PageProofs!CountDrawer, Page!CountsOf,
       PageProofs!CountsOf, Page!DayFigures, PageProofs!DayFigures, Page!OnDay, PageProofs!OnDay,
       Page!PaidSales, PageProofs!PaidSales, Page!Handed, PageProofs!Handed, Page!PayoutsOn,
       PageProofs!PayoutsOn, Page!Total, PageProofs!Total
<1>21. Page!FiguresNext <=> PageProofs!FiguresNext
  BY <1>20, <1>2 DEF Page!FiguresNext, PageProofs!FiguresNext, Page!Sell, PageProofs!Sell,
       Page!ConfirmPaid, PageProofs!ConfirmPaid, Page!ReviewDate, PageProofs!ReviewDate,
       Page!PayOut, PageProofs!PayOut, Page!Unreviewed, PageProofs!Unreviewed, Page!Changed,
       PageProofs!Changed
<1>22. Page!Write <=> PageProofs!Write
  BY <1>21 DEF Page!Write, PageProofs!Write
<1>23. Page!InsightsNext <=> PageProofs!InsightsNext
  BY <1>6, <1>8, <1>14, <1>22 DEF Page!InsightsNext, PageProofs!InsightsNext, Page!Offered,
       PageProofs!Offered, Page!Loads, PageProofs!Loads, Page!Reads, PageProofs!Reads,
       Page!DayReads, PageProofs!DayReads, Page!TrendReads, PageProofs!TrendReads
<1>24. Page!InsightsTypeOK <=> PageProofs!InsightsTypeOK
  BY <1>2 DEF Page!InsightsTypeOK, PageProofs!InsightsTypeOK, Page!FiguresTypeOK,
       PageProofs!FiguresTypeOK, Page!Reads, PageProofs!Reads, Page!Loads, PageProofs!Loads,
       Page!AnyRow, PageProofs!AnyRow, Page!StoredSale, PageProofs!StoredSale, Page!StoredPayout,
       PageProofs!StoredPayout, Page!StoredCount, PageProofs!StoredCount, Page!Ticket,
       PageProofs!Ticket, Page!DayReads, PageProofs!DayReads, Page!TrendReads,
       PageProofs!TrendReads
<1>25. \A x : Page!PaidRows(x) = PageProofs!PaidRows(x)
  BY DEF Page!PaidRows, PageProofs!PaidRows
<1>26. \A x : Page!NothingIsMissing(x) <=> PageProofs!NothingIsMissing(x)
  BY <1>10, <1>25, <1>11, <1>12, <1>7 DEF Page!NothingIsMissing, PageProofs!NothingIsMissing,
       Page!Loaded, PageProofs!Loaded, Page!LeftOut, PageProofs!LeftOut, Page!First,
       PageProofs!First, Page!PendingRows, PageProofs!PendingRows
<1>27. \A x : Page!ExpectedOf(x) = PageProofs!ExpectedOf(x)
  BY <1>19, <1>25, <1>15 DEF Page!ExpectedOf, PageProofs!ExpectedOf, Page!Handed,
       PageProofs!Handed, Page!PettyOf, PageProofs!PettyOf, Page!Total, PageProofs!Total
<1>28. \A totals, paid, payouts : Page!RowsOf(totals, paid, payouts)
       = PageProofs!RowsOf(totals, paid, payouts)
  BY <1>18, <1>15, <1>2 DEF Page!RowsOf, PageProofs!RowsOf, Page!Total, PageProofs!Total,
       Page!PaidOutTo, PageProofs!PaidOutTo, Page!AtLeastZero, PageProofs!AtLeastZero
<1>29. \A r : Page!ListPriceOf(r) = PageProofs!ListPriceOf(r)
  BY <1>18, <1>17 DEF Page!ListPriceOf, PageProofs!ListPriceOf
<1>30. \A r : Page!CommissionOf(r) = PageProofs!CommissionOf(r)
  BY <1>29, <1>16 DEF Page!CommissionOf, PageProofs!CommissionOf, Page!CommissionFor,
       PageProofs!CommissionFor
<1>31. \A paid, base : Page!EarningsOf(paid, base) = PageProofs!EarningsOf(paid, base)
  BY <1>30, <1>18, <1>15, <1>16 DEF Page!EarningsOf, PageProofs!EarningsOf, Page!CommissionFor,
       PageProofs!CommissionFor, Page!Total, PageProofs!Total, Page!TipOf, PageProofs!TipOf
<1>32. \A x : Page!CardsOf(x) = PageProofs!CardsOf(x)
  BY <1>28, <1>31 DEF Page!CardsOf, PageProofs!CardsOf
<1>33. \A x, gateway : Page!QrphLine(x, gateway) <=> PageProofs!QrphLine(x, gateway)
  BY DEF Page!QrphLine, PageProofs!QrphLine
<1>34. \A x, gateway : Page!MixOf(x, gateway) = PageProofs!MixOf(x, gateway)
  BY <1>33, <1>25, <1>18, <1>15 DEF Page!MixOf, PageProofs!MixOf, Page!Total, PageProofs!Total
<1>35. \A revenue, n : Page!Average(revenue, n) = PageProofs!Average(revenue, n)
  BY <1>16 DEF Page!Average, PageProofs!Average
<1>36. \A x : Page!TipsOf(x) = PageProofs!TipsOf(x)
  BY <1>31, <1>15 DEF Page!TipsOf, PageProofs!TipsOf, Page!Total, PageProofs!Total
<1>37. \A n, whole : Page!Share(n, whole) = PageProofs!Share(n, whole)
  BY <1>16 DEF Page!Share, PageProofs!Share
<1>38. \A x, gateway : Page!Dashboards(x, gateway) = PageProofs!Dashboards(x, gateway)
  BY <1>27, <1>32, <1>34, <1>35, <1>36, <1>37, <1>15 DEF Page!Dashboards, PageProofs!Dashboards,
       Page!Total, PageProofs!Total
<1>39. \A r : Page!CountedDay(r) = PageProofs!CountedDay(r)
  BY DEF Page!CountedDay, PageProofs!CountedDay
<1>40. \A S : Page!Min(S) = PageProofs!Min(S)
  BY DEF Page!Min, PageProofs!Min
<1>41. \A S : Page!Max(S) = PageProofs!Max(S)
  BY DEF Page!Max, PageProofs!Max
<1>42. \A known : Page!HoursChart(known) = PageProofs!HoursChart(known)
  BY <1>40, <1>41, <1>2 DEF Page!HoursChart, PageProofs!HoursChart
<1>43. \A sales, previous, waiting, last :
          Page!TrendsOf(sales, previous, waiting, last)
       = PageProofs!TrendsOf(sales, previous, waiting, last)
  <2> TAKE sales, previous, waiting, last
  <2> DEFINE t == Page!TrendsOf(sales, previous, waiting, last)
             u == PageProofs!TrendsOf(sales, previous, waiting, last)
  <2>1. t.daily = u.daily
    BY <1>18, <1>39, <1>42, <1>15, <1>2 DEF Page!TrendsOf, PageProofs!TrendsOf, Page!Total,
         PageProofs!Total, Page!First, PageProofs!First, Page!TipOf, PageProofs!TipOf
  <2>2. t.hours = u.hours /\ t.hourExcluded = u.hourExcluded /\ t.held = u.held
    BY <1>18, <1>39, <1>42, <1>15, <1>2 DEF Page!TrendsOf, PageProofs!TrendsOf, Page!Total,
         PageProofs!Total, Page!First, PageProofs!First, Page!TipOf, PageProofs!TipOf
  <2>3. t.byBarber = u.byBarber
    BY <1>18, <1>39, <1>42, <1>15, <1>2 DEF Page!TrendsOf, PageProofs!TrendsOf, Page!Total,
         PageProofs!Total, Page!First, PageProofs!First, Page!TipOf, PageProofs!TipOf
  <2>4. t.byService = u.byService
    BY <1>18, <1>39, <1>42, <1>15, <1>2 DEF Page!TrendsOf, PageProofs!TrendsOf, Page!Total,
         PageProofs!Total, Page!First, PageProofs!First, Page!TipOf, PageProofs!TipOf
  <2>5. t.byMethod = u.byMethod
    BY <1>18, <1>39, <1>42, <1>15, <1>2 DEF Page!TrendsOf, PageProofs!TrendsOf, Page!Total,
         PageProofs!Total, Page!First, PageProofs!First, Page!TipOf, PageProofs!TipOf
  <2>6. t.revenue = u.revenue /\ t.sales = u.sales /\ t.tips = u.tips /\ t.previous = u.previous
    BY <1>18, <1>39, <1>42, <1>15, <1>2 DEF Page!TrendsOf, PageProofs!TrendsOf, Page!Total,
         PageProofs!Total, Page!First, PageProofs!First, Page!TipOf, PageProofs!TipOf
  <2>7. t = [daily |-> t.daily, hours |-> t.hours, hourExcluded |-> t.hourExcluded,
             byBarber |-> t.byBarber, byService |-> t.byService, byMethod |-> t.byMethod,
             revenue |-> t.revenue, sales |-> t.sales, tips |-> t.tips,
             previous |-> t.previous, held |-> t.held]
    BY DEF Page!TrendsOf
  <2>8. u = [daily |-> u.daily, hours |-> u.hours, hourExcluded |-> u.hourExcluded,
             byBarber |-> u.byBarber, byService |-> u.byService, byMethod |-> u.byMethod,
             revenue |-> u.revenue, sales |-> u.sales, tips |-> u.tips,
             previous |-> u.previous, held |-> u.held]
    BY DEF PageProofs!TrendsOf
  <2> HIDE DEF t, u
  <2> QED BY <2>1, <2>2, <2>3, <2>4, <2>5, <2>6, <2>7, <2>8 DEF t, u
<1>44. \A x : Page!PeriodOf(x) = PageProofs!PeriodOf(x)
  BY <1>43 DEF Page!PeriodOf, PageProofs!PeriodOf
<1>45. \A x : Page!TableFollowsStrip(x) <=> PageProofs!TableFollowsStrip(x)
  BY <1>38, <1>44, <1>25, <1>7 DEF Page!TableFollowsStrip, PageProofs!TableFollowsStrip,
       Page!Loaded, PageProofs!Loaded, Page!Ids, PageProofs!Ids, Page!LeftOut, PageProofs!LeftOut,
       Page!PendingRows, PageProofs!PendingRows
<1>46. \A x, c : Page!StaleReasons(x, c) = PageProofs!StaleReasons(x, c)
  BY <1>27 DEF Page!StaleReasons, PageProofs!StaleReasons
<1>47. \A x : Page!CountsAreFresh(x) <=> PageProofs!CountsAreFresh(x)
  BY <1>25, <1>27, <1>15, <1>46, <1>7 DEF Page!CountsAreFresh, PageProofs!CountsAreFresh,
       Page!Loaded, PageProofs!Loaded, Page!SavedCard, PageProofs!SavedCard, Page!DrawerTape,
       PageProofs!DrawerTape, Page!Tape, PageProofs!Tape, Page!Handed, PageProofs!Handed,
       Page!PettyOf, PageProofs!PettyOf, Page!Total, PageProofs!Total
<1>48. \A tape : Page!AddsUp(tape) <=> PageProofs!AddsUp(tape)
  BY <1>15 DEF Page!AddsUp, PageProofs!AddsUp
<1>49. \A x : Page!TapesAddUp(x) <=> PageProofs!TapesAddUp(x)
  BY <1>48, <1>38, <1>32, <1>27, <1>15, <1>34, <1>7 DEF Page!TapesAddUp, PageProofs!TapesAddUp,
       Page!Loaded, PageProofs!Loaded, Page!RevenueTape, PageProofs!RevenueTape, Page!DrawerTape,
       PageProofs!DrawerTape, Page!EarnedTape, PageProofs!EarnedTape, Page!PaidTooMuch,
       PageProofs!PaidTooMuch, Page!RemainingTape, PageProofs!RemainingTape, Page!Tape,
       PageProofs!Tape, Page!Handed, PageProofs!Handed, Page!PettyOf, PageProofs!PettyOf,
       Page!Total, PageProofs!Total
<1>50. \A now, before : Page!Change(now, before) = PageProofs!Change(now, before)
  BY <1>16 DEF Page!Change, PageProofs!Change
<1>51. \A t, shown : Page!TrendStats(t, shown) = PageProofs!TrendStats(t, shown)
  BY <1>50, <1>35, <1>37, <1>15, <1>2 DEF Page!TrendStats, PageProofs!TrendStats, Page!Total,
       PageProofs!Total
<1>52. \A x : Page!ArrowsAreTrue(x) <=> PageProofs!ArrowsAreTrue(x)
  <2> TAKE x
  <2> DEFINE PageRight(t, stats) ==
               /\ stats.revenue = "up" => t.revenue > t.previous.revenue
               /\ stats.revenue = "down" => t.revenue < t.previous.revenue
               /\ Page!SumOf([m \in stats.methods |-> t.byMethod[m]]) = t.revenue
               /\ stats.best # NoFigure =>
                    \A d \in DOMAIN t.daily : t.daily[d].revenue <= t.daily[stats.best].revenue
             ProofsRight(t, stats) ==
               /\ stats.revenue = "up" => t.revenue > t.previous.revenue
               /\ stats.revenue = "down" => t.revenue < t.previous.revenue
               /\ PageProofs!SumOf([m \in stats.methods |-> t.byMethod[m]]) = t.revenue
               /\ stats.best # NoFigure =>
                    \A d \in DOMAIN t.daily : t.daily[d].revenue <= t.daily[stats.best].revenue
  <2>1. \A t, stats : PageRight(t, stats) <=> ProofsRight(t, stats)
    BY <1>15
  <2>2. Page!Loaded("trends") <=> PageProofs!Loaded("trends")
    BY <1>7 DEF Page!Loaded, PageProofs!Loaded
  <2>3. \A t, gateway : Page!TrendStats(t, Page!QrphLine(x, gateway))
                        = PageProofs!TrendStats(t, PageProofs!QrphLine(x, gateway))
    BY <1>51, <1>33
  <2>4. Page!ArrowsAreTrue(x) <=>
          (Page!Loaded("trends") => \A t \in {Page!PeriodOf(x)}, gateway \in BOOLEAN :
             \A stats \in {Page!TrendStats(t, Page!QrphLine(x, gateway))} : PageRight(t, stats))
    BY DEF Page!ArrowsAreTrue, Page!Total
  <2>5. PageProofs!ArrowsAreTrue(x) <=>
          (PageProofs!Loaded("trends") => \A t \in {PageProofs!PeriodOf(x)}, gateway \in BOOLEAN :
             \A stats \in {PageProofs!TrendStats(t, PageProofs!QrphLine(x, gateway))} : ProofsRight(t, stats))
    BY DEF PageProofs!ArrowsAreTrue, PageProofs!Total
  <2> HIDE DEF PageRight, ProofsRight
  <2>6. Page!PeriodOf(x) = PageProofs!PeriodOf(x)
    BY <1>44
  <2> QED BY <2>1, <2>2, <2>3, <2>4, <2>5, <2>6
<1>53. \A f : Page!WorkedOut(f) = PageProofs!WorkedOut(f)
  BY DEF Page!WorkedOut, PageProofs!WorkedOut, Page!Ahead, PageProofs!Ahead
<1>54. Page!SectionsStand <=> PageProofs!SectionsStand
  BY <1>53, <1>40, <1>7 DEF Page!SectionsStand, PageProofs!SectionsStand, Page!Loads,
       PageProofs!Loads, Page!Loaded, PageProofs!Loaded, Page!Sections, PageProofs!Sections,
       Page!ChartDays, PageProofs!ChartDays, Page!Ahead, PageProofs!Ahead
<1>55. Page!PageIsTrue <=> PageProofs!PageIsTrue
  BY <1>26, <1>45, <1>47, <1>49, <1>52, <1>54 DEF Page!PageIsTrue, PageProofs!PageIsTrue
<1> QED BY <1>3, <1>4, <1>5, <1>23, <1>24, <1>55

(* So the page's invariant holds of the page in ShopParts. *)
LEMMA ShopPageInv ==
  /\ Page!InsightsInit => PageProofs!InsightsInv
  /\ PageProofs!InsightsInv /\ [Page!InsightsNext]_ownPageVars => PageProofs!InsightsInv'
  /\ PageProofs!InsightsInv => Page!InsightsTypeOK /\ Page!PageIsTrue
<1>1. PageProofs!FiguresAssumption /\ PageProofs!InsightsAssumption /\ PageProofs!StoryAssumption
  <2>1. PageProofs!StoryAssumption
    BY StoryAssumption DEF PageProofs!StoryAssumption
  <2> QED BY <2>1, SamePage, ShownAssumption
<1>2. PageProofs!InsightsInit => PageProofs!InsightsInv
  BY <1>1, PageProofs!InsightsInvInit DEF PageProofs!InsightsInvInit
<1>3. PageProofs!InsightsInv /\ [PageProofs!InsightsNext]_(PageProofs!insightsVars) => PageProofs!InsightsInv'
  BY <1>1, PageProofs!InsightsInvStep DEF PageProofs!InsightsInvStep
<1>4. PageProofs!InsightsInv => PageProofs!PageIsTrue
  BY <1>1, PageProofs!PageIsTrueNow DEF PageProofs!PageIsTrueNow
<1>5. PageProofs!InsightsInv => PageProofs!InsightsTypeOK
  BY DEF PageProofs!InsightsInv
<1>6. UNCHANGED ownPageVars => UNCHANGED PageProofs!insightsVars
  BY DEF ownPageVars, pageVars, PageProofs!insightsVars, PageProofs!figureVars, PageProofs!pageVars
<1>7. [Page!InsightsNext]_ownPageVars => [PageProofs!InsightsNext]_(PageProofs!insightsVars)
  BY <1>6, SamePage
<1> QED BY <1>2, <1>3, <1>4, <1>5, <1>7, SamePage

-----------------------------------------------------------------------------
(* ShopParts: one part steps, the others stand still, so each part keeps what it
   promises by itself. *)

(* Every part starts. *)
LEMMA ShopPartsStart ==
  ShopPartsInit => /\ BooksInit /\ FiguresInit /\ Page!InsightsInit /\ DrawerInit /\ LedgerInit
                   /\ ForecastInit /\ TrainingInit /\ StartupInit /\ NetInit
BY DEF ShopPartsInit

(* A step is one of each part's, or leaves it alone. *)
LEMMA ShopPartsStep ==
  [ShopPartsNext]_vars =>
    /\ [BooksNext]_booksVars /\ [FiguresNext]_figureVars /\ [Page!InsightsNext]_ownPageVars
    /\ [DrawerNext]_drawerVars /\ [LedgerNext]_ledgerVars /\ [ForecastNext]_forecastVars
    /\ [TrainingNext]_trainingVars /\ [StartupNext]_startupVars /\ [NetNext]_netVars
<1> SUFFICES ASSUME [ShopPartsNext]_vars
             PROVE  /\ [BooksNext]_booksVars /\ [FiguresNext]_figureVars /\ [Page!InsightsNext]_ownPageVars
                    /\ [DrawerNext]_drawerVars /\ [LedgerNext]_ledgerVars /\ [ForecastNext]_forecastVars
                    /\ [TrainingNext]_trainingVars /\ [StartupNext]_startupVars /\ [NetNext]_netVars
  OBVIOUS
<1>1. CASE UNCHANGED vars
  BY <1>1 DEF vars
<1>2. CASE ShopPartsNext
  BY <1>2 DEF ShopPartsNext, Step, StandsStill
<1> QED BY <1>1, <1>2

(* The insights page, read query after query over tables of its own, keeps its types and
   tells the truth in the shop as a whole. *)
LEMMA ShopPageKeeps == ShopPartsSpec => [](Page!InsightsTypeOK /\ Page!PageIsTrue)
BY ShopPartsStart, ShopPartsStep, ShopPageInv, PTL DEF ShopPartsSpec

(* What each part promises holds of the shop as a whole. *)
THEOREM ShopPartsKeep ==
  ShopPartsSpec =>
    /\ [](/\ EveryChangeIsNoticed /\ PaidAsPosted /\ CountOnItsDay /\ DaysOfTheirRun
          /\ RunningIsWhole /\ QuestionsAreAnswered /\ OwedIsEarned /\ NothingAhead)
    /\ RevisionsAreALog /\ MoneyStaysOnItsDay /\ TypedAmountsKept
<1>1. ShopPartsSpec => /\ BooksSpec /\ DrawerSpec /\ LedgerSpec /\ ForecastSpec
                         /\ TrainingSpec /\ StartupSpec /\ NetSpec
  BY ShopPartsStart, ShopPartsStep, PTL
     DEF ShopPartsSpec, BooksSpec, DrawerSpec, LedgerSpec, ForecastSpec, TrainingSpec,
         StartupSpec, NetSpec
<1> QED BY <1>1, ChangesAreNoticed, PaymentsAreKept, CountsStay, WindowTellsTruth, PhonesFindThePc,
           DaysAreOfTheirRun, NothingIsAhead, RowsNeverOverpay, RevisionsImplementLog,
           MoneyStays, TypedStays, PTL

(* The owner's figures are sums of the same rows on every page, and those of the insights
   page are right though its queries are answered one after the other while the shop goes
   on (lib/trends.ts:3, app/insights/page.tsx:924). *)
THEOREM ShopFiguresAreTrue == ShopPartsSpec => []FiguresAreTrue
<1>1. ShopPartsSpec => FiguresSpec
  BY ShopPartsStart, ShopPartsStep, PTL DEF ShopPartsSpec, FiguresSpec
<1>2. FiguresAgree /\ Page!PageIsTrue => FiguresAreTrue
  BY DEF FiguresAreTrue
<1> QED BY <1>1, <1>2, PagesAgree, ShopPageKeeps, PTL

(* However the presentation is opened, what its slides say holds of the rows: the list of
   what needs the owner is empty only when nothing does, and what is said of cash, of a
   missed day or of a change is so (app/insights/page.tsx:1151). *)
THEOREM ShopStoryIsTrue == ShopPartsSpec => []StoryIsTrue
<1>1. ShopPartsSpec => FiguresSpec
  BY ShopPartsStart, ShopPartsStep, PTL DEF ShopPartsSpec, FiguresSpec
<1> QED BY <1>1, StoryTells, PTL

(* Every part keeps its types, whichever of them runs. *)
THEOREM ShopPartsTypes == ShopPartsSpec => []ShopPartsTypeOK
<1>1. ShopPartsSpec => /\ BooksSpec /\ FiguresSpec /\ DrawerSpec /\ LedgerSpec /\ ForecastSpec
                         /\ TrainingSpec /\ StartupSpec /\ NetSpec
  BY ShopPartsStart, ShopPartsStep, PTL
     DEF ShopPartsSpec, BooksSpec, FiguresSpec, DrawerSpec, LedgerSpec, ForecastSpec, TrainingSpec,
         StartupSpec, NetSpec
<1>2. LedgerSpec => []LedgerTypeOK
  BY LedgerTypesInit, LedgerTypesStep, PTL DEF LedgerSpec
<1>3. ForecastSpec => []ForecastTypeOK
  <2>1. ForecastInv => ForecastTypeOK
    BY DEF ForecastInv
  <2> QED BY <2>1, ForecastInvInit, ForecastInvStep, PTL DEF ForecastSpec
<1>4. StartupSpec => []StartupTypeOK
  <2>1. StartupInv => StartupTypeOK
    BY DEF StartupInv
  <2>2. ASSUME StartupInv, UNCHANGED startupVars PROVE StartupInv'
    BY <2>2 DEF startupVars, StartupInv, StartupTypeOK, Updates, StampFits, Overlooked
  <2>3. StartupInv /\ [StartupNext]_startupVars => StartupInv'
    BY <2>2, StartupInvStep
  <2> QED BY <2>1, <2>3, StartupInvInit, PTL DEF StartupSpec
<1>5. ShopPartsSpec => [](part \in ShopPartNames)
  <2>1. ShopPartsInit => part \in ShopPartNames
    BY DEF ShopPartsInit
  <2>2. part \in ShopPartNames /\ [ShopPartsNext]_vars => (part \in ShopPartNames)'
    BY DEF ShopPartsNext, Step, vars
  <2> QED BY <2>1, <2>2, PTL DEF ShopPartsSpec
<1>6. /\ part \in ShopPartNames /\ BooksTypeOK /\ FiguresTypeOK /\ Page!InsightsTypeOK
      /\ DrawerTypeOK /\ LedgerTypeOK /\ ForecastTypeOK /\ TrainingTypeOK /\ StartupTypeOK /\ NetTypeOK
      => ShopPartsTypeOK
  BY DEF ShopPartsTypeOK
<1> QED BY <1>1, <1>2, <1>3, <1>4, <1>5, <1>6, BooksTypes, FiguresTypes, ShopPageKeeps, DrawerTypes,
           TrainingTypes, NetTypes, PTL
=============================================================================
