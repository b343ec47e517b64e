----------------------------- MODULE PhoneParts -----------------------------
(***************************************************************************)
(* The parts of a phone that wait for the shop PC's answers, its sale      *)
(* button and its log, the PIN doors, and the owner's pages that list,     *)
(* rank and present.  They share no state with each other: one of them     *)
(* runs, the others stand still, so that a run explores the sum of their   *)
(* states and not the product.                                             *)
(***************************************************************************)
EXTENDS OwnerAccess, PaymentQr, ShopPc, OfflinePages, QrDialog, Checkout,
        ShiftLog, DevicesPage, QrPage, Deck, Report

VARIABLE part

vars ==
  <<part, accessVars, qrVars, pcVars, pageVars, dialogVars, checkoutVars,
    logVars, devicesVars, qrPageVars, deckVars, reportVars>>

PhonePartNames ==
  {"doors", "qr copies", "shop pc", "pages", "dialog", "checkout",
   "shift log", "devices page", "qr page", "deck", "report"}

PhonePartsTypeOK ==
  /\ part \in PhonePartNames
  /\ AccessTypeOK /\ QrTypeOK /\ PcTypeOK /\ PagesTypeOK /\ DialogTypeOK /\ CheckoutTypeOK
  /\ LogTypeOK /\ DevicesTypeOK /\ QrPageTypeOK /\ DeckTypeOK /\ ReportTypeOK

(* A part that stands still has one initial state. *)
Starts(p, Init, pinned) == Init /\ (part # p => pinned)

PhonePartsInit ==
  /\ part \in PhonePartNames
  /\ Starts("report", ReportInit, ~isOwner /\ saved = NoRun("none"))
  /\ Starts("shift log", LogInit, log = << >> /\ ~online)
  /\ Starts("devices page", DevicesInit, approved = {})
  /\ Starts("qr page", QrPageInit, kept = NoPictures)
  /\ Starts("deck", DeckInit, count = 1)
  /\ Starts("doors", AccessInit, door = "unlock")
  /\ Starts("shop pc", PcInit, pc = "off" /\ ~phoneOnline /\ ~visible)
  /\ Starts("checkout", CheckoutInit, ~askBefore /\ ~gatewayEnabled)
  /\ Starts("pages", PagesInit, \A path \in Cached : copies[path] = 1)
  /\ QrInit /\ DialogInit

StandsStill(p, v) == IF part = p THEN TRUE ELSE UNCHANGED v

Step(p, A) ==
  /\ part = p
  /\ A
  /\ UNCHANGED part
  /\ StandsStill("doors", accessVars)
  /\ StandsStill("qr copies", qrVars) /\ StandsStill("shop pc", pcVars)
  /\ StandsStill("pages", pageVars) /\ StandsStill("dialog", dialogVars) /\ StandsStill("checkout", checkoutVars)
  /\ StandsStill("shift log", logVars) /\ StandsStill("devices page", devicesVars)
  /\ StandsStill("qr page", qrPageVars) /\ StandsStill("deck", deckVars) /\ StandsStill("report", reportVars)

PhonePartsNext ==
  \/ Step("doors", AccessNext)
  \/ Step("qr copies", QrNext)
  \/ Step("shop pc", PcNext)
  \/ Step("pages", PagesNext)
  \/ Step("dialog", DialogNext)
  \/ Step("checkout", CheckoutNext)
  \/ Step("shift log", LogNext)
  \/ Step("devices page", DevicesNext)
  \/ Step("qr page", QrPageNext)
  \/ Step("deck", DeckNext)
  \/ Step("report", ReportNext)

(* The phone refreshes its copies again and again, and a request ends: by its answer
   or without one. *)
QrFairness ==
  /\ WF_vars(Step("qr copies", StartRefresh))
  /\ WF_vars(Step("qr copies", GotList))
  /\ WF_vars(Step("qr copies", EndRefresh))
  /\ \A k \in QrKeys : WF_vars(Step("qr copies", GotImage(k)))

(* The timer fires; a check ends within its 5 s. *)
PcFairness == WF_vars(Step("shop pc", TimerFires)) /\ WF_vars(Step("shop pc", AnswerComes))

(* Timers fire, requests end; the POS is opened again and again, and the PC answers it
   now and then. *)
PagesFairness ==
  /\ \A o \in Openings :
       /\ WF_vars(Step("pages", TimesOut(o)))
       /\ WF_vars(Step("pages", Done(o)))
       /\ WF_vars(Step("pages", \E next \in Openings : Follow(o, next)))
       /\ WF_vars(Step("pages", /\ opening[o].path = "file" \/ ~opening[o].waiting
                                /\ \E answer \in Statuses : NetworkAnswers(o, answer)))
  /\ SF_vars(Step("pages", \E o \in Openings : Open(o, "/pos")))
  /\ SF_vars(Step("pages", \E o \in Openings : opening[o].path = "/pos" /\ NetworkAnswers(o, "ok")))

(* The 3 s timer fires and the server answers. *)
DialogFairness ==
  /\ \A p \in Polls :
       /\ WF_vars(Step("dialog", PollTick(p)))
       /\ WF_vars(Step("dialog", PollRead(p)))
       /\ WF_vars(Step("dialog", PollAnswered(p)))
  /\ WF_vars(Step("dialog", CheckRead))
  /\ WF_vars(Step("dialog", CheckAnswered))

PhonePartsSpec ==
  /\ PhonePartsInit
  /\ [][PhonePartsNext]_vars
  /\ QrFairness /\ PcFairness /\ PagesFairness /\ DialogFairness

-----------------------------------------------------------------------------
(* The owner's lists (DevicesAtRest, QrPageAtRest): once every request has ended, a page
   of app/devices/page.tsx or app/payment-qr/page.tsx that shows no error shows what the
   server holds, whatever failed on the way, unless requests about one thing crossed. *)
ListsAtRest == DevicesAtRest /\ QrPageAtRest
=============================================================================
