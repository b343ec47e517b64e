----------------------------- MODULE Checkout -----------------------------
(***************************************************************************)
(* The sale form of the POS (pos/page.tsx) and the lock its payment        *)
(* buttons go through (lib/submit-lock.ts).  The rendering that disables a *)
(* button comes after the tap that should.  Time is counted in fractions   *)
(* of the 800 ms in which the lock stays held.                             *)
(***************************************************************************)
EXTENDS Naturals

CONSTANTS
  Hold,           \* SALE_REPEAT_GUARD_MS, in ticks
  Asks,           \* bound: QR Ph taps waiting for the server at once
  NoSale

VARIABLES
  form,           \* selectedServiceId, loyalty, customAmountInput, customNote
  step,           \* the dialog open over the form
  askBefore,      \* askBeforeRecording
  gatewayEnabled, \* QR Ph is offered
  lock,           \* submit-lock: busy, and the ticks until release
  shownBusy,      \* isRecording as last rendered
  asking,         \* QR Ph taps whose checkQrphAvailable is out
  writing,         \* createSale before db.transactions.add is done
  rung,           \* the last sale written to Dexie
  sinceTap,       \* history: ticks since the tap of the last sale, up to Hold
  switchedOn      \* history: the loyalty switch was turned on since the last discounted sale

checkoutVars ==
  <<form, step, askBefore, gatewayEnabled, lock, shownBusy, asking, writing, rung, sinceTap, switchedOn>>

Buttons == {"CASH", "DIGITAL", "QRPH"}
Services == {"haircut", "other"}      \* LOYALTY_SERVICE_ID and the rest
Entries == {"list", "custom", "custom, note too long"}
Form == [service : Services, loyalty : BOOLEAN, amount : Entries]
Steps == {"none", "confirm", "reference"}

(* A sale being written, and one that is: how it was rung up. *)
Writing == [method : Buttons, loyalty : BOOLEAN, gap : 0 .. Hold]
Rung == [method : Buttons, loyalty : BOOLEAN, gap : 0 .. Hold, switched : BOOLEAN]

ASSUME CheckoutAssumption ==
  /\ Hold \in Nat \ {0}
  /\ NoSale \notin BOOLEAN /\ NoSale \notin Writing /\ NoSale \notin Rung

CheckoutTypeOK ==
  /\ form \in Form
  /\ step \in Steps
  /\ {askBefore, gatewayEnabled, shownBusy, switchedOn} \subseteq BOOLEAN
  /\ lock \in [busy : BOOLEAN, hold : 0 .. Hold]
  /\ asking \in [Asks -> BOOLEAN \cup {NoSale}]
  /\ writing \in Writing \cup {NoSale}
  /\ rung \in Rung \cup {NoSale}
  /\ sinceTap \in 0 .. Hold

CheckoutInit ==
  /\ form = [service |-> "haircut", loyalty |-> FALSE, amount |-> "list"]
  /\ step = "none"
  /\ askBefore \in BOOLEAN
  /\ gatewayEnabled \in BOOLEAN
  /\ lock = [busy |-> FALSE, hold |-> 0]
  /\ shownBusy = FALSE
  /\ asking = [a \in Asks |-> NoSale]
  /\ writing = NoSale
  /\ rung = NoSale
  /\ sinceTap = Hold
  /\ switchedOn = FALSE

PayDisabled == shownBusy \/ form.amount = "custom, note too long"

(* loyaltyApplies: a men's haircut at its own price. *)
IsLoyalty == form.loyalty /\ form.service = "haircut" /\ form.amount = "list"

-----------------------------------------------------------------------------
(* The form. *)

RenderCheckout ==
  /\ shownBusy # lock.busy
  /\ shownBusy' = lock.busy
  /\ UNCHANGED <<form, step, askBefore, gatewayEnabled, lock, asking, writing, rung, sinceTap, switchedOn>>

EditForm(f) ==
  /\ step = "none"
  /\ form' = f
  /\ UNCHANGED <<step, askBefore, gatewayEnabled, lock, shownBusy, asking, writing, rung, sinceTap>>

(* Another service turns the loyalty card off; the same one keeps it. *)
SelectService(s) ==
  /\ EditForm([form EXCEPT !.service = s, !.loyalty = @ /\ s = form.service])
  /\ UNCHANGED switchedOn

(* A custom amount replaces the discount; its note may be too long to save. *)
EnterAmount(amount) ==
  /\ EditForm([form EXCEPT !.amount = amount, !.loyalty = @ /\ amount = "list"])
  /\ UNCHANGED switchedOn

(* The switch shows for the haircut and is disabled by a custom amount. *)
SwitchLoyalty ==
  /\ form.service = "haircut" /\ form.amount = "list"
  /\ EditForm([form EXCEPT !.loyalty = ~@])
  /\ switchedOn' = (switchedOn \/ ~form.loyalty)

(* writeAskBeforeRecording; a phone that cannot store it keeps the old value. *)
SwitchSetting ==
  /\ step = "none"
  /\ askBefore' = ~askBefore
  /\ UNCHANGED <<form, step, gatewayEnabled, lock, shownBusy, asking, writing, rung, sinceTap, switchedOn>>

-----------------------------------------------------------------------------
(* Taps. *)

(* Mutation of Locked: the check is left to the button React disables. *)
LockedAsShown == shownBusy

Locked == lock.busy

(* run: check and set before any await; a busy lock leaves everything alone.
   createSale prices the form the tap saw. *)
Run(method, loyalty) ==
  IF Locked
  THEN UNCHANGED <<lock, writing, sinceTap>>
  ELSE /\ lock' = [busy |-> TRUE, hold |-> 0]
       /\ writing' = [method |-> method, loyalty |-> loyalty, gap |-> sinceTap]
       /\ sinceTap' = IF method = "QRPH" THEN Hold ELSE 0

(* Cash records on one tap, or asks first (firstCheckoutStep). *)
TapCash ==
  /\ step = "none" /\ ~PayDisabled
  /\ IF askBefore
     THEN step' = "confirm" /\ UNCHANGED <<lock, writing, sinceTap>>
     ELSE Run("CASH", IsLoyalty) /\ UNCHANGED step
  /\ UNCHANGED <<form, askBefore, gatewayEnabled, shownBusy, asking, rung, switchedOn>>

(* GCash and Maya open their reference step. *)
TapDigital ==
  /\ step = "none" /\ ~PayDisabled
  /\ step' = "reference"
  /\ UNCHANGED <<form, askBefore, gatewayEnabled, lock, shownBusy, asking, writing, rung, sinceTap, switchedOn>>

(* handleConfirmCash and handleDigitalConfirm. *)
Confirm ==
  /\ \/ step = "confirm" /\ ~PayDisabled /\ Run("CASH", IsLoyalty)
     \/ step = "reference" /\ ~shownBusy /\ Run("DIGITAL", IsLoyalty)
  /\ UNCHANGED <<form, step, askBefore, gatewayEnabled, shownBusy, asking, rung, switchedOn>>

(* Cancel and Escape. *)
CancelStep ==
  /\ step # "none"
  /\ step' = "none"
  /\ UNCHANGED <<form, askBefore, gatewayEnabled, lock, shownBusy, asking, writing, rung, sinceTap, switchedOn>>

(* handleQrphCheckout asks the server first, outside the lock. *)
TapQrph(a) ==
  /\ step = "none" /\ ~PayDisabled
  /\ gatewayEnabled /\ asking[a] = NoSale
  /\ asking' = [asking EXCEPT ![a] = IsLoyalty]
  /\ UNCHANGED <<form, step, askBefore, gatewayEnabled, lock, shownBusy, writing, rung, sinceTap, switchedOn>>

QrphAvailable(a) ==
  /\ asking[a] # NoSale
  /\ Run("QRPH", asking[a])
  /\ asking' = [asking EXCEPT ![a] = NoSale]
  /\ UNCHANGED <<form, step, askBefore, gatewayEnabled, shownBusy, rung, switchedOn>>

(* Switched off, an error or no answer: nothing is rung up. *)
QrphUnavailable(a) ==
  /\ asking[a] # NoSale
  /\ gatewayEnabled' = FALSE
  /\ asking' = [asking EXCEPT ![a] = NoSale]
  /\ UNCHANGED <<form, step, askBefore, lock, shownBusy, writing, rung, sinceTap, switchedOn>>

(* Online again: the page asks whether QR Ph is on. *)
RecheckGateway ==
  /\ gatewayEnabled' \in BOOLEAN
  /\ UNCHANGED <<form, step, askBefore, lock, shownBusy, asking, writing, rung, sinceTap, switchedOn>>

-----------------------------------------------------------------------------
(* The write. *)

(* The loyalty card is per customer. *)
NextCustomer == IF writing.loyalty THEN [form EXCEPT !.loyalty = FALSE] ELSE form

(* The sale is written and the step it was confirmed in closes. *)
Saved ==
  /\ writing # NoSale
  /\ rung' = [method |-> writing.method, loyalty |-> writing.loyalty,
              gap |-> writing.gap, switched |-> switchedOn]
  /\ switchedOn' = (switchedOn /\ ~writing.loyalty)
  /\ form' = NextCustomer
  /\ lock' = [busy |-> TRUE, hold |-> Hold]
  /\ step' = IF writing.method = "QRPH" THEN step ELSE "none"
  /\ writing' = NoSale
  /\ UNCHANGED <<askBefore, gatewayEnabled, shownBusy, asking, sinceTap>>

AfterFailure == [busy |-> FALSE, hold |-> 0]

(* Dexie refused the write: the dialog stays, the lock is freed at once. *)
SaveFails ==
  /\ writing # NoSale
  /\ lock' = AfterFailure
  /\ writing' = NoSale
  /\ sinceTap' = Hold
  /\ UNCHANGED <<form, step, askBefore, gatewayEnabled, shownBusy, asking, rung, switchedOn>>

(* Time passes; the timer releases the lock. *)
Pass ==
  /\ sinceTap' = IF sinceTap = Hold THEN Hold ELSE sinceTap + 1
  /\ lock' = CASE lock.hold > 1 -> [lock EXCEPT !.hold = @ - 1]
               [] lock.hold = 1 -> [busy |-> FALSE, hold |-> 0]
               [] OTHER -> lock
  /\ UNCHANGED <<form, step, askBefore, gatewayEnabled, shownBusy, asking, writing, rung, switchedOn>>

CheckoutNext ==
  \/ RenderCheckout \/ Pass
  \/ \E s \in Services : SelectService(s)
  \/ \E amount \in Entries : EnterAmount(amount)
  \/ SwitchLoyalty \/ SwitchSetting
  \/ TapCash \/ TapDigital \/ Confirm \/ CancelStep \/ RecheckGateway
  \/ \E a \in Asks : TapQrph(a) \/ QrphAvailable(a) \/ QrphUnavailable(a)
  \/ Saved \/ SaveFails

CheckoutSpec == CheckoutInit /\ [][CheckoutNext]_checkoutVars

-----------------------------------------------------------------------------
(* "a second tap cannot generate a second transaction id" (pos/page.tsx:486): two
   sales of the cash, GCash and Maya buttons come from taps at least the hold apart,
   however late the rendering that disables the button.  "The loyalty card is per
   customer" (:465): a discounted one had the switch turned on for it.  A QR Ph tap
   asks the server before it takes the lock, and is not covered. *)
OneSalePerGesture ==
  rung # NoSale /\ rung.method # "QRPH" =>
    /\ rung.gap = Hold
    /\ rung.loyalty => rung.switched
=============================================================================
