----------------------------- MODULE ModelTrial -----------------------------
(***************************************************************************)
(* A kiosk that takes new firmware and new model packs, each on trial for  *)
(* one boot: the two model slots with the key that says which is active    *)
(* and the latch last_ota_result (sys_storage.c, app_boot.c), the firmware *)
(* slots of the bootloader, and the two tasks that arm them: ota_task for  *)
(* an offer, sync_task for the command SET_ACTIVE_SLOT.                    *)
(*                                                                         *)
(* The power may go between any two writes.  The bytes of an image, its    *)
(* digest and the wait before a restart are left out.                      *)
(***************************************************************************)
EXTENDS Naturals

CONSTANTS
    Firmwares,    \* firmware versions
    Packs,        \* whole model packs
    MinFirmware,  \* of each pack: the oldest firmware its manifest asks for
    LoadsUnder,   \* of each pack: the firmwares that can build its graphs
    AnswersUnder  \* of each pack: those under which every branch answers

Slots == {0, 1}
NoSlot == 2
NoFirmware == 0
Erased == "erased"  \* no header
Torn == "torn"      \* a header over a body that is not whole

ASSUME TrialAssumption ==
    /\ Firmwares \subseteq Nat \ {NoFirmware}
    /\ Packs \cap {Erased, Torn} = {}
    /\ MinFirmware \in [Packs -> Firmwares]
    /\ LoadsUnder \in [Packs -> SUBSET Firmwares]
    /\ AnswersUnder \in [Packs -> SUBSET Firmwares]
    /\ \A p \in Packs : AnswersUnder[p] \subseteq LoadsUnder[p]

\* What may be rolled back.
Models == <<"models">>
Build(f) == <<"firmware", f>>
Rollbacks == {Models} \cup {Build(f) : f \in Firmwares}

VARIABLES
    slot,     \* what each model slot holds
    active,   \* active_slot in NVS
    lastOta,  \* last_ota_result in NVS
    app,      \* the firmware kept, the one in the other slot, and that one's state
    otaTo,    \* ota_to in NVS: the firmware the kiosk restarted to run
    at,       \* how far this boot is
    fw,       \* the firmware running
    mapped,   \* the model slot this boot serves from, or NoSlot
    seeing,   \* AI_READY: the vision pipeline is up
    offer,    \* what ota_task is doing
    sync,     \* what sync_task is doing
    note,     \* rollbacks in the event queue, in RAM
    owed,     \* history: rollbacks nobody has been told of
    trialHoles  \* history: cuts the code does not mend, by what they put at odds

flash == <<slot, active, lastOta, app, otaTo>>
trialVars == <<flash, at, fw, mapped, seeing, offer, sync, note, owed, trialHoles>>

NoOffer == [step |-> "idle", what |-> NoFirmware, into |-> NoSlot]

\* serving_slot: an activate or a revert names the next boot's slot.
Serving == IF mapped = NoSlot THEN active ELSE mapped
Spare == 1 - Serving

CanLoad(s) == slot[s] \in Packs /\ fw \in LoadsUnder[slot[s]]
AnswersOn(s, f) == slot[s] \in Packs /\ f \in AnswersUnder[slot[s]]
OnTrial == app.state = "pending"
Up == at \in {"up", "running"}

TrialInit ==
    /\ \E f \in Firmwares, p \in Packs, other \in Packs \cup {Erased} :
           /\ app = [valid |-> f, next |-> NoFirmware, state |-> "none"] /\ fw = f
           /\ slot = [s \in Slots |-> IF s = 0 THEN p ELSE other]
           /\ AnswersOn(0, f)
    /\ active = 0 /\ lastOta = "none" /\ otaTo = NoFirmware
    /\ at = "off" /\ mapped = NoSlot /\ seeing = FALSE
    /\ offer = NoOffer /\ sync = "idle"
    /\ note = {} /\ owed = {} /\ trialHoles = {}

\* Between the mark and the flip.
HalfArmed == offer.step = "marked" \/ sync = "marked"

\* What RAM held goes with the power or the restart.
Fall ==
    /\ at' = "off" /\ mapped' = NoSlot /\ seeing' = FALSE
    /\ offer' = NoOffer /\ sync' = "idle" /\ note' = {}
    /\ UNCHANGED <<fw, owed>>

\* "seat": a cut between the latch and the slot, a pack or a build kept on the word of the
\* other while both were on trial, a build kept over a pack that gives no answers.  "telling": a
\* cut between arming a build and naming it or keeping it and forgetting its name, a rollback
\* that was in RAM only, an update armed before the last one was reported.
CutHoles ==
    (IF at = "undoing" \/ HalfArmed THEN {"seat"} ELSE {})
    \cup (IF offer.step = "unnamed" \/ sync = "signed" \/ note # {} THEN {"telling"} ELSE {})

-----------------------------------------------------------------------------
(* A boot                                                                  *)

\* The bootloader runs a new image once; one that did not sign off by then is given up.
BootFirmware ==
    /\ at = "off" /\ at' = "boot"
    /\ CASE app.state = "new" -> /\ app' = [app EXCEPT !.state = "pending"]
                                 /\ fw' = app.next /\ UNCHANGED owed
         [] app.state = "pending" -> /\ app' = [app EXCEPT !.next = NoFirmware, !.state = "none"]
                                     /\ fw' = app.valid /\ owed' = owed \cup {Build(app.next)}
         [] OTHER -> fw' = app.valid /\ UNCHANGED <<app, owed>>
    /\ UNCHANGED <<slot, active, lastOta, otaTo, mapped, seeing, offer, sync, note, trialHoles>>

\* load_models: a pack on trial that does not load goes back; any other leaves the kiosk blind.
LoadModels ==
    /\ at = "boot"
    /\ mapped' = IF slot[active] = Erased THEN NoSlot ELSE active
    /\ \E loaded \in BOOLEAN :
           /\ loaded => CanLoad(active)
           /\ IF ~loaded /\ lastOta = "on_trial"
              THEN lastOta' = "undone" /\ owed' = owed \cup {Models} /\ at' = "undoing"
              ELSE at' = (IF loaded THEN "vision" ELSE "up") /\ UNCHANGED <<lastOta, owed>>
    /\ UNCHANGED <<slot, active, app, otaTo, fw, seeing, offer, sync, note, trialHoles>>

\* The face table or the pipeline may fail for reasons of their own.
StartVision ==
    /\ at = "vision" /\ at' = "settle"
    /\ seeing' \in BOOLEAN
    /\ UNCHANGED <<flash, fw, mapped, offer, sync, note, owed, trialHoles>>

\* Faulty form, for trying the properties: a pack that builds is kept unasked.
JudgedByLoad == CanLoad(active)

\* models_answer, once vision is up.
Judged == seeing /\ AnswersOn(active, fw)

SettleModels ==
    /\ at = "settle"
    /\ CASE lastOta # "on_trial" -> at' = "up" /\ UNCHANGED <<lastOta, owed, trialHoles>>
         [] lastOta = "on_trial" /\ Judged ->
                /\ lastOta' = "kept" /\ at' = "up" /\ UNCHANGED owed
                /\ trialHoles' = trialHoles \cup (IF OnTrial THEN {"seat"} ELSE {})
         [] OTHER -> /\ lastOta' = "undone" /\ at' = "undoing" /\ owed' = owed \cup {Models}
                     /\ UNCHANGED trialHoles
    /\ UNCHANGED <<slot, active, app, otaTo, fw, mapped, seeing, offer, sync, note>>

\* The slot goes back and the kiosk restarts, whether or not the write took.
Revert ==
    /\ at = "undoing"
    /\ \/ active' = 1 - active /\ UNCHANGED trialHoles
       \/ trialHoles' = trialHoles \cup {"seat"} /\ UNCHANGED active
    /\ Fall
    /\ UNCHANGED <<slot, lastOta, app, otaTo>>

\* The power goes, or a REBOOT command or a panic restarts the kiosk.
CutShort ==
    /\ at # "off"
    /\ trialHoles' = trialHoles \cup CutHoles
    /\ Fall
    /\ UNCHANGED flash

-----------------------------------------------------------------------------
(* ota_task                                                                *)

\* The spare slot is erased before the first byte; a build on trial takes no pack.
OfferModels(p) ==
    /\ Up /\ offer = NoOffer
    /\ MinFirmware[p] <= fw /\ ~OnTrial
    /\ slot' = [slot EXCEPT ![Spare] = Erased]
    /\ offer' = [step |-> "staging", what |-> p, into |-> Spare]
    /\ UNCHANGED <<active, lastOta, app, otaTo, at, fw, mapped, seeing, sync, note, owed, trialHoles>>

StageWrite ==
    /\ offer.step = "staging"
    /\ slot' = [slot EXCEPT ![offer.into] = Torn]
    /\ offer' = [offer EXCEPT !.step = "writing"]
    /\ UNCHANGED <<active, lastOta, app, otaTo, at, fw, mapped, seeing, sync, note, owed, trialHoles>>

StageEnd ==
    /\ offer.step = "writing"
    /\ slot' = [slot EXCEPT ![offer.into] = offer.what]
    /\ offer' = [offer EXCEPT !.step = "staged"]
    /\ UNCHANGED <<active, lastOta, app, otaTo, at, fw, mapped, seeing, sync, note, owed, trialHoles>>

\* No kiosk is offered the version it runs, and the ESP-IDF refuses to write over the other
\* slot while this build is on trial.
OfferFirmware(f) ==
    /\ Up /\ offer = NoOffer /\ ~OnTrial /\ f # fw
    /\ offer' = [NoOffer EXCEPT !.step = "firmware", !.what = f]
    /\ UNCHANGED <<flash, at, fw, mapped, seeing, sync, note, owed, trialHoles>>

ArmFirmware ==
    /\ offer.step = "firmware"
    /\ app' = [app EXCEPT !.next = offer.what, !.state = "new"]
    /\ offer' = [offer EXCEPT !.step = "unnamed"]
    /\ UNCHANGED <<slot, active, lastOta, otaTo, at, fw, mapped, seeing, sync, note, owed, trialHoles>>

NameUpdate ==
    /\ offer.step = "unnamed"
    /\ \/ otaTo' = offer.what
          /\ trialHoles' = trialHoles \cup (IF at = "up" \/ sync = "signed" THEN {"telling"} ELSE {})
       \/ trialHoles' = trialHoles \cup {"telling"} /\ UNCHANGED otaTo
    /\ offer' = [offer EXCEPT !.step = "armed"]
    /\ UNCHANGED <<slot, active, lastOta, app, at, fw, mapped, seeing, sync, note, owed>>

\* A download that stops, a digest that does not match, a slot that will not arm.
OfferFails ==
    /\ offer.step \in {"staging", "writing", "staged", "marked", "firmware"}
    /\ offer' = NoOffer
    /\ trialHoles' = trialHoles \cup (IF offer.step = "marked" THEN {"seat"} ELSE {})
    /\ UNCHANGED <<flash, at, fw, mapped, seeing, sync, note, owed>>

\* arm_spare_models: the mark goes down first.
Mark ==
    /\ lastOta' = "on_trial"
    /\ trialHoles' = trialHoles \cup (IF lastOta = "undone" THEN {"telling"} ELSE {})

Flip == active' = Spare

OfferMarks ==
    /\ offer.step = "staged" /\ Mark
    /\ offer' = [offer EXCEPT !.step = "marked"]
    /\ UNCHANGED <<slot, active, app, otaTo, at, fw, mapped, seeing, sync, note, owed>>

OfferFlips ==
    /\ offer.step = "marked" /\ Flip
    /\ offer' = [offer EXCEPT !.step = "armed"]
    /\ UNCHANGED <<slot, lastOta, app, otaTo, at, fw, mapped, seeing, sync, note, owed, trialHoles>>

\* Either task restarts the kiosk into what it armed, whatever the other is doing.
Restart ==
    /\ offer.step = "armed" \/ sync = "armed"
    /\ trialHoles' = trialHoles \cup CutHoles
    /\ Fall
    /\ UNCHANGED flash

-----------------------------------------------------------------------------
(* sync_task                                                               *)

\* Faulty form, for trying the properties: the name is forgotten at the first boot.
NameForgotten == NoFirmware

\* A build that runs under the name asked for keeps it until it signs off.
NameReported == IF otaTo = fw THEN otaTo ELSE NoFirmware

\* report_update_outcome, once per boot.
ReportOutcome ==
    /\ at = "up" /\ at' = "running"
    /\ LET back == otaTo \notin {NoFirmware, fw}
           undone == lastOta = "undone" IN
       /\ otaTo' = NameReported
       /\ lastOta' = IF undone THEN "none" ELSE lastOta
       /\ note' = (IF back THEN {Build(otaTo)} ELSE {}) \cup (IF undone THEN {Models} ELSE {})
    /\ UNCHANGED <<slot, active, app, fw, mapped, seeing, offer, sync, owed, trialHoles>>

SendNotes ==
    /\ at = "running" /\ sync = "idle" /\ note # {}
    /\ note' = {} /\ owed' = owed \ note
    /\ UNCHANGED <<flash, at, fw, mapped, seeing, offer, sync, trialHoles>>

\* set_active_slot asks the other slot for a header only.
SetActiveSlot ==
    /\ at = "running" /\ sync = "idle"
    /\ slot[Spare] # Erased
    /\ Mark /\ sync' = "marked"
    /\ UNCHANGED <<slot, active, app, otaTo, at, fw, mapped, seeing, offer, note, owed>>

CommandFlips ==
    /\ sync = "marked"
    /\ \/ Flip /\ sync' = "armed" /\ UNCHANGED trialHoles
       \/ sync' = "idle" /\ trialHoles' = trialHoles \cup {"seat"} /\ UNCHANGED active
    /\ UNCHANGED <<slot, lastOta, app, otaTo, at, fw, mapped, seeing, offer, note, owed>>

\* settle_this_build: vision up is all it asks for.
SignOff ==
    /\ at = "running" /\ sync = "idle" /\ OnTrial /\ seeing
    /\ app' = [valid |-> fw, next |-> NoFirmware, state |-> "none"]
    /\ sync' = "signed"
    /\ trialHoles' = trialHoles \cup (IF AnswersOn(mapped, fw) THEN {} ELSE {"seat"})
    /\ UNCHANGED <<slot, active, lastOta, otaTo, at, fw, mapped, seeing, offer, note, owed>>

ForgetUpdate ==
    /\ sync = "signed" /\ sync' = "idle"
    /\ otaTo' = NoFirmware
    /\ UNCHANGED <<slot, active, lastOta, app, at, fw, mapped, seeing, offer, note, owed, trialHoles>>

Booting == BootFirmware \/ LoadModels \/ StartVision \/ SettleModels \/ Revert \/ CutShort
OtaTask ==
    \/ (\E p \in Packs : OfferModels(p)) \/ (\E f \in Firmwares : OfferFirmware(f))
    \/ StageWrite \/ StageEnd \/ OfferMarks \/ OfferFlips \/ ArmFirmware \/ NameUpdate
    \/ OfferFails \/ Restart
SyncTask ==
    ReportOutcome \/ SendNotes \/ SetActiveSlot \/ CommandFlips \/ SignOff \/ ForgetUpdate

\* A kiosk past both kinds of hole is not followed further.
TrialNext == trialHoles # {"seat", "telling"} /\ (Booting \/ OtaTask \/ SyncTask)
TrialSpec == TrialInit /\ [][TrialNext]_trialVars

-----------------------------------------------------------------------------
TrialTypeOK ==
    /\ slot \in [Slots -> Packs \cup {Erased, Torn}] /\ active \in Slots
    /\ lastOta \in {"none", "on_trial", "kept", "undone"}
    /\ app \in [valid : Firmwares, next : Firmwares \cup {NoFirmware}, state : {"none", "new", "pending"}]
    /\ otaTo \in Firmwares \cup {NoFirmware} /\ fw \in Firmwares
    /\ at \in {"off", "boot", "vision", "settle", "undoing", "up", "running"}
    /\ mapped \in Slots \cup {NoSlot} /\ seeing \in BOOLEAN
    /\ sync \in {"idle", "marked", "armed", "signed"}
    /\ note \subseteq Rollbacks /\ owed \subseteq Rollbacks

\* Once nothing is on trial, the slot the next boot reads holds a pack that answers under the
\* firmware that is kept; while a pack is on trial, the slot it would go back to holds one: no
\* staging and no command takes the way back (load_models, settle_models, stage_begin,
\* set_active_slot).
APackThatAnswers ==
    "seat" \notin trialHoles =>
        IF lastOta # "on_trial" /\ at # "undoing"
        THEN AnswersOn(active, app.valid)
        ELSE AnswersOn(1 - active, app.valid) \/ (HalfArmed /\ AnswersOn(active, app.valid))

\* What was rolled back stays known until the server is told, and nothing else is told.
RollbackTold ==
    "telling" \notin trialHoles =>
        /\ \A v \in owed : \/ v \in note
                           \/ v = Build(otaTo)
                           \/ v = Models /\ lastOta = "undone"
        /\ note \subseteq owed
=============================================================================
