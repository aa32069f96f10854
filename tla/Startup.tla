------------------------------- MODULE Startup -------------------------------
(***************************************************************************)
(* The start of the PC program: Settings and settings.json, the runtime of *)
(* the selected model (main.py), the stores of the Matter credentials, and *)
(* the three steps of the start-up wizard, up to the main window.          *)
(*                                                                         *)
(* All of it runs on the Tk thread, one handler after the other; what may  *)
(* go wrong is a write of the file, the setup of a model, a credential     *)
(* that does not load, and the end of the program between any two          *)
(* handlers.  A handler that raises leaves behind what it did until then.  *)
(* What the pool of DACs holds is DacPool's business; here it is loaded.   *)
(***************************************************************************)
EXTENDS Naturals

CONSTANTS
  Model,     (* Models to select; each has its directory of examples.       *)
  Station,   (* Station ids.                                                *)
  Dir,       (* Directories for reports.                                    *)
  Own,       (* Credentials that are nobody's examples.                     *)
  NoValue,   (* None, or a key that is missing: the writes that turn the    *)
             (* one into the other are left out.                            *)
  Torn,      (* A settings.json that is no JSON any more.                   *)
  MaxSlips   (* Bound: failed writes of settings.json.                      *)

ASSUME StartupAssumption ==
  /\ NoValue \notin Model \cup Station \cup Dir \cup {Own}
  /\ MaxSlips \in Nat

Cert       == {"pai", "cd"}
Credential == Cert \cup {"dac"}
Origin     == Model \cup {Own}

VARIABLES
  pc,       (* The program is off, in the wizard, or in the main window.    *)
  values,   (* Settings._values.                                            *)
  file,     (* settings.json.                                               *)
  loaded,   (* What each store of credentials has loaded.                   *)
  active,   (* _active_model.                                               *)
  step,     (* _current_step_index of the navigator, from 1.                *)
  ready,    (* is_ready of each step.                                       *)
  chosen,   (* The model step's radio button.                               *)
  typed,    (* The station step's station_id and report_directory: its      *)
            (* fields, stripped and expanded.                               *)
  checked,  (* The credentials step's "Use Example".                        *)
  dirty,    (* The last write of settings.json failed (history).            *)
  failed,   (* The last change of model was not followed by a setup         *)
            (* (history).                                                   *)
  slips

wizardVars == <<step, ready, chosen, typed, checked>>
storeVars  == <<values, file, loaded, dirty, slips>>
vars == <<pc, storeVars, active, failed, wizardVars>>

Or(S) == S \cup {NoValue}

Values ==
  [model : Or(Model), station : Or(Station), report : Or(Dir),
   example : BOOLEAN, dac : Or(Origin), pai : Or(Origin), cd : Or(Origin)]

Fresh == [model |-> NoValue, station |-> NoValue, report |-> NoValue,
          example |-> FALSE, dac |-> NoValue, pai |-> NoValue, cd |-> NoValue]

Nothing == [c \in Credential |-> NoValue]
Blank   == [station |-> NoValue, report |-> NoValue]

TypeOK ==
  /\ pc \in {"off", "wizard", "main"}
  /\ values \in Values /\ file \in Values \cup {Torn}
  /\ loaded \in [Credential -> Or(Origin)]
  /\ active \in Or(Model)
  /\ step \in 1..3 /\ ready \in [1..3 -> BOOLEAN]
  /\ chosen \in Or(Model)
  /\ typed \in [station : Or(Station), report : Or(Dir)]
  /\ checked \in BOOLEAN /\ dirty \in BOOLEAN /\ failed \in BOOLEAN
  /\ slips \in 0..MaxSlips

Init ==
  /\ pc = "off"
  /\ values = Fresh /\ file = Fresh /\ loaded = Nothing /\ active = NoValue
  /\ step = 1 /\ ready = [i \in 1..3 |-> FALSE]
  /\ chosen = NoValue /\ typed = Blank /\ checked = FALSE
  /\ dirty = FALSE /\ failed = FALSE /\ slips = 0

-----------------------------------------------------------------------------
(***************************************************************************)
(* Settings and stores.  An operation takes the state they are in and      *)
(* returns the states it may leave; ok says that it did not raise.         *)
(***************************************************************************)
Now == [values |-> values, file |-> file, loaded |-> loaded, dirty |-> dirty,
        slips |-> slips, ok |-> TRUE]

Becomes(s) ==
  /\ values' = s.values /\ file' = s.file /\ loaded' = s.loaded
  /\ dirty' = s.dirty /\ slips' = s.slips

Then(S, Step(_)) == UNION {IF s.ok THEN Step(s) ELSE {s} : s \in S}

Raised(s) == [s EXCEPT !.ok = FALSE]

(* _save opens the file with "w" and writes all of the settings; it may    *)
(* not come to open it, or to write it.                                    *)
Save(s) ==
  {[s EXCEPT !.file = s.values, !.dirty = FALSE]}
  \cup {[Raised(s) EXCEPT !.file = f, !.dirty = TRUE, !.slips = @ + 1] :
          f \in IF s.slips < MaxSlips THEN {s.file, Torn} ELSE {}}

(* Settings.set: memory first, then the file; nothing for a value that     *)
(* memory has already.  Only the model has a subscriber: see NextModel.    *)
Put(s, key, value) ==
  IF s.values[key] = value
  THEN {s} ELSE Save([s EXCEPT !.values[key] = value])

(* DacCredentialPoolStore.load: refused; no pair found, the pool emptied;  *)
(* stat.json not written, the pool loaded; or the path is kept.            *)
LoadDac(s, path) ==
  {Raised(s), [Raised(s) EXCEPT !.loaded["dac"] = NoValue],
   [Raised(s) EXCEPT !.loaded["dac"] = path]}
  \cup Put([s EXCEPT !.loaded["dac"] = path], "dac", path)

LoadCert_ClearsFirst(s, c, path) ==
  {[Raised(s) EXCEPT !.loaded[c] = NoValue]}
  \cup Put([s EXCEPT !.loaded[c] = path], c, path)

(* PaiCertStore.load, CdCertStore.load: refused, or the path is kept.      *)
LoadCert(s, c, path) ==
  {Raised(s)} \cup Put([s EXCEPT !.loaded[c] = path], c, path)

LoadCd(s, path) == LoadCert(s, "cd", path)

Load(s, c, path) ==
  CASE c = "dac" -> LoadDac(s, path)
    [] c = "pai" -> LoadCert(s, "pai", path)
    [] c = "cd"  -> LoadCd(s, path)

(* A store's constructor loads the path in the settings; one that does not *)
(* load is taken out of them.                                              *)
Restore(s, c) ==
  IF s.values[c] = NoValue
  THEN {s}
  ELSE UNION {IF t.ok
              THEN {t}
              ELSE Put([s EXCEPT !.loaded[c] = NoValue], c, NoValue) :
              t \in Load(s, c, s.values[c])}

RestoreAll(s) ==
  Then(Then(Restore(s, "cd"), LAMBDA t : Restore(t, "dac")),
       LAMBDA t : Restore(t, "pai"))

(* _apply_example_paths: one after the other, for the model of the         *)
(* settings; what raises is logged and leaves the rest unloaded.           *)
ApplyExample(s) ==
  LET m == s.values.model IN
  IF m = NoValue
  THEN {s}
  ELSE {[t EXCEPT !.ok = TRUE] :
        t \in {s} \cup Then(Then(LoadDac(s, m),
                                 LAMBDA u : LoadCert(u, "pai", m)),
                            LAMBDA u : LoadCd(u, m))}

-----------------------------------------------------------------------------
(***************************************************************************)
(* The runtime of a model.                                                 *)
(***************************************************************************)

SetUp_Once(m) ==
  /\ active' = IF active = NoValue THEN m ELSE active
  /\ failed' = FALSE

(* _setup_runtime_for_model: the previous model is torn down, ...          *)
SetUp(m) == active' = m /\ failed' = FALSE

(* ... also when schema or stream of the new one cannot be set up.         *)
SetUpRaises == active' = NoValue /\ failed' = TRUE

(* _teardown_active_model in main's finally; the process ends.             *)
End ==
  /\ pc' = "off"
  /\ values' = Fresh /\ loaded' = Nothing /\ active' = NoValue
  /\ step' = 1 /\ ready' = [i \in 1..3 |-> FALSE]
  /\ chosen' = NoValue /\ typed' = Blank /\ checked' = FALSE
  /\ dirty' = FALSE /\ failed' = FALSE

-----------------------------------------------------------------------------
(***************************************************************************)
(* Readiness of the steps.                                                 *)
(***************************************************************************)
ModelReady(m)      == m # NoValue
StationReady(t)    == t.station # NoValue /\ t.report # NoValue
CredentialsReady(l) == \A c \in Credential : l[c] # NoValue

-----------------------------------------------------------------------------
(***************************************************************************)
(* The program starts and ends.                                            *)
(***************************************************************************)

(* Settings._load; a file that is missing is made.                         *)
Read == [values |-> file, file |-> file, loaded |-> Nothing, dirty |-> FALSE,
         slips |-> slips, ok |-> TRUE]

(* The constructors of the three steps; the last one applies the examples  *)
(* when the settings say so.                                               *)
OpenModelStep(s)   == chosen' = s.values.model
OpenStationStep(s) ==
  typed' = [station |-> s.values.station, report |-> s.values.report]
OpenCredentialsStep(r, s) ==
  /\ s \in IF r.values.example THEN ApplyExample(r) ELSE {r}
  /\ checked' = r.values.example
  /\ ready' = <<ModelReady(s.values.model), StationReady(s.values),
                CredentialsReady(s.loaded)>>

(* main, _run_application and Window, up to the wizard.                    *)
Start ==
  /\ pc = "off" /\ file # Torn
  /\ \E r \in RestoreAll(Read) :
       /\ r.ok
       /\ \E s \in {r} \cup ApplyExample(r) :
            /\ OpenModelStep(s) /\ OpenStationStep(s)
            /\ OpenCredentialsStep(r, s)
            /\ Becomes(s)
  /\ active' = file.model /\ failed' = FALSE
  /\ pc' = "wizard" /\ step' = 1

(* A store cannot write the settings, or the model's setup raises: the     *)
(* program ends.                                                           *)
StartRaises ==
  /\ pc = "off" /\ file # Torn
  /\ \E r \in RestoreAll(Read) :
       /\ ~r.ok \/ file.model # NoValue
       /\ file' = r.file /\ slips' = r.slips
  /\ End

(* The dialog or the window is closed, or the process ends.                *)
Close ==
  /\ pc # "off"
  /\ End
  /\ UNCHANGED <<file, slips>>

(* With a torn file the program does not start (SettingsError) until the   *)
(* operator takes it away.                                                 *)
TakeFileAway ==
  /\ pc = "off" /\ file = Torn
  /\ file' = Fresh
  /\ UNCHANGED <<pc, values, loaded, dirty, slips, active, failed, wizardVars>>

-----------------------------------------------------------------------------
(***************************************************************************)
(* The wizard.  A selector button acts on the current step only.           *)
(***************************************************************************)
InStep(i) == pc = "wizard" /\ step = i

(* Navigator.next goes on after a commit that did not raise.               *)
Advance(s) == step' = IF s.ok THEN step + 1 ELSE step

ChooseModel ==
  /\ InStep(1)
  /\ \E m \in Model \ {chosen} :
       /\ chosen' = m
       /\ ready' = [ready EXCEPT ![1] = ModelReady(m)]
  /\ UNCHANGED <<pc, storeVars, active, failed, step, typed, checked>>

(* ModelSelectionStep.commit: nothing happens for the model the settings   *)
(* have; a new one is written, and only then main.py called back.          *)
NextModel ==
  /\ InStep(1) /\ ready[1]
  /\ \E s \in Put(Now, "model", chosen) :
       /\ Becomes(s)
       /\ \/ /\ values.model = chosen
             /\ step' = 2 /\ UNCHANGED <<active, failed>>
          \/ /\ values.model # chosen /\ ~s.ok
             /\ failed' = TRUE /\ UNCHANGED <<step, active>>
          \/ /\ values.model # chosen /\ s.ok
             /\ \/ SetUp(chosen) /\ step' = 2
                \/ SetUpRaises /\ UNCHANGED step
  /\ UNCHANGED <<pc, ready, chosen, typed, checked>>

TypeStation ==
  /\ InStep(2)
  /\ \E id \in Or(Station) : typed' = [typed EXCEPT !.station = id]
  /\ ready' = [ready EXCEPT ![2] = StationReady(typed')]
  /\ UNCHANGED <<pc, storeVars, active, failed, step, chosen, checked>>

(* By hand or by the card's directory dialog.                              *)
EnterDir ==
  /\ InStep(2)
  /\ \E dir \in Or(Dir) : typed' = [typed EXCEPT !.report = dir]
  /\ ready' = [ready EXCEPT ![2] = StationReady(typed')]
  /\ UNCHANGED <<pc, storeVars, active, failed, step, chosen, checked>>

NextStation_OnlyOnce ==
  /\ InStep(2) /\ ready[2]
  /\ \E s \in IF values.station # NoValue THEN {Now}
            ELSE Then(Put(Now, "station", typed.station),
                      LAMBDA t : Put(t, "report", typed.report)) :
       Becomes(s) /\ Advance(s)
  /\ UNCHANGED <<pc, active, failed, ready, chosen, typed, checked>>

(* StationSetupStep.commit: two settings, one after the other.             *)
NextStation ==
  /\ InStep(2) /\ ready[2]
  /\ \E s \in Then(Put(Now, "station", typed.station),
                   LAMBDA t : Put(t, "report", typed.report)) :
       Becomes(s) /\ Advance(s)
  /\ UNCHANGED <<pc, active, failed, ready, chosen, typed, checked>>

Prev_AnyStep ==
  /\ pc = "wizard"
  /\ step' = step - 1
  /\ UNCHANGED <<pc, storeVars, active, failed, ready, chosen, typed, checked>>

Prev ==
  /\ pc = "wizard" /\ step > 1
  /\ step' = step - 1
  /\ UNCHANGED <<pc, storeVars, active, failed, ready, chosen, typed, checked>>

(* A resolver's _on_browse.  Only a load that does not raise is published, *)
(* so the readiness may be out of date.                                    *)
Browse(c) ==
  /\ InStep(3)
  /\ \E s \in Load(Now, c, Own) :
       /\ Becomes(s)
       /\ ready' = [ready EXCEPT ![3] = IF s.ok THEN CredentialsReady(s.loaded)
                                        ELSE @]
  /\ UNCHANGED <<pc, active, failed, step, chosen, typed, checked>>

BrowseDac == Browse("dac")
BrowsePai == Browse("pai")
BrowseCd  == Browse("cd")

(* _on_use_example_changed; Tk has toggled the box before.                 *)
ToggleExample ==
  /\ InStep(3)
  /\ checked' = ~checked
  /\ \E s \in Put(Now, "example", checked') :
       \/ ~s.ok /\ Becomes(s) /\ UNCHANGED ready
       \/ /\ s.ok
          /\ \E t \in IF checked' THEN ApplyExample(s) ELSE {s} :
               /\ Becomes(t)
               /\ ready' = [ready EXCEPT ![3] = CredentialsReady(t.loaded)]
  /\ UNCHANGED <<pc, active, failed, step, chosen, typed>>

Finish_TrustsReady ==
  /\ InStep(3) /\ ready[3]
  /\ pc' = "main" /\ UNCHANGED ready
  /\ UNCHANGED <<storeVars, active, failed, step, chosen, typed, checked>>

(* MatterCredentialsStep.commit looks again.                               *)
CommitCredentials == ready' = [ready EXCEPT ![3] = CredentialsReady(loaded)]

(* Navigator.finish: the main window is opened; one that cannot be built   *)
(* is closed at once.                                                      *)
Finish ==
  /\ InStep(3) /\ ready[3]
  /\ CommitCredentials
  /\ pc' = IF ready'[3] THEN "main" ELSE pc
  /\ UNCHANGED <<storeVars, active, failed, step, chosen, typed, checked>>

Next ==
  \/ Start \/ StartRaises \/ Close \/ TakeFileAway
  \/ ChooseModel \/ NextModel \/ TypeStation \/ EnterDir \/ NextStation \/ Prev
  \/ BrowseDac \/ BrowsePai \/ BrowseCd \/ ToggleExample \/ Finish

Spec == Init /\ [][Next]_vars

-----------------------------------------------------------------------------
(* Nobody gets to the main window with something missing: a model, station *)
(* and report directory in the settings and all credentials loaded, though *)
(* readiness may be out of date and a load may empty a store.              *)
FinishedIsConfigured ==
  pc = "main" =>
    /\ \A key \in {"model", "station", "report"} : values[key] # NoValue
    /\ \A c \in Credential : loaded[c] # NoValue

(* The steps left behind show what the settings hold, back and forth       *)
(* through the wizard, with commits that fail half way, and after a start. *)
PassedStepsAreKept ==
  pc # "off" =>
    /\ step > 1 => values.model = chosen
    /\ step > 2 => /\ values.station = typed.station
                   /\ values.report = typed.report

(* No runtime but that of the selected model runs, unless a write or a     *)
(* setup failed in the change of model.  (Next once more then passes over  *)
(* it, for Settings.set finds nothing to do.)                              *)
RuntimeFollowsModel == pc # "off" => active = values.model \/ failed

(* After the last write that did not fail, settings.json holds what the    *)
(* program uses, and certificates are those of the path in the settings,   *)
(* whatever was refused.                                                   *)
SettingsAreKept ==
  pc # "off" =>
    /\ dirty \/ file = values
    /\ \A c \in Cert : loaded[c] = values[c]

=============================================================================
