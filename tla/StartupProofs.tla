---------------------------- MODULE StartupProofs ----------------------------
(***************************************************************************)
(* Proofs about the start of the program, for any models, stations and     *)
(* report directories and any number of failing writes: what the steps     *)
(* show, the settings, settings.json, the stores and the runtime agree.    *)
(***************************************************************************)
EXTENDS Startup, TLAPS

Keys  == {"model", "station", "report", "example", "dac", "pai", "cd"}
Plain == Keys \ Credential

(* A state of settings and stores has its fields.                          *)
Shape(s) ==
  /\ DOMAIN s = {"values", "file", "loaded", "dirty", "slips", "ok"}
  /\ DOMAIN s.values = Keys /\ DOMAIN s.loaded = Credential
  /\ s.file = Torn \/ DOMAIN s.file = Keys

(* After a write that did not fail the file is what memory is, and a       *)
(* certificate that of its setting.                                        *)
Written(s)    == s.dirty \/ s.file = s.values
Agrees(s, c)  == s.loaded[c] = s.values[c]
Kept(s)       == Written(s) /\ \A c \in Cert : Agrees(s, c)
SamePlain(s, t) == \A key \in Plain : t.values[key] = s.values[key]

SameCerts(s, t, C) ==
  \A d \in Cert \ C : t.loaded[d] = s.loaded[d] /\ t.values[d] = s.values[d]

LEMMA PutMeans ==
  ASSUME NEW s, Shape(s), NEW key \in Keys, NEW value, NEW t \in Put(s, key, value)
  PROVE  /\ Shape(t) /\ t.loaded = s.loaded
         /\ t.values[key] = value
         /\ \A k \in Keys \ {key} : t.values[k] = s.values[k]
         /\ Written(s) => Written(t)
<1>1. CASE s.values[key] = value
  BY <1>1 DEF Put
<1>2. CASE s.values[key] # value
  <2> DEFINE u == [s EXCEPT !.values[key] = value]
  <2>1. /\ DOMAIN u = DOMAIN s /\ DOMAIN u.values = Keys
        /\ u.values[key] = value /\ \A k \in Keys \ {key} : u.values[k] = s.values[k]
        /\ u.loaded = s.loaded /\ u.file = s.file
    BY DEF Shape
  <2>2. t \in Save(u)
    BY <1>2 DEF Put
  <2> HIDE DEF u
  <2>3. /\ DOMAIN t = DOMAIN u /\ t.values = u.values /\ t.loaded = u.loaded
        /\ \/ t.file = u.values /\ Written(t)
           \/ t.file \in {u.file, Torn} /\ t.dirty
    BY <2>1, <2>2 DEF Save, Raised, Shape, Written
  <2> QED BY <2>1, <2>3 DEF Shape, Written
<1> QED BY <1>1, <1>2

(* A load leaves the other settings and stores alone, and store and        *)
(* setting of a certificate together.                                      *)
LEMMA LoadMeans ==
  ASSUME NEW s, Shape(s), NEW c \in Credential, NEW path, NEW t \in Load(s, c, path)
  PROVE  /\ Shape(t) /\ SamePlain(s, t)
         /\ Written(s) => Written(t)
         /\ SameCerts(s, t, {c})
         /\ c \in Cert /\ Agrees(s, c) => Agrees(t, c)
         /\ c \in Cert /\ t.ok => t.values[c] = path /\ t.loaded[c] = path
<1> DEFINE u == [s EXCEPT !.loaded[c] = path]
<1>1. /\ Shape(u) /\ u.values = s.values /\ u.loaded[c] = path
      /\ \A d \in Credential \ {c} : u.loaded[d] = s.loaded[d]
      /\ u.dirty = s.dirty /\ u.file = s.file
  BY DEF Shape
<1>2. c \in Keys \ Plain /\ Cert \subseteq Keys /\ Cert \subseteq Credential
  BY DEF Keys, Plain, Credential, Cert
<1>3. CASE t \in Put(u, c, path)
  <2> HIDE DEF u
  <2>1. /\ Shape(t) /\ t.loaded = u.loaded /\ t.values[c] = path
        /\ \A k \in Keys \ {c} : t.values[k] = u.values[k]
        /\ Written(u) => Written(t)
    BY <1>1, <1>2, <1>3, PutMeans
  <2> QED BY <1>1, <1>2, <2>1 DEF SamePlain, SameCerts, Agrees, Written, Plain
<1>4. CASE t = Raised(s)
  BY <1>4 DEF Raised, Shape, SamePlain, SameCerts, Agrees, Written
<1>5. CASE c = "dac" /\ \E v : t = [Raised(s) EXCEPT !.loaded["dac"] = v]
  BY <1>5 DEF Raised, Shape, SamePlain, SameCerts, Agrees, Written, Cert, Credential
<1> QED
  <2>1. CASE c = "dac"
    <3>1. t \in LoadDac(s, path)
      BY <2>1 DEF Load
    <3> QED BY <1>3, <1>4, <1>5, <2>1, <3>1 DEF LoadDac
  <2>2. CASE c \in Cert
    <3>1. t \in LoadCert(s, c, path)
      BY <2>2 DEF Load, LoadCd, Cert
    <3> QED BY <1>3, <1>4, <3>1 DEF LoadCert
  <2> QED BY <2>1, <2>2 DEF Credential

(* A store restored as the settings say agrees with them afterwards.       *)
LEMMA RestoreMeans ==
  ASSUME NEW s, Shape(s), NEW c \in Credential, NEW t \in Restore(s, c)
  PROVE  /\ Shape(t) /\ SamePlain(s, t)
         /\ Written(s) => Written(t)
         /\ SameCerts(s, t, {c})
         /\ c \in Cert /\ t.ok /\ (s.values[c] = NoValue => s.loaded[c] = NoValue)
              => Agrees(t, c)
<1>1. CASE s.values[c] = NoValue
  BY <1>1 DEF Restore, SamePlain, SameCerts, Agrees
<1>2. CASE s.values[c] # NoValue
  <2>1. PICK u \in Load(s, c, s.values[c]) :
          t \in IF u.ok THEN {u} ELSE Put([s EXCEPT !.loaded[c] = NoValue], c, NoValue)
    BY <1>2 DEF Restore
  <2>2. CASE u.ok
    <3>1. t = u
      BY <2>1, <2>2
    <3>2. /\ Shape(u) /\ SamePlain(s, u) /\ (Written(s) => Written(u))
          /\ SameCerts(s, u, {c})
      BY LoadMeans
    <3>3. ASSUME c \in Cert PROVE Agrees(u, c)
      <4>1. PICK path : path = s.values[c]
        OBVIOUS
      <4>2. u \in Load(s, c, path)
        BY <4>1
      <4>3. u.values[c] = path /\ u.loaded[c] = path
        BY <2>2, <3>3, <4>2, LoadMeans, ZenonT(30)
      <4> QED BY <4>3 DEF Agrees
    <3> QED BY <3>1, <3>2, <3>3
  <2>3. CASE ~u.ok
    <3> DEFINE v == [s EXCEPT !.loaded[c] = NoValue]
    <3>1. /\ Shape(v) /\ v.values = s.values /\ v.loaded[c] = NoValue
          /\ \A d \in Credential \ {c} : v.loaded[d] = s.loaded[d]
          /\ v.dirty = s.dirty /\ v.file = s.file
      BY DEF Shape
    <3>2. c \in Keys \ Plain /\ Cert \subseteq Keys /\ Cert \subseteq Credential
      BY DEF Keys, Plain, Credential, Cert
    <3>3. t \in Put(v, c, NoValue)
      BY <2>1, <2>3
    <3> HIDE DEF v
    <3>4. /\ Shape(t) /\ t.loaded = v.loaded /\ t.values[c] = NoValue
          /\ \A k \in Keys \ {c} : t.values[k] = v.values[k]
          /\ Written(v) => Written(t)
      BY <3>1, <3>2, <3>3, PutMeans
    <3> QED BY <3>1, <3>2, <3>4 DEF SamePlain, SameCerts, Agrees, Written, Plain
  <2> QED BY <2>2, <2>3
<1> QED BY <1>1, <1>2

LEMMA RestoreAllMeans ==
  ASSUME NEW s, Shape(s), s.loaded = Nothing, Written(s), NEW t \in RestoreAll(s), t.ok
  PROVE  Shape(t) /\ SamePlain(s, t) /\ Kept(t)
<1>1. /\ "cd" \in Cert /\ "pai" \in Cert /\ "dac" \in Credential \ Cert
      /\ Cert = {"cd", "pai"} /\ Cert \subseteq Credential
  BY DEF Cert, Credential
<1>2. PICK u \in Then(Restore(s, "cd"), LAMBDA x : Restore(x, "dac")) :
        u.ok /\ t \in Restore(u, "pai")
  BY DEF RestoreAll, Then
<1>3. PICK r \in Restore(s, "cd") : r.ok /\ u \in Restore(r, "dac")
  BY <1>2 DEF Then
<1>4. \A c \in Credential : s.loaded[c] = NoValue
  BY DEF Nothing
<1>5. /\ Shape(r) /\ SamePlain(s, r) /\ Written(r) /\ Agrees(r, "cd")
      /\ SameCerts(s, r, {"cd"})
  <2>1. s.values["cd"] = NoValue => s.loaded["cd"] = NoValue
    BY <1>1, <1>4
  <2>2. r \in Restore(s, "cd") /\ "cd" \in Credential
    BY <1>1, <1>3
  <2> QED BY <1>1, <1>3, <2>1, <2>2, RestoreMeans
<1>6. Shape(u) /\ SamePlain(r, u) /\ Written(u) /\ SameCerts(r, u, {"dac"})
  BY <1>1, <1>3, <1>5, RestoreMeans
<1>7. u.loaded["pai"] = NoValue /\ Agrees(u, "cd")
  BY <1>1, <1>4, <1>5, <1>6 DEF SameCerts, Agrees
<1>8. /\ Shape(t) /\ SamePlain(u, t) /\ Written(t) /\ Agrees(t, "pai")
      /\ SameCerts(u, t, {"pai"})
  <2>1. t \in Restore(u, "pai") /\ "pai" \in Credential
    BY <1>1, <1>2
  <2> QED BY <1>1, <1>6, <1>7, <2>1, RestoreMeans
<1> QED BY <1>1, <1>5, <1>6, <1>7, <1>8 DEF SamePlain, SameCerts, Agrees, Kept

(* The examples: one that does not load leaves the rest as it is.          *)
LEMMA ExampleMeans ==
  ASSUME NEW s, Shape(s), Kept(s), NEW t \in ApplyExample(s)
  PROVE  Shape(t) /\ SamePlain(s, t) /\ Kept(t)
<1> DEFINE m == s.values.model
           Good(x) == Shape(x) /\ SamePlain(s, x) /\ Kept(x)
<1>1. ASSUME NEW x, Good(x), NEW c \in Credential, NEW y \in Load(x, c, m)
      PROVE  Good(y)
  <2>1. /\ Shape(y) /\ SamePlain(x, y) /\ Written(y) /\ SameCerts(x, y, {c})
        /\ c \in Cert => Agrees(y, c)
    BY <1>1, LoadMeans DEF Kept
  <2> QED BY <1>1, <2>1 DEF SamePlain, SameCerts, Agrees, Kept
<1>2. Good(s)
  BY DEF SamePlain
<1>3. "dac" \in Credential /\ "pai" \in Credential /\ "cd" \in Credential
  BY DEF Credential, Cert
<1>4. \A x, y : y \in LoadDac(x, m) => y \in Load(x, "dac", m)
  BY DEF Load
<1>5. \A x, y : y \in LoadCert(x, "pai", m) => y \in Load(x, "pai", m)
  BY DEF Load
<1>6. \A x, y : y \in LoadCd(x, m) => y \in Load(x, "cd", m)
  BY DEF Load
<1> HIDE DEF Good
<1>7. \A x \in LoadDac(s, m) : Good(x)
  BY <1>1, <1>2, <1>3, <1>4
<1>8. \A x \in Then(LoadDac(s, m), LAMBDA u : LoadCert(u, "pai", m)) : Good(x)
  BY <1>1, <1>3, <1>5, <1>7 DEF Then
<1>9. \A x \in Then(Then(LoadDac(s, m), LAMBDA u : LoadCert(u, "pai", m)),
                    LAMBDA u : LoadCd(u, m)) : Good(x)
  <2> DEFINE T == Then(LoadDac(s, m), LAMBDA u : LoadCert(u, "pai", m))
  <2>1. \A x \in T : Good(x)
    BY <1>8
  <2> HIDE DEF T
  <2>2. \A x \in Then(T, LAMBDA u : LoadCd(u, m)) : Good(x)
    BY <1>1, <1>3, <1>6, <2>1 DEF Then
  <2> QED BY <2>2 DEF T
<1>10. \E u : Good(u) /\ (t = u \/ t = [u EXCEPT !.ok = TRUE])
  BY <1>2, <1>9 DEF ApplyExample
<1> QED BY <1>10 DEF Good, Shape, SamePlain, Kept, Written, Agrees

LEMMA RestoreAllShape ==
  ASSUME NEW s, Shape(s), NEW t \in RestoreAll(s)
  PROVE  Shape(t)
<1>1. "cd" \in Credential /\ "pai" \in Credential /\ "dac" \in Credential
  BY DEF Cert, Credential
<1> DEFINE T == Then(Restore(s, "cd"), LAMBDA x : Restore(x, "dac"))
<1>2. \A x \in Restore(s, "cd") : Shape(x)
  BY <1>1, RestoreMeans
<1>3. \A x \in T : Shape(x)
  BY <1>1, <1>2, RestoreMeans DEF Then
<1> HIDE DEF T
<1>4. \A x \in Then(T, LAMBDA u : Restore(u, "pai")) : Shape(x)
  BY <1>1, <1>3, RestoreMeans DEF Then
<1> QED BY <1>4 DEF RestoreAll, T
-----------------------------------------------------------------------------
Domains ==
  /\ DOMAIN values = Keys /\ DOMAIN loaded = Credential
  /\ file = Torn \/ DOMAIN file = Keys
  /\ DOMAIN ready = 1..3 /\ DOMAIN typed = {"station", "report"}
  /\ step \in 1..3

(* Readiness of the first two steps is that of what they show, and a step  *)
(* left behind was ready.                                                  *)
Steps ==
  pc # "off" =>
    /\ ready[1] = ModelReady(chosen) /\ ready[2] = StationReady(typed)
    /\ step > 1 => ModelReady(chosen)
    /\ step > 2 => StationReady(typed)

Finished == pc = "main" => step = 3 /\ CredentialsReady(loaded)

StartupInv ==
  /\ Domains /\ Steps /\ Finished
  /\ PassedStepsAreKept /\ RuntimeFollowsModel /\ SettingsAreKept

LEMMA NowShape ==
  ASSUME StartupInv, pc # "off"
  PROVE  Shape(Now) /\ Kept(Now) /\ Now.values = values /\ Now.loaded = loaded
BY DEF StartupInv, Domains, SettingsAreKept, Now, Shape, Kept, Written, Agrees

(* What a step of the wizard leaves of settings and stores.                *)
LEMMA BecomesKept ==
  ASSUME NEW s, Shape(s), Kept(s), Becomes(s)
  PROVE  /\ DOMAIN values' = Keys /\ DOMAIN loaded' = Credential
         /\ file' = Torn \/ DOMAIN file' = Keys
         /\ SettingsAreKept'
BY DEF Becomes, Shape, Kept, Written, Agrees, SettingsAreKept

LEMMA StartupInit == Init => StartupInv
<1> SUFFICES ASSUME Init PROVE StartupInv OBVIOUS
<1>1. pc = "off" /\ step = 1 /\ values = Fresh /\ file = Fresh /\ loaded = Nothing /\ typed = Blank
  BY DEF Init
<1>2. Domains
  BY <1>1 DEF Init, Domains, Fresh, Nothing, Blank, Keys
<1> QED BY <1>1, <1>2
    DEF StartupInv, Steps, Finished, PassedStepsAreKept, RuntimeFollowsModel, SettingsAreKept

(* The program ends; the file is one of Keys or torn.                      *)
LEMMA EndMeans ==
  ASSUME End, file' = Torn \/ DOMAIN file' = Keys
  PROVE  StartupInv'
<1>1. /\ pc' = "off" /\ step' = 1 /\ values' = Fresh /\ loaded' = Nothing /\ typed' = Blank
      /\ DOMAIN ready' = 1..3
  BY DEF End
<1>2. Domains'
  BY <1>1 DEF Domains, Fresh, Nothing, Blank, Keys
<1> QED BY <1>1, <1>2
    DEF StartupInv, Steps, Finished, PassedStepsAreKept, RuntimeFollowsModel, SettingsAreKept

LEMMA ProgramStep ==
  ASSUME StartupInv, Start \/ StartRaises \/ Close \/ TakeFileAway
  PROVE  StartupInv'
<1>1. ASSUME file # Torn
      PROVE  /\ Shape(Read) /\ Read.loaded = Nothing /\ Written(Read)
             /\ Read.values = file
  BY <1>1 DEF StartupInv, Domains, Read, Nothing, Shape, Written
<1>2. CASE Start
  <2>1. PICK r \in RestoreAll(Read) :
          /\ r.ok
          /\ \E s \in {r} \cup ApplyExample(r) :
               OpenModelStep(s) /\ OpenStationStep(s) /\ OpenCredentialsStep(r, s) /\ Becomes(s)
    BY <1>2 DEF Start
  <2>2. PICK s \in {r} \cup ApplyExample(r) :
          OpenModelStep(s) /\ OpenStationStep(s) /\ OpenCredentialsStep(r, s) /\ Becomes(s)
    BY <2>1
  <2>3. Shape(r) /\ SamePlain(Read, r) /\ Kept(r)
    BY <1>1, <1>2, <2>1, RestoreAllMeans DEF Start
  <2>4. Shape(s) /\ SamePlain(r, s) /\ Kept(s)
    BY <2>2, <2>3, ExampleMeans DEF SamePlain
  <2>5. "model" \in Plain
    BY DEF Plain, Keys, Credential, Cert
  <2>6. s.values.model = file.model
    BY <1>1, <1>2, <2>3, <2>4, <2>5 DEF Start, SamePlain
  <2>7. /\ pc' = "wizard" /\ step' = 1 /\ active' = file.model
        /\ values' = s.values /\ chosen' = s.values.model
        /\ typed' = [station |-> s.values.station, report |-> s.values.report]
        /\ ready' = <<ModelReady(s.values.model), StationReady(s.values),
                      CredentialsReady(s.loaded)>>
    BY <1>2, <2>2 DEF Start, Becomes, OpenModelStep, OpenStationStep, OpenCredentialsStep
  <2>8. Domains' /\ SettingsAreKept'
    <3>1. DOMAIN ready' = 1..3 /\ DOMAIN typed' = {"station", "report"} /\ step' \in 1..3
      BY <2>7
    <3> QED BY <2>2, <2>4, <3>1, BecomesKept DEF Domains
  <2>9. Steps'
    BY <2>7 DEF Steps, StationReady
  <2> QED BY <2>6, <2>7, <2>8, <2>9
      DEF StartupInv, Finished, PassedStepsAreKept, RuntimeFollowsModel
<1>3. CASE StartRaises
  <2>1. file' = Torn \/ DOMAIN file' = Keys
    BY <1>1, <1>3, RestoreAllShape DEF StartRaises, Shape
  <2> QED BY <1>3, <2>1, EndMeans DEF StartRaises
<1>4. CASE Close
  BY <1>4, EndMeans DEF Close, StartupInv, Domains
<1>5. CASE TakeFileAway
  <2>1. DOMAIN Fresh = Keys
    BY DEF Fresh, Keys
  <2> QED BY <1>5, <2>1
      DEF TakeFileAway, wizardVars, StartupInv, Domains, Steps, Finished,
          PassedStepsAreKept, RuntimeFollowsModel, SettingsAreKept
<1> QED BY <1>2, <1>3, <1>4, <1>5

(* Steps of the wizard that leave settings and stores alone.               *)
LEMMA InputStep ==
  ASSUME StartupInv, ChooseModel \/ TypeStation \/ EnterDir \/ Prev \/ Finish
  PROVE  StartupInv'
<1> USE DEF StartupInv, Domains, storeVars
<1>1. UNCHANGED <<values, file, loaded, dirty, active, failed>>
  BY DEF ChooseModel, TypeStation, EnterDir, Prev, Finish
<1>2. RuntimeFollowsModel' /\ SettingsAreKept'
  BY <1>1 DEF ChooseModel, TypeStation, EnterDir, Prev, Finish, InStep,
              RuntimeFollowsModel, SettingsAreKept
<1>3. CASE ChooseModel
  BY <1>1, <1>2, <1>3 DEF ChooseModel, InStep, Steps, Finished, PassedStepsAreKept, ModelReady
<1>4. CASE TypeStation \/ EnterDir
  <2>1. /\ UNCHANGED <<pc, step, chosen>> /\ pc = "wizard" /\ step = 2
        /\ ready' = [ready EXCEPT ![2] = StationReady(typed')]
        /\ DOMAIN typed' = DOMAIN typed
    BY <1>4 DEF TypeStation, EnterDir, InStep
  <2> QED BY <1>1, <1>2, <2>1
      DEF Steps, Finished, PassedStepsAreKept, ModelReady, StationReady
<1>5. CASE Prev
  BY <1>1, <1>2, <1>5
  DEF Prev, Steps, Finished, PassedStepsAreKept, ModelReady, StationReady
<1>6. CASE Finish
  <2>1. /\ UNCHANGED <<step, chosen, typed>> /\ pc = "wizard" /\ step = 3
        /\ ready' = [ready EXCEPT ![3] = CredentialsReady(loaded)]
        /\ pc' = IF ready'[3] THEN "main" ELSE pc
    BY <1>6 DEF Finish, InStep, CommitCredentials
  <2>2. Finished'
    BY <1>1, <2>1 DEF Finished
  <2> QED BY <1>1, <1>2, <2>1, <2>2 DEF Steps, PassedStepsAreKept, ModelReady, StationReady
<1> QED BY <1>3, <1>4, <1>5, <1>6

(* The credentials step.                                                   *)
LEMMA CredentialStep ==
  ASSUME StartupInv, BrowseDac \/ BrowsePai \/ BrowseCd \/ ToggleExample
  PROVE  StartupInv'
<1>1. /\ UNCHANGED <<pc, active, failed, step, chosen, typed>> /\ pc = "wizard"
      /\ DOMAIN ready' = 1..3 /\ ready'[1] = ready[1] /\ ready'[2] = ready[2]
  BY DEF BrowseDac, BrowsePai, BrowseCd, Browse, ToggleExample, InStep, StartupInv, Domains
<1>2. Shape(Now) /\ Kept(Now) /\ Now.values = values
  BY <1>1, NowShape
<1>3. ASSUME NEW t, Shape(t), Kept(t), Becomes(t),
             \A key \in {"model", "station", "report"} : t.values[key] = values[key]
      PROVE  StartupInv'
  <2>1. \A key \in {"model", "station", "report"} : values'[key] = values[key]
    BY <1>3 DEF Becomes
  <2>2. Domains' /\ SettingsAreKept'
    BY <1>1, <1>3, BecomesKept DEF StartupInv, Domains
  <2> QED BY <1>1, <2>1, <2>2
      DEF StartupInv, Steps, Finished, PassedStepsAreKept, RuntimeFollowsModel
<1>4. {"model", "station", "report"} \subseteq Plain \ {"example"} /\ "example" \in Keys \ Cert
  BY DEF Plain, Keys, Credential, Cert
<1>5. ASSUME NEW c \in Credential, Browse(c) PROVE StartupInv'
  <2>1. PICK t \in Load(Now, c, Own) : Becomes(t)
    BY <1>5 DEF Browse
  <2>2. Shape(t) /\ SamePlain(Now, t) /\ Kept(t)
    BY <1>2, <1>5, <2>1, LoadMeans DEF Kept, SameCerts, Agrees
  <2> QED BY <1>2, <1>3, <1>4, <2>1, <2>2 DEF SamePlain
<1>6. CASE ToggleExample
  <2>1. PICK u \in Put(Now, "example", checked') :
          Becomes(u) \/ \E t \in {u} \cup ApplyExample(u) : Becomes(t)
    BY <1>6 DEF ToggleExample
  <2>2. /\ Shape(u) /\ u.loaded = Now.loaded /\ Written(u)
        /\ \A k \in Keys \ {"example"} : u.values[k] = Now.values[k]
    BY <1>2, <1>4, <2>1, PutMeans DEF Kept
  <2>3. Kept(u)
    <3>1. Cert \subseteq Keys \ {"example"}
      BY DEF Cert, Keys
    <3> QED BY <1>2, <2>2, <3>1 DEF Kept, Agrees
  <2>4. PICK t \in {u} \cup ApplyExample(u) : Becomes(t)
    BY <2>1
  <2>5. Shape(t) /\ SamePlain(u, t) /\ Kept(t)
    BY <2>2, <2>3, <2>4, ExampleMeans DEF SamePlain
  <2>6. \A key \in {"model", "station", "report"} : t.values[key] = values[key]
    <3>1. Plain \subseteq Keys
      BY DEF Plain
    <3> QED BY <1>2, <1>4, <2>2, <2>5, <3>1 DEF SamePlain
  <2> QED BY <1>3, <2>4, <2>5, <2>6
<1> QED BY <1>5, <1>6 DEF BrowseDac, BrowsePai, BrowseCd, Credential, Cert

(* Passing the first two steps.                                            *)
LEMMA CommitStep ==
  ASSUME StartupInv, NextModel \/ NextStation
  PROVE  StartupInv'
<1>1. /\ UNCHANGED <<pc, ready, chosen, typed>> /\ pc = "wizard"
  BY DEF NextModel, NextStation, InStep
<1>2. Shape(Now) /\ Kept(Now) /\ Now.values = values /\ Now.ok
  BY <1>1, NowShape DEF Now
<1>3. ASSUME NEW s, Shape(s), Kept(s), NEW key \in {"model", "station", "report"}, NEW value,
             NEW t \in Put(s, key, value)
      PROVE  /\ Shape(t) /\ Kept(t) /\ t.values[key] = value
             /\ \A k \in Keys \ {key} : t.values[k] = s.values[k]
  <2>1. key \in Keys /\ Cert \subseteq Keys \ {key}
    BY DEF Keys, Cert
  <2>2. /\ Shape(t) /\ t.loaded = s.loaded /\ t.values[key] = value
        /\ \A k \in Keys \ {key} : t.values[k] = s.values[k]
        /\ Written(t)
    BY <1>3, <2>1, PutMeans DEF Kept
  <2> QED BY <1>3, <2>1, <2>2 DEF Kept, Agrees
<1>4. CASE NextModel
  <2>1. PICK s \in Put(Now, "model", chosen) :
          /\ Becomes(s)
          /\ \/ /\ values.model = chosen
                /\ step' = 2 /\ UNCHANGED <<active, failed>>
             \/ /\ values.model # chosen /\ ~s.ok
                /\ failed' = TRUE /\ UNCHANGED <<step, active>>
             \/ /\ values.model # chosen /\ s.ok
                /\ \/ SetUp(chosen) /\ step' = 2
                   \/ SetUpRaises /\ UNCHANGED step
    BY <1>4 DEF NextModel
  <2>2. Shape(s) /\ Kept(s) /\ s.values.model = chosen
    BY <1>2, <1>3, <2>1
  <2>3. values'.model = chosen
    BY <2>1, <2>2 DEF Becomes
  <2>4. step = 1 /\ ready[1] /\ step' \in {1, 2}
    BY <1>4, <2>1 DEF NextModel, InStep
  <2>5. Domains' /\ SettingsAreKept'
    BY <1>1, <2>1, <2>2, <2>4, BecomesKept DEF StartupInv, Domains
  <2>6. RuntimeFollowsModel'
    BY <1>1, <2>1, <2>3 DEF StartupInv, RuntimeFollowsModel, SetUp, SetUpRaises
  <2>7. Steps'
    <3>1. ModelReady(chosen)
      BY <1>1, <2>4, Zenon DEF StartupInv, Steps
    <3>2. ready'[1] = ModelReady(chosen') /\ ready'[2] = StationReady(typed')
      BY <1>1 DEF StartupInv, Steps
    <3> QED BY <1>1, <2>4, <3>1, <3>2 DEF Steps
  <2>8. Finished' /\ PassedStepsAreKept'
    BY <1>1, <2>3, <2>4 DEF Finished, PassedStepsAreKept
  <2> QED BY <2>5, <2>6, <2>7, <2>8 DEF StartupInv
<1>5. CASE NextStation
  <2>1. PICK s \in Then(Put(Now, "station", typed.station),
                        LAMBDA t : Put(t, "report", typed.report)) :
          Becomes(s) /\ Advance(s)
    BY <1>5 DEF NextStation
  <2>2. PICK u \in Put(Now, "station", typed.station) :
          IF u.ok THEN s \in Put(u, "report", typed.report) ELSE s = u
    BY <2>1 DEF Then
  <2>3. /\ Shape(u) /\ Kept(u) /\ u.values["station"] = typed.station
        /\ \A k \in Keys \ {"station"} : u.values[k] = values[k]
    BY <1>2, <1>3, <2>2
  <2>4. /\ Shape(s) /\ Kept(s) /\ s.values["station"] = typed.station
        /\ s.values["model"] = values["model"]
        /\ s.ok => s.values["report"] = typed.report
    <3>1. {"model", "station", "report"} \subseteq Keys
      BY DEF Keys
    <3>2. CASE u.ok
      BY <1>3, <2>2, <2>3, <3>1, <3>2
    <3>3. CASE ~u.ok
      BY <2>2, <2>3, <3>1, <3>3
    <3> QED BY <3>2, <3>3
  <2>5. step = 2 /\ ready[2] /\ step' = IF s.ok THEN 3 ELSE 2
    BY <1>5, <2>1 DEF NextStation, InStep, Advance
  <2>6. values' = s.values /\ UNCHANGED <<active, failed>>
    BY <1>5, <2>1 DEF Becomes, NextStation
  <2>7. Domains' /\ SettingsAreKept'
    BY <1>1, <2>1, <2>4, <2>5, BecomesKept DEF StartupInv, Domains
  <2>8. Steps'
    <3>1. ModelReady(chosen) /\ StationReady(typed)
      <4>1. ready[2] = StationReady(typed) /\ (step > 1 => ModelReady(chosen))
        BY <1>1 DEF StartupInv, Steps
      <4>2. StationReady(typed)
        BY <2>5, <4>1, Zenon
      <4>3. ModelReady(chosen)
        BY <2>5, <4>1
      <4> QED BY <4>2, <4>3
    <3>2. ready'[1] = ModelReady(chosen') /\ ready'[2] = StationReady(typed')
      BY <1>1 DEF StartupInv, Steps
    <3> QED BY <1>1, <2>5, <3>1, <3>2 DEF Steps
  <2>9. values.model = chosen
    BY <1>1, <2>5 DEF StartupInv, PassedStepsAreKept
  <2>10. Finished' /\ PassedStepsAreKept' /\ RuntimeFollowsModel'
    BY <1>1, <2>4, <2>5, <2>6, <2>9
    DEF StartupInv, Finished, PassedStepsAreKept, RuntimeFollowsModel
  <2> QED BY <2>7, <2>8, <2>10 DEF StartupInv
<1> QED BY <1>4, <1>5

LEMMA StartupStep == StartupInv /\ [Next]_vars => StartupInv'
<1>1. StartupInv /\ UNCHANGED vars => StartupInv'
  BY DEF StartupInv, Domains, Steps, Finished, PassedStepsAreKept, RuntimeFollowsModel,
         SettingsAreKept, CredentialsReady, vars, storeVars, wizardVars
<1> QED BY <1>1, ProgramStep, InputStep, CredentialStep, CommitStep DEF Next

LEMMA StartupInvariant == Spec => []StartupInv
BY StartupInit, StartupStep, PTL DEF Spec
-----------------------------------------------------------------------------
(* Nobody gets to the main window with something missing, whatever the     *)
(* readiness of a step said (Navigator.finish, MatterCredentialsStep).     *)
THEOREM MainIsConfigured == Spec => []FinishedIsConfigured
<1>1. StartupInv => FinishedIsConfigured
  BY DEF StartupInv, Steps, Finished, PassedStepsAreKept, FinishedIsConfigured,
         ModelReady, StationReady, CredentialsReady
<1> QED BY <1>1, StartupInvariant, PTL

(* The steps left behind show what the settings hold (the commits of       *)
(* ModelSelectionStep and StationSetupStep).                               *)
THEOREM StepsShowSettings == Spec => []PassedStepsAreKept
<1>1. StartupInv => PassedStepsAreKept
  BY DEF StartupInv
<1> QED BY <1>1, StartupInvariant, PTL

(* The runtime is that of the selected model, unless a write or a setup    *)
(* failed in the change of model (main.py, _setup_runtime_for_model).      *)
THEOREM RuntimeIsOfModel == Spec => []RuntimeFollowsModel
<1>1. StartupInv => RuntimeFollowsModel
  BY DEF StartupInv
<1> QED BY <1>1, StartupInvariant, PTL

(* settings.json holds the settings after a write that did not fail, and   *)
(* certificates are those of their paths (Settings.set, the load of both   *)
(* stores).                                                                *)
THEOREM FileKeepsSettings == Spec => []SettingsAreKept
<1>1. StartupInv => SettingsAreKept
  BY DEF StartupInv
<1> QED BY <1>1, StartupInvariant, PTL
-----------------------------------------------------------------------------
(***************************************************************************)
(* Types.                                                                  *)
(***************************************************************************)
Stores ==
  [values : Values, file : Values \cup {Torn},
   loaded : [Credential -> Or(Origin)], dirty : BOOLEAN,
   slips : 0..MaxSlips, ok : BOOLEAN]

LEMMA PutTypes ==
  ASSUME NEW s \in Stores, NEW key, NEW value,
         [s.values EXCEPT ![key] = value] \in Values,
         NEW t \in Put(s, key, value)
  PROVE  t \in Stores
<1>1. CASE s.values[key] = value
  BY <1>1 DEF Put
<1>2. CASE s.values[key] # value
  <2> DEFINE u == [s EXCEPT !.values[key] = value]
  <2>1. u \in Stores
    BY DEF Stores
  <2>2. t \in Save(u)
    BY <1>2 DEF Put
  <2> HIDE DEF u
  <2>3. CASE t = [u EXCEPT !.file = u.values, !.dirty = FALSE]
    BY <2>1, <2>3 DEF Stores
  <2>4. CASE /\ u.slips < MaxSlips
             /\ \E f \in {u.file, Torn} :
                  t = [Raised(u) EXCEPT !.file = f, !.dirty = TRUE, !.slips = @ + 1]
    <3>1. u.slips + 1 \in 0..MaxSlips
      BY <2>1, <2>4, StartupAssumption DEF Stores
    <3> QED BY <2>1, <2>4, <3>1 DEF Stores, Raised
  <2> QED BY <2>2, <2>3, <2>4 DEF Save
<1> QED BY <1>1, <1>2

(* A credential's path and what its store has loaded.                      *)
LEMMA PathTypes ==
  ASSUME NEW s \in Stores, NEW c \in Credential, NEW path \in Or(Origin)
  PROVE  /\ [s.values EXCEPT ![c] = path] \in Values
         /\ s.values[c] \in Or(Origin)
         /\ [s EXCEPT !.loaded[c] = path] \in Stores
         /\ [s EXCEPT !.loaded[c] = path].values = s.values
<1>1. s.values \in Values /\ s.loaded \in [Credential -> Or(Origin)]
  BY DEF Stores
<1>2. [s.values EXCEPT ![c] = path] \in Values /\ s.values[c] \in Or(Origin)
  BY <1>1 DEF Values, Credential, Cert
<1>3. [s EXCEPT !.loaded[c] = path] \in Stores
  BY <1>1 DEF Stores
<1> QED BY <1>2, <1>3 DEF Stores

LEMMA RaisedTypes ==
  ASSUME NEW s \in Stores
  PROVE  Raised(s) \in Stores /\ [s EXCEPT !.ok = TRUE] \in Stores
BY DEF Stores, Raised

LEMMA LoadTypes ==
  ASSUME NEW s \in Stores, NEW c \in Credential, NEW path \in Or(Origin),
         NEW t \in Load(s, c, path)
  PROVE  t \in Stores
<1>1. Raised(s) \in Stores /\ NoValue \in Or(Origin) /\ "dac" \in Credential
  BY RaisedTypes DEF Or, Credential
<1>2. CASE t \in Put([s EXCEPT !.loaded[c] = path], c, path)
  <2>1. /\ [s EXCEPT !.loaded[c] = path] \in Stores
        /\ [[s EXCEPT !.loaded[c] = path].values EXCEPT ![c] = path] \in Values
    BY PathTypes
  <2> QED BY <1>2, <2>1, PutTypes
<1>3. CASE t = Raised(s)
  BY <1>1, <1>3
<1>4. CASE \E v \in {NoValue, path} : t = [Raised(s) EXCEPT !.loaded["dac"] = v]
  <2>1. PICK v \in {NoValue, path} : t = [Raised(s) EXCEPT !.loaded["dac"] = v]
    BY <1>4
  <2>2. v \in Or(Origin)
    BY <1>1
  <2> HIDE DEF Stores
  <2> QED BY <1>1, <2>1, <2>2, PathTypes
<1> QED
  <2>1. CASE c = "dac"
    <3>1. t \in LoadDac(s, path)
      BY <2>1 DEF Load
    <3> QED BY <1>2, <1>3, <1>4, <2>1, <3>1 DEF LoadDac
  <2>2. CASE c \in Cert
    <3>1. t \in LoadCert(s, c, path)
      BY <2>2 DEF Load, LoadCd, Cert
    <3> QED BY <1>2, <1>3, <3>1 DEF LoadCert
  <2> QED BY <2>1, <2>2 DEF Credential

LEMMA RestoreTypes ==
  ASSUME NEW s \in Stores, NEW c \in Credential, NEW t \in Restore(s, c)
  PROVE  t \in Stores
<1>1. CASE s.values[c] = NoValue
  BY <1>1 DEF Restore
<1>2. CASE s.values[c] # NoValue
  <2>1. PICK u \in Load(s, c, s.values[c]) :
          t \in IF u.ok THEN {u} ELSE Put([s EXCEPT !.loaded[c] = NoValue], c, NoValue)
    BY <1>2 DEF Restore
  <2>2. NoValue \in Or(Origin)
    BY DEF Or
  <2>3. s.values[c] \in Or(Origin)
    BY <2>2, PathTypes
  <2>4. u \in Stores
    BY <2>1, <2>3, LoadTypes
  <2>5. /\ [s EXCEPT !.loaded[c] = NoValue] \in Stores
        /\ [[s EXCEPT !.loaded[c] = NoValue].values EXCEPT ![c] = NoValue] \in Values
    BY <2>2, PathTypes
  <2>6. \A x \in Put([s EXCEPT !.loaded[c] = NoValue], c, NoValue) : x \in Stores
    BY <2>5, PutTypes
  <2> QED BY <2>1, <2>4, <2>6
<1> QED BY <1>1, <1>2

LEMMA RestoreAllTypes ==
  ASSUME NEW s \in Stores, NEW t \in RestoreAll(s)
  PROVE  t \in Stores
<1>1. "cd" \in Credential /\ "pai" \in Credential /\ "dac" \in Credential
  BY DEF Cert, Credential
<1> DEFINE T == Then(Restore(s, "cd"), LAMBDA x : Restore(x, "dac"))
<1>2. \A x \in Restore(s, "cd") : x \in Stores
  BY <1>1, RestoreTypes
<1>3. \A x \in T : x \in Stores
  BY <1>1, <1>2, RestoreTypes DEF Then
<1> HIDE DEF T
<1>4. \A x \in Then(T, LAMBDA u : Restore(u, "pai")) : x \in Stores
  BY <1>1, <1>3, RestoreTypes DEF Then
<1> QED BY <1>4 DEF RestoreAll, T

LEMMA ExampleTypes ==
  ASSUME NEW s \in Stores, NEW t \in ApplyExample(s)
  PROVE  t \in Stores
<1> DEFINE m == s.values.model
           T == Then(LoadDac(s, m), LAMBDA u : LoadCert(u, "pai", m))
<1>1. CASE m = NoValue
  BY <1>1 DEF ApplyExample
<1>2. CASE m # NoValue
  <2>1. m \in Or(Origin)
    BY DEF Stores, Values, Or, Origin
  <2>2. "cd" \in Credential /\ "pai" \in Credential /\ "dac" \in Credential
    BY DEF Cert, Credential
  <2>3. /\ \A x, y : y \in LoadDac(x, m) => y \in Load(x, "dac", m)
        /\ \A x, y : y \in LoadCert(x, "pai", m) => y \in Load(x, "pai", m)
        /\ \A x, y : y \in LoadCd(x, m) => y \in Load(x, "cd", m)
    BY DEF Load
  <2> HIDE DEF m
  <2>4. \A x \in LoadDac(s, m) : x \in Stores
    BY <2>1, <2>2, <2>3, LoadTypes
  <2>5. \A x \in T : x \in Stores
    BY <2>1, <2>2, <2>3, <2>4, LoadTypes DEF Then
  <2> HIDE DEF T
  <2>6. \A x \in Then(T, LAMBDA u : LoadCd(u, m)) : x \in Stores
    BY <2>1, <2>2, <2>3, <2>5, LoadTypes DEF Then
  <2>7. \E u \in Stores : t = u \/ t = [u EXCEPT !.ok = TRUE]
    BY <1>2, <2>6 DEF ApplyExample, T, m
  <2> QED BY <2>7, RaisedTypes
<1> QED BY <1>1, <1>2

-----------------------------------------------------------------------------
StoreTypes ==
  /\ values \in Values /\ file \in Values \cup {Torn}
  /\ loaded \in [Credential -> Or(Origin)]
  /\ dirty \in BOOLEAN /\ slips \in 0..MaxSlips

WizardTypes ==
  /\ pc \in {"off", "wizard", "main"} /\ active \in Or(Model)
  /\ step \in 1..3 /\ ready \in [1..3 -> BOOLEAN] /\ chosen \in Or(Model)
  /\ typed \in [station : Or(Station), report : Or(Dir)]
  /\ checked \in BOOLEAN /\ failed \in BOOLEAN

LEMMA TwoTypes == TypeOK <=> StoreTypes /\ WizardTypes
BY DEF TypeOK, StoreTypes, WizardTypes

LEMMA BecomesTypes ==
  ASSUME NEW s \in Stores, Becomes(s)
  PROVE  StoreTypes'
BY DEF Becomes, Stores, StoreTypes

LEMMA NowTypes ==
  ASSUME StoreTypes
  PROVE  Now \in Stores
BY DEF StoreTypes, Now, Stores

LEMMA FreshTypes ==
  /\ Fresh \in Values /\ Nothing \in [Credential -> Or(Origin)]
  /\ Blank \in [station : Or(Station), report : Or(Dir)]
  /\ NoValue \in Or(Model)
BY DEF Fresh, Values, Nothing, Blank, Or

LEMMA EndTypes ==
  ASSUME End, file' \in Values \cup {Torn}, slips' \in 0..MaxSlips
  PROVE  StoreTypes' /\ WizardTypes'
<1>1. ready' \in [1..3 -> BOOLEAN]
  BY DEF End
<1>2. StoreTypes'
  BY FreshTypes DEF End, StoreTypes
<1>3. /\ pc' = "off" /\ active' = NoValue /\ step' = 1 /\ chosen' = NoValue
      /\ typed' = Blank
  BY DEF End
<1>4. checked' \in BOOLEAN /\ failed' \in BOOLEAN
  BY DEF End
<1> QED BY <1>1, <1>2, <1>3, <1>4, FreshTypes DEF WizardTypes

(* A step is ready or not.                                                 *)
LEMMA ReadyTypes ==
  ASSUME ready \in [1..3 -> BOOLEAN], NEW i, NEW b \in BOOLEAN,
         ready' = [ready EXCEPT ![i] = b]
  PROVE  ready' \in [1..3 -> BOOLEAN]
OBVIOUS

LEMMA ReadyIsBoolean ==
  /\ \A m : ModelReady(m) \in BOOLEAN
  /\ \A x : StationReady(x) \in BOOLEAN
  /\ \A l : CredentialsReady(l) \in BOOLEAN
BY DEF ModelReady, StationReady, CredentialsReady

LEMMA StartTypes ==
  ASSUME TypeOK, Start
  PROVE  StoreTypes' /\ WizardTypes'
<1>1. file \in Values /\ Read \in Stores
  BY FreshTypes DEF TypeOK, Start, Read, Stores
<1>2. PICK r \in RestoreAll(Read) :
        \E s \in {r} \cup ApplyExample(r) :
          OpenModelStep(s) /\ OpenStationStep(s) /\ OpenCredentialsStep(r, s) /\ Becomes(s)
  BY DEF Start
<1>3. PICK s \in {r} \cup ApplyExample(r) :
        OpenModelStep(s) /\ OpenStationStep(s) /\ OpenCredentialsStep(r, s) /\ Becomes(s)
  BY <1>2
<1>4. r \in Stores
  BY <1>1, RestoreAllTypes
<1>5. s \in Stores
  BY <1>4, ExampleTypes
<1>6. StoreTypes'
  BY <1>3, <1>5, BecomesTypes
<1>7. r.values \in Values /\ s.values \in Values
  BY <1>4, <1>5 DEF Stores
<1>8. chosen' \in Or(Model) /\ typed' \in [station : Or(Station), report : Or(Dir)]
  BY <1>3, <1>7 DEF OpenModelStep, OpenStationStep, Values
<1>9. checked' \in BOOLEAN
  BY <1>3, <1>7 DEF OpenCredentialsStep, Values
<1>10. ready' \in [1..3 -> BOOLEAN]
  <2>1. PICK a \in BOOLEAN, b \in BOOLEAN, c \in BOOLEAN : ready' = <<a, b, c>>
    BY <1>3, ReadyIsBoolean DEF OpenCredentialsStep
  <2> QED BY <2>1
<1>11. active' \in Or(Model) /\ pc' = "wizard" /\ step' \in 1..3 /\ failed' \in BOOLEAN
  <2>1. active' = file.model /\ pc' = "wizard" /\ step' = 1
    BY DEF Start
  <2>2. file.model \in Or(Model)
    BY <1>1 DEF Values
  <2>3. failed' \in BOOLEAN
    BY DEF Start
  <2> QED BY <2>1, <2>2, <2>3
<1> QED BY <1>6, <1>8, <1>9, <1>10, <1>11 DEF WizardTypes

LEMMA EndsTypes ==
  ASSUME TypeOK, StartRaises \/ Close \/ TakeFileAway
  PROVE  StoreTypes' /\ WizardTypes'
<1>1. CASE StartRaises
  <2>1. file \in Values /\ Read \in Stores
    BY <1>1, FreshTypes DEF TypeOK, StartRaises, Read, Stores
  <2>2. PICK r \in RestoreAll(Read) : file' = r.file /\ slips' = r.slips
    BY <1>1 DEF StartRaises
  <2>3. r \in Stores
    BY <2>1, RestoreAllTypes
  <2>4. file' \in Values \cup {Torn} /\ slips' \in 0..MaxSlips
    BY <2>2, <2>3 DEF Stores
  <2> QED BY <1>1, <2>4, EndTypes DEF StartRaises
<1>2. CASE Close
  BY <1>2, EndTypes DEF Close, TypeOK
<1>3. CASE TakeFileAway
  BY <1>3, FreshTypes DEF TakeFileAway, TypeOK, StoreTypes, WizardTypes, wizardVars
<1> QED BY <1>1, <1>2, <1>3

LEMMA InputTypes ==
  ASSUME TypeOK, ChooseModel \/ TypeStation \/ EnterDir \/ Prev \/ Finish
  PROVE  StoreTypes' /\ WizardTypes'
<1> USE DEF storeVars
<1>1. StoreTypes'
  BY DEF TypeOK, StoreTypes, ChooseModel, TypeStation, EnterDir, Prev, Finish
<1>2. CASE ChooseModel
  <2>1. PICK m \in Model : chosen' = m /\ ready' = [ready EXCEPT ![1] = ModelReady(m)]
    BY <1>2 DEF ChooseModel
  <2>2. ready' \in [1..3 -> BOOLEAN]
    BY <2>1, ReadyTypes, ReadyIsBoolean DEF TypeOK
  <2> QED BY <1>1, <1>2, <2>1, <2>2 DEF ChooseModel, TypeOK, WizardTypes, Or
<1>3. CASE TypeStation \/ EnterDir
  <2>1. typed' \in [station : Or(Station), report : Or(Dir)]
    BY <1>3 DEF TypeStation, EnterDir, TypeOK
  <2>2. ready' = [ready EXCEPT ![2] = StationReady(typed')]
    BY <1>3 DEF TypeStation, EnterDir
  <2>3. ready' \in [1..3 -> BOOLEAN]
    BY <2>2, ReadyTypes, ReadyIsBoolean DEF TypeOK
  <2> QED BY <1>1, <1>3, <2>1, <2>3 DEF TypeStation, EnterDir, TypeOK, WizardTypes
<1>4. CASE Prev
  BY <1>1, <1>4 DEF Prev, TypeOK, WizardTypes
<1>5. CASE Finish
  <2>1. ready' \in [1..3 -> BOOLEAN]
    BY <1>5, ReadyTypes, ReadyIsBoolean DEF Finish, CommitCredentials, TypeOK
  <2>2. pc' \in {"main", pc} /\ UNCHANGED <<active, failed, step, chosen, typed, checked>>
    BY <1>5 DEF Finish
  <2> QED BY <1>1, <2>1, <2>2 DEF TypeOK, WizardTypes
<1> QED BY <1>2, <1>3, <1>4, <1>5

LEMMA CommitTypes ==
  ASSUME TypeOK, NextModel \/ NextStation
  PROVE  StoreTypes' /\ WizardTypes'
<1>1. Now \in Stores /\ Now.values = values /\ values \in Values
  BY NowTypes, TwoTypes DEF Now, TypeOK
<1>2. CASE NextModel
  <2>1. PICK s \in Put(Now, "model", chosen) : Becomes(s)
    BY <1>2 DEF NextModel
  <2>2. [Now.values EXCEPT !["model"] = chosen] \in Values
    BY <1>1 DEF TypeOK, Values
  <2>3. StoreTypes'
    BY <1>1, <2>1, <2>2, PutTypes, BecomesTypes
  <2>4. /\ UNCHANGED <<pc, ready, chosen, typed, checked>>
        /\ step' \in {2, step} /\ active' \in {active, chosen, NoValue}
    BY <1>2 DEF NextModel, SetUp, SetUpRaises
  <2>5. step' \in 1..3 /\ active' \in Or(Model) /\ failed' \in BOOLEAN
    <3>1. step' \in 1..3
      BY <2>4 DEF TypeOK
    <3>2. active' \in Or(Model)
      BY <2>4, FreshTypes DEF TypeOK
    <3>3. failed' \in BOOLEAN
      <4>1. failed' = failed \/ failed' = TRUE \/ failed' = FALSE
        BY <1>2, Zenon DEF NextModel, SetUp, SetUpRaises
      <4>2. failed \in BOOLEAN
        BY DEF TypeOK
      <4> QED BY <4>1, <4>2, Zenon
    <3> QED BY <3>1, <3>2, <3>3
  <2>6. pc' \in {"off", "wizard", "main"} /\ ready' \in [1..3 -> BOOLEAN]
    BY <2>4 DEF TypeOK
  <2>7. /\ chosen' \in Or(Model) /\ checked' \in BOOLEAN
        /\ typed' \in [station : Or(Station), report : Or(Dir)]
    BY <2>4 DEF TypeOK
  <2> QED BY <2>3, <2>5, <2>6, <2>7 DEF WizardTypes
<1>3. CASE NextStation
  <2>1. PICK s \in Then(Put(Now, "station", typed.station),
                        LAMBDA t : Put(t, "report", typed.report)) :
          Becomes(s) /\ Advance(s)
    BY <1>3 DEF NextStation
  <2>2. PICK u \in Put(Now, "station", typed.station) :
          IF u.ok THEN s \in Put(u, "report", typed.report) ELSE s = u
    BY <2>1 DEF Then
  <2>3. [Now.values EXCEPT !["station"] = typed.station] \in Values
    BY <1>1 DEF TypeOK, Values
  <2>4. u \in Stores
    BY <1>1, <2>2, <2>3, PutTypes
  <2>5. [u.values EXCEPT !["report"] = typed.report] \in Values
    BY <2>4 DEF TypeOK, Stores, Values
  <2>6. s \in Stores
    BY <2>2, <2>4, <2>5, PutTypes
  <2>7. StoreTypes'
    BY <2>1, <2>6, BecomesTypes
  <2>8. step = 2 /\ step' \in {2, 3} /\ UNCHANGED <<pc, active, failed, ready, chosen, typed, checked>>
    BY <1>3, <2>1 DEF NextStation, InStep, Advance
  <2> QED BY <2>7, <2>8 DEF TypeOK, WizardTypes
<1> QED BY <1>2, <1>3

LEMMA CredentialTypes ==
  ASSUME TypeOK, BrowseDac \/ BrowsePai \/ BrowseCd \/ ToggleExample
  PROVE  StoreTypes' /\ WizardTypes'
<1>1. Now \in Stores /\ Now.values = values /\ values \in Values
  BY NowTypes, TwoTypes DEF Now, TypeOK
<1>2. UNCHANGED <<pc, active, failed, step, chosen, typed>>
  BY DEF BrowseDac, BrowsePai, BrowseCd, Browse, ToggleExample
<1>3. ASSUME NEW c \in Credential, Browse(c)
      PROVE  StoreTypes' /\ ready' \in [1..3 -> BOOLEAN] /\ checked' = checked
  <2>1. PICK s \in Load(Now, c, Own) :
          /\ Becomes(s)
          /\ ready' = [ready EXCEPT ![3] = IF s.ok THEN CredentialsReady(s.loaded) ELSE @]
    BY <1>3 DEF Browse
  <2>2. s \in Stores
    BY <1>1, <2>1, LoadTypes DEF Or, Origin
  <2>3. StoreTypes'
    BY <2>1, <2>2, BecomesTypes
  <2>4. ready[3] \in BOOLEAN /\ ready \in [1..3 -> BOOLEAN]
    BY DEF TypeOK
  <2>5. PICK b \in BOOLEAN : ready' = [ready EXCEPT ![3] = b]
    <3>1. CASE s.ok
      BY <2>1, <3>1, ReadyIsBoolean
    <3>2. CASE ~s.ok
      BY <2>1, <2>4, <3>2
    <3> QED BY <3>1, <3>2
  <2>6. ready' \in [1..3 -> BOOLEAN]
    BY <2>4, <2>5, ReadyTypes
  <2>7. checked' = checked
    BY <1>3 DEF Browse
  <2> QED BY <2>3, <2>6, <2>7
<1>4. CASE ToggleExample
  <2>1. checked' \in BOOLEAN
    BY <1>4 DEF ToggleExample, TypeOK
  <2>2. PICK s \in Put(Now, "example", checked') :
          \/ ~s.ok /\ Becomes(s) /\ UNCHANGED ready
          \/ /\ s.ok
             /\ \E t \in IF checked' THEN ApplyExample(s) ELSE {s} :
                  /\ Becomes(t)
                  /\ ready' = [ready EXCEPT ![3] = CredentialsReady(t.loaded)]
    BY <1>4 DEF ToggleExample
  <2>3. [Now.values EXCEPT !["example"] = checked'] \in Values
    BY <1>1, <2>1 DEF Values
  <2>4. s \in Stores
    BY <1>1, <2>2, <2>3, PutTypes
  <2>5. CASE Becomes(s) /\ UNCHANGED ready
    <3>1. StoreTypes' /\ ready' \in [1..3 -> BOOLEAN]
      BY <2>4, <2>5, BecomesTypes DEF TypeOK
    <3> QED BY <1>2, <2>1, <3>1 DEF TypeOK, WizardTypes
  <2>6. CASE \E t \in {s} \cup ApplyExample(s) :
               Becomes(t) /\ ready' = [ready EXCEPT ![3] = CredentialsReady(t.loaded)]
    <3>1. PICK t \in {s} \cup ApplyExample(s) :
            Becomes(t) /\ ready' = [ready EXCEPT ![3] = CredentialsReady(t.loaded)]
      BY <2>6
    <3>2. t \in Stores
      BY <2>4, ExampleTypes
    <3>3. StoreTypes' /\ ready' \in [1..3 -> BOOLEAN]
      BY <3>1, <3>2, BecomesTypes, ReadyTypes, ReadyIsBoolean DEF TypeOK
    <3> QED BY <1>2, <2>1, <3>3 DEF TypeOK, WizardTypes
  <2> QED BY <2>2, <2>5, <2>6
<1>5. CASE \E c \in Credential : Browse(c)
  <2>1. StoreTypes' /\ ready' \in [1..3 -> BOOLEAN] /\ checked' = checked
    BY <1>3, <1>5
  <2> QED BY <1>2, <2>1 DEF TypeOK, WizardTypes
<1> QED BY <1>4, <1>5 DEF BrowseDac, BrowsePai, BrowseCd, Credential, Cert

(* Settings, settings.json, stores, wizard and runtime keep their types    *)
(* (Settings, the stores' load, the three steps, main.py).                 *)
THEOREM StartupTypeCorrect == Spec => []TypeOK
<1>1. Init => TypeOK
  <2> SUFFICES ASSUME Init PROVE TypeOK OBVIOUS
  <2>1. StoreTypes
    <3>1. slips = 0 /\ dirty = FALSE /\ 0 \in 0..MaxSlips
      BY StartupAssumption DEF Init
    <3>2. values = Fresh /\ file = Fresh /\ loaded = Nothing
      BY DEF Init
    <3> QED BY <3>1, <3>2, FreshTypes DEF StoreTypes
  <2>2. WizardTypes
    <3>1. ready \in [1..3 -> BOOLEAN]
      BY DEF Init
    <3>2. /\ pc = "off" /\ active = NoValue /\ step = 1 /\ chosen = NoValue
          /\ typed = Blank
      BY DEF Init
    <3>3. checked \in BOOLEAN /\ failed \in BOOLEAN
      BY Zenon DEF Init
    <3> QED BY <3>1, <3>2, <3>3, FreshTypes DEF WizardTypes
  <2> QED BY <2>1, <2>2, TwoTypes
<1>2. TypeOK /\ [Next]_vars => TypeOK'
  <2> SUFFICES ASSUME TypeOK, [Next]_vars PROVE TypeOK' OBVIOUS
  <2>1. CASE UNCHANGED vars
    BY <2>1 DEF vars, storeVars, wizardVars, TypeOK
  <2>2. CASE Next
    <3>1. StoreTypes' /\ WizardTypes'
      BY <2>2, StartTypes, EndsTypes, InputTypes, CommitTypes, CredentialTypes DEF Next
    <3> QED BY <3>1 DEF TypeOK, StoreTypes, WizardTypes
  <2> QED BY <2>1, <2>2
<1> QED BY <1>1, <1>2, PTL DEF Spec
=============================================================================
