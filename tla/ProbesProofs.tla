----------------------------- MODULE ProbesProofs -----------------------------
(***************************************************************************)
(* Theorems about Settings and Probes, for any contents an operator saves, *)
(* any lists of targets and any timeouts.                                  *)
(***************************************************************************)
EXTENDS Probes, TLAPS

\* A read that the operator leaves alone reaches its calls that write only
\* where there is nothing to lose.
SettingsInv ==
  /\ at = "create_dir" /\ ~touched => file \in NoFile
  /\ at = "create" /\ ~touched => file = "empty"
  /\ at = "write" /\ ~touched => file = "partial"
  /\ EditPickedUp

\* The settings of a call stay those it was dispatched with.
ControlInv == /\ call # "none" => life = "up"
              /\ call = "probing" => at = "idle"
              /\ call # "probing" => phase = NoPhase /\ spent = NotSpent
                                                     /\ age = 0

\* How long a request in flight was sent after the probes were dispatched.
CallInv == call = "probing" =>
  /\ \A t \in Targets : phase[t] = "head" => spent[t] = age
  /\ \A t \in Targets : phase[t] = "get" => age <= Limit(cfg) + spent[t]
  /\ \A t \in InFlight : spent[t] <= Limit(cfg)
  /\ age <= 2 * Limit(cfg)

\* What the state has to be like before more can be said of it.
ShapeOK == /\ SettingsTypeOK
           /\ life \in {"down", "booting", "up"}
           /\ call \in {"none", "reading", "probing"}
           /\ phase \in [Targets -> {"idle", "head", "get", "done"}]
           /\ spent \in [Targets -> Nat] /\ age \in Nat

-----------------------------------------------------------------------------
(* Settings *)

LEMMA ParsedType == \A content \in Places : Parsed(content) \in Configs
BY DEF Parsed, Configs

\* Only what an operator saved as settings parses to anything but defaults.
LEMMA NothingParses == /\ Parsed("absent") = "defaults"
                       /\ Parsed("empty") = "defaults"
                       /\ Parsed("partial") = "defaults"
                       /\ Parsed("defaults") = "defaults"
BY ContentAssumption DEF Parsed, NoFile, Saved

LEMMA LimitType == \A settings \in Configs : Limit(settings) \in Nat \ {0}
<1> TAKE settings \in Configs
<1>1. TimeoutOf[settings] \in Int /\ MinTimeout \in Nat \ {0}
  BY ConfigAssumption
<1> QED BY <1>1 DEF Limit

\* A step of a read keeps types, the invariant, and what the operator saved.
LEMMA ReadStepSafe ==
  ASSUME SettingsTypeOK, SettingsInv, ReadStep
  PROVE  /\ SettingsTypeOK'
         /\ SettingsInv'
         /\ ~touched => /\ file \in Saved => file' = file
                        /\ legacy \in Saved => legacy \in {file', legacy'}
<1> USE DEF SettingsTypeOK, SettingsInv, EditPickedUp, ReadStep, Goes, Returns,
            NoFile, Places, Configs
<1>1. CASE NewExists
  BY <1>1 DEF NewExists
<1>2. CASE OldIsDir
  BY <1>2 DEF OldIsDir
<1>3. CASE Rename
  BY <1>3, ContentAssumption DEF Rename
<1>4. CASE FileExists
  BY <1>4 DEF FileExists
<1>5. CASE CreateDir
  BY <1>5, NothingParses, ContentAssumption DEF CreateDir
<1>6. CASE Create
  BY <1>6, NothingParses, ContentAssumption DEF Create
<1>7. CASE Write
  BY <1>7, NothingParses, ContentAssumption DEF Write
<1>8. CASE Read
  BY <1>8, ParsedType DEF Read
<1> QED BY <1>1, <1>2, <1>3, <1>4, <1>5, <1>6, <1>7, <1>8

LEMMA OperatorSafe ==
  ASSUME SettingsTypeOK, SettingsInv, Operator
  PROVE  SettingsTypeOK' /\ SettingsInv'
<1>1. /\ touched' = TRUE /\ legacy' = legacy /\ at' = at /\ cfg' = cfg
      /\ StartSave \/ FinishSave \/ Replace
  BY DEF Operator
<1>2. file' \in Places /\ saving' \in Saved \cup {"nothing"}
  BY <1>1 DEF StartSave, FinishSave, Replace, SettingsTypeOK, NoFile, Places
<1>3. orphan' \in BOOLEAN
  <2>1. orphan \in BOOLEAN
    BY DEF SettingsTypeOK
  <2>2. orphan' = orphan \/ orphan' = (orphan \/ at = "write")
    BY <1>1 DEF StartSave, FinishSave, Replace
  <2> QED BY <2>1, <2>2, Zenon
<1> QED BY <1>1, <1>2, <1>3 DEF SettingsTypeOK, SettingsInv, EditPickedUp

-----------------------------------------------------------------------------
(* Types and settings, for the whole specification *)

LEMMA ShapeInit == Init => ShapeOK /\ SettingsInv
<1> SUFFICES ASSUME Init PROVE ShapeOK /\ SettingsInv
  OBVIOUS
<1>1. SettingsTypeOK
  BY DEF Init, SettingsInit, SettingsTypeOK, Configs
<1>2. SettingsInv
  BY DEF Init, SettingsInit, SettingsInv, EditPickedUp
<1>3. /\ phase \in [Targets -> {"idle", "head", "get", "done"}]
      /\ spent \in [Targets -> Nat]
  BY DEF Init, NoPhase, NotSpent
<1> QED BY <1>1, <1>2, <1>3 DEF Init, ShapeOK

LEMMA ShapeStep ==
  ShapeOK /\ SettingsInv /\ [Next]_vars => ShapeOK' /\ SettingsInv'
<1> SUFFICES ASSUME ShapeOK, SettingsInv, [Next]_vars
             PROVE  ShapeOK' /\ SettingsInv'
  OBVIOUS
<1> USE DEF ShapeOK
<1>1. CASE Boot \/ Request
  BY <1>1 DEF Boot, Request, BeginRead, SettingsTypeOK, SettingsInv,
              EditPickedUp, probeVars
<1>2. CASE Booted
  BY <1>2 DEF Booted, Goes, SettingsTypeOK, SettingsInv, EditPickedUp, probeVars
<1>3. CASE Dispatch
  BY <1>3 DEF Dispatch, Goes, SettingsTypeOK, SettingsInv, EditPickedUp,
              probeVars
<1>4. CASE DispatchPanics
  BY <1>4 DEF DispatchPanics, Goes, SettingsTypeOK, SettingsInv, EditPickedUp,
              probeVars
<1>5. CASE Answer \/ HangUp
  BY <1>5 DEF Answer, HangUp, CallEnds, NoPhase, NotSpent, settingsVars,
              SettingsTypeOK, SettingsInv, EditPickedUp
<1>6. CASE Kill
  BY <1>6 DEF Kill, CallEnds, NoPhase, NotSpent, SettingsTypeOK, SettingsInv,
              EditPickedUp
<1>7. CASE Reading
  BY <1>7, ReadStepSafe DEF Reading, probeVars
<1>8. CASE Operating
  BY <1>8, OperatorSafe DEF Operating, probeVars
<1>9. CASE Tick
  BY <1>9 DEF Tick, settingsVars, SettingsTypeOK, SettingsInv, EditPickedUp
<1>10. ASSUME NEW t \in Targets, Denied(t) \/ Settled(t) \/ TimesOut(t)
       PROVE  ShapeOK' /\ SettingsInv'
  BY <1>10 DEF Denied, Settled, TimesOut, Settle, settingsVars, SettingsTypeOK,
               SettingsInv, EditPickedUp
<1>11. CASE UNCHANGED vars
  BY <1>11 DEF vars, settingsVars, probeVars, SettingsTypeOK, SettingsInv,
               EditPickedUp
<1> QED BY <1>1, <1>2, <1>3, <1>4, <1>5, <1>6, <1>7, <1>8, <1>9, <1>10, <1>11
        DEF Next

\* Unless the operator acts during it, a read returns what the file says when
\* it returns, after any history of saves, crashes and failed writes.
THEOREM EditsArePickedUp == Spec => []EditPickedUp
<1>1. SettingsInv => EditPickedUp
  BY DEF SettingsInv
<1> QED BY <1>1, ShapeInit, ShapeStep, PTL DEF Spec

\* No read destroys settings, well formed or not, that an operator saved
\* before it began.
THEOREM SettingsAreKept == Spec => SettingsKept
<1> DEFINE A == at' # at /\ ~touched =>
                  /\ file \in Saved => file' = file
                  /\ legacy \in Saved => legacy \in {file', legacy'}
<1>1. ShapeOK /\ SettingsInv /\ [Next]_vars => [A]_settingsVars
  <2> SUFFICES ASSUME ShapeOK, SettingsInv, [Next]_vars, at' # at, ~touched
               PROVE  /\ file \in Saved => file' = file
                      /\ legacy \in Saved => legacy \in {file', legacy'}
    OBVIOUS
  <2>1. CASE Reading
    BY <2>1, ReadStepSafe DEF Reading, ShapeOK
  <2>2. CASE ~Reading
    <3>1. UNCHANGED <<file, legacy>>
      BY <2>2 DEF Next, Boot, Booted, Request, BeginRead, Dispatch,
         DispatchPanics, Answer, HangUp, Kill, Operating, Operator, Tick, Denied,
         Settled, TimesOut, Settle, settingsVars, vars
    <3> QED BY <3>1
  <2> QED BY <2>1, <2>2
<1> QED BY <1>1, ShapeInit, ShapeStep, PTL DEF Spec, SettingsKept

-----------------------------------------------------------------------------
(* The call *)

LEMMA ControlInit == Init => ControlInv /\ CallInv
BY DEF Init, ControlInv, CallInv

LEMMA ControlStep == ShapeOK /\ ControlInv /\ [Next]_vars => ControlInv'
<1> SUFFICES ASSUME ShapeOK, ControlInv, [Next]_vars PROVE ControlInv'
  OBVIOUS
<1> USE DEF ShapeOK, ControlInv
<1>1. CASE Boot \/ Request
  BY <1>1 DEF Boot, Request, BeginRead, probeVars
<1>2. CASE Booted \/ DispatchPanics
  BY <1>2 DEF Booted, DispatchPanics, Goes, probeVars
<1>3. CASE Dispatch
  BY <1>3 DEF Dispatch, Goes, probeVars
<1>4. CASE Answer \/ HangUp \/ Kill
  BY <1>4 DEF Answer, HangUp, Kill, CallEnds
<1>5. CASE Reading
  <2>1. at # "idle"
    BY <1>5 DEF Reading, ReadStep, NewExists, OldIsDir, Rename, FileExists,
                CreateDir, Create, Write, Read, Goes
  <2> QED BY <1>5, <2>1 DEF Reading, probeVars
<1>6. CASE Operating
  BY <1>6 DEF Operating, Operator, probeVars
<1>7. CASE Tick
  <2>1. call = "probing"
    BY <1>7 DEF Tick, InFlight, NoPhase
  <2> QED BY <1>7, <2>1 DEF Tick, settingsVars
<1>8. ASSUME NEW t \in Targets, Denied(t) \/ Settled(t) \/ TimesOut(t)
      PROVE  ControlInv'
  <2>1. call = "probing"
    BY <1>8 DEF Denied, Settled, TimesOut, InFlight, NoPhase
  <2> QED BY <1>8, <2>1 DEF Denied, Settled, TimesOut, Settle, settingsVars
<1>9. CASE UNCHANGED vars
  BY <1>9 DEF vars, settingsVars, probeVars
<1> QED BY <1>1, <1>2, <1>3, <1>4, <1>5, <1>6, <1>7, <1>8, <1>9 DEF Next

LEMMA CallStep ==
  ShapeOK /\ ControlInv /\ CallInv /\ [Next]_vars => CallInv'
<1> SUFFICES ASSUME ShapeOK, ControlInv, CallInv, [Next]_vars, call' = "probing"
             PROVE  CallInv'
  BY DEF CallInv
<1>0. /\ cfg \in Configs /\ Limit(cfg) \in Nat \ {0}
      /\ spent \in [Targets -> Nat] /\ age \in Nat
  BY LimitType DEF ShapeOK, SettingsTypeOK
<1>1. CASE Dispatch
  <2>1. /\ cfg' = cfg /\ age' = 0 /\ \A t \in Targets : spent'[t] = 0
        /\ \A t \in Targets : phase'[t] \in {"head", "done"}
    BY <1>1 DEF Dispatch, ControlInv, NotSpent
  <2>2. Limit(cfg)' = Limit(cfg)
    BY <2>1 DEF Limit
  <2> QED BY <1>0, <2>1, <2>2 DEF CallInv, InFlight
<1>2. CASE Tick
  <2>1. /\ cfg' = cfg /\ phase' = phase /\ age' = age + 1 /\ call = "probing"
        /\ \A t \in InFlight : spent[t] < Limit(cfg) /\ spent'[t] = spent[t] + 1
    BY <1>2 DEF Tick, settingsVars, InFlight
  <2>2. Limit(cfg)' = Limit(cfg) /\ InFlight' = InFlight
    BY <2>1 DEF Limit, InFlight
  <2>3. \A t \in Targets : phase[t] \in {"head", "get"} => t \in InFlight
    BY DEF InFlight
  <2>4. PICK t \in Targets : t \in InFlight
    BY <1>2 DEF Tick, InFlight
  <2>5. age + 1 <= 2 * Limit(cfg)
    <3>1. CASE phase[t] = "head"
      BY <1>0, <2>1, <2>4, <3>1 DEF CallInv
    <3>2. CASE phase[t] = "get"
      BY <1>0, <2>1, <2>4, <3>2 DEF CallInv
    <3> QED BY <2>4, <3>1, <3>2 DEF InFlight
  <2>6. \A u \in Targets : phase'[u] = "head" => spent'[u] = age'
    BY <1>0, <2>1, <2>3 DEF CallInv
  <2>7. \A u \in Targets : phase'[u] = "get" => age' <= Limit(cfg) + spent'[u]
    BY <1>0, <2>1, <2>3 DEF CallInv
  <2>8. \A u \in InFlight : spent'[u] <= Limit(cfg)
    BY <1>0, <2>1 DEF InFlight
  <2> QED BY <2>1, <2>2, <2>5, <2>6, <2>7, <2>8 DEF CallInv
<1>3. ASSUME NEW t \in Targets, Denied(t) \/ Settled(t) \/ TimesOut(t)
      PROVE  CallInv'
  <2>1. /\ cfg' = cfg /\ age' = age /\ call = "probing"
        /\ \A u \in Targets \ {t} : phase'[u] = phase[u] /\ spent'[u] = spent[u]
    BY <1>3 DEF Denied, Settled, TimesOut, Settle, settingsVars, ShapeOK
  <2>2. Limit(cfg)' = Limit(cfg)
    BY <2>1 DEF Limit
  <2>3. \/ phase'[t] = "done"
        \/ phase[t] = "head" /\ phase'[t] = "get" /\ spent'[t] = 0
    BY <1>3 DEF Denied, Settled, TimesOut, Settle, ShapeOK
  <2>4. phase[t] = "head" => age <= Limit(cfg)
    BY <2>1 DEF CallInv, InFlight
  <2>5. \A u \in InFlight' : u = t \/ u \in InFlight
    BY <2>1 DEF InFlight
  <2>6. \A u \in Targets : phase'[u] = "head" => spent'[u] = age'
    BY <2>1, <2>3 DEF CallInv
  <2>7. \A u \in Targets : phase'[u] = "get" => age' <= Limit(cfg) + spent'[u]
    BY <1>0, <2>1, <2>3, <2>4 DEF CallInv
  <2>8. \A u \in InFlight' : spent'[u] <= Limit(cfg)
    <3> TAKE u \in InFlight'
    <3>1. CASE u = t
      BY <1>0, <2>3, <3>1 DEF InFlight
    <3>2. CASE u # t
      BY <2>1, <2>5, <3>2 DEF CallInv, InFlight
    <3> QED BY <3>1, <3>2
  <2> QED BY <2>1, <2>2, <2>6, <2>7, <2>8 DEF CallInv
<1>4. CASE UNCHANGED <<cfg, call, probeVars>>
  BY <1>4 DEF CallInv, Limit, InFlight, probeVars
<1>5. CASE Reading
  <2>1. call # "probing"
    BY <1>5 DEF Reading, ReadStep, NewExists, OldIsDir, Rename, FileExists,
                CreateDir, Create, Write, Read, Goes, ControlInv
  <2> QED BY <1>5, <2>1 DEF Reading
<1>6. CASE Boot \/ Booted \/ Operating \/ UNCHANGED vars
  <2>1. UNCHANGED <<cfg, call, probeVars>>
    BY <1>6 DEF Boot, Booted, BeginRead, Operating, Operator, vars, settingsVars
  <2> QED BY <1>4, <2>1
<1>7. CASE Request \/ DispatchPanics \/ Answer \/ HangUp \/ Kill
  BY <1>7 DEF Request, DispatchPanics, Answer, HangUp, Kill, CallEnds
<1> QED BY <1>1, <1>2, <1>3, <1>5, <1>6, <1>7 DEF Next

\* The inductive invariant of the call.
Inv == ShapeOK /\ SettingsInv /\ ControlInv /\ CallInv

LEMMA Invariance == Spec => []Inv
<1>1. Init => Inv
  BY ShapeInit, ControlInit DEF Inv
<1>2. Inv /\ [Next]_vars => Inv'
  BY ShapeStep, ControlStep, CallStep DEF Inv
<1> QED BY <1>1, <1>2, PTL DEF Spec

\* Every variable keeps its type, and no request outlives its timeout.
THEOREM TypeCorrect == Spec => []TypeOK
<1>1. Inv => TypeOK
  <2> SUFFICES ASSUME Inv, NEW t \in InFlight
               PROVE  call = "probing" /\ spent[t] <= Limit(cfg)
    BY DEF Inv, ShapeOK, TypeOK
  <2>1. call = "probing"
    BY DEF Inv, ControlInv, InFlight, NoPhase
  <2> QED BY <2>1 DEF Inv, CallInv
<1> QED BY <1>1, Invariance, PTL

\* A call has its answer within two timeouts, for any number of targets.
THEOREM CallsAreBounded == Spec => []CallBounded
<1>1. Inv => CallBounded
  BY DEF Inv, CallInv, CallBounded
<1> QED BY <1>1, Invariance, PTL

-----------------------------------------------------------------------------
(* Progress.  The prover does not see when an action is enabled, so each     *)
(* fairness assumption of LiveSpec is stated with the action's guard.        *)

\* Weak fairness of an action that its guard enables: the guard does not hold
\* for good without a step of the action.
WeakFair(guard, A) == []<>~guard \/ []<><<A>>_vars

\* The file system returns from a call, and what was read is used.
FileSystemReturns == WeakFair(at \notin {"idle", "returned"}, Reading)
Dispatches == WeakFair(call = "reading" /\ at = "returned",
                       Dispatch \/ DispatchPanics)

\* A call that reads is between the first call of read_settings and its return.
ReadingInv == call = "reading" => at # "idle"

LEMMA ReadingStep ==
  ShapeOK /\ ControlInv /\ ReadingInv /\ [Next]_vars => ReadingInv'
<1> SUFFICES ASSUME ShapeOK, ControlInv, ReadingInv, [Next]_vars
             PROVE  ReadingInv'
  OBVIOUS
<1> USE DEF ReadingInv
<1>1. CASE Boot \/ Request
  BY <1>1 DEF Boot, Request, BeginRead
<1>2. CASE Reading
  BY <1>2 DEF Reading, ReadStep, NewExists, OldIsDir, Rename, FileExists,
              CreateDir, Create, Write, Read, Goes, Returns
<1>3. CASE Booted
  BY <1>3 DEF Booted, ControlInv
<1>4. CASE Dispatch \/ DispatchPanics \/ Answer \/ HangUp \/ Kill
  BY <1>4 DEF Dispatch, DispatchPanics, Answer, HangUp, Kill, CallEnds
<1>5. CASE Operating
  BY <1>5 DEF Operating, Operator
<1>6. CASE Tick \/ UNCHANGED vars
  BY <1>6 DEF Tick, vars, settingsVars
<1>7. ASSUME NEW t \in Targets, Denied(t) \/ Settled(t) \/ TimesOut(t)
      PROVE  ReadingInv'
  BY <1>7 DEF Denied, Settled, TimesOut, Settle, settingsVars
<1> QED BY <1>1, <1>2, <1>3, <1>4, <1>5, <1>6, <1>7 DEF Next

LEMMA ReadingInvariance == Spec => [](Inv /\ ReadingInv)
<1>1. Init => ReadingInv
  BY DEF Init, ReadingInv
<1>2. Inv /\ ReadingInv /\ [Next]_vars => ReadingInv'
  BY ReadingStep DEF Inv
<1> QED BY <1>1, <1>2, Invariance, PTL DEF Spec

\* Where the read of a call stands, and what comes next.
ReadAt(s) == call = "reading" /\ at = s

\* The order of the calls: an operator moves none of them, and none comes twice.
LEMMA ReadAtStep ==
  ASSUME Inv, ReadingInv, [Next]_vars, call = "reading", call' = "reading"
  PROVE  \/ at' = at
         \/ at = "new_exists" /\ at' \in {"old_is_dir", "file_exists"}
         \/ at = "old_is_dir" /\ at' \in {"rename", "file_exists"}
         \/ at = "rename" /\ at' = "file_exists"
         \/ at = "file_exists" /\ at' \in {"create_dir", "read"}
         \/ at = "create_dir" /\ at' \in {"create", "returned"}
         \/ at = "create" /\ at' \in {"write", "returned"}
         \/ at \in {"write", "read"} /\ at' = "returned"
<1>1. CASE Reading
  BY <1>1 DEF Reading, ReadStep, NewExists, OldIsDir, Rename, FileExists,
              CreateDir, Create, Write, Read, Goes, Returns
<1>2. CASE Boot \/ Booted \/ Request
  BY <1>2 DEF Boot, Booted, Request, BeginRead, Inv, ControlInv
<1>3. CASE Dispatch \/ DispatchPanics \/ Answer \/ HangUp \/ Kill
  BY <1>3 DEF Dispatch, DispatchPanics, Answer, HangUp, Kill, CallEnds
<1>4. CASE Operating
  BY <1>4 DEF Operating, Operator
<1>5. CASE Tick \/ UNCHANGED vars
  BY <1>5 DEF Tick, vars, settingsVars
<1>6. ASSUME NEW t \in Targets, Denied(t) \/ Settled(t) \/ TimesOut(t)
      PROVE  at' = at
  BY <1>6 DEF Denied, Settled, TimesOut, Settle, settingsVars
<1> QED BY <1>1, <1>2, <1>3, <1>4, <1>5, <1>6 DEF Next

\* A call is done with the settings in the end, however often the operator
\* saves them meanwhile and whichever of its calls fail.
THEOREM ReadsEnd ==
  Spec /\ FileSystemReturns /\ Dispatches
    => (call = "reading" ~> call # "reading")
<1>1. Inv /\ ReadingInv /\ [Next]_vars =>
        /\ ReadAt("new_exists")
             => (\/ ReadAt("new_exists") \/ ReadAt("old_is_dir")
                 \/ ReadAt("file_exists") \/ call # "reading")'
        /\ ReadAt("old_is_dir")
             => (\/ ReadAt("old_is_dir") \/ ReadAt("rename")
                 \/ ReadAt("file_exists") \/ call # "reading")'
        /\ ReadAt("rename")
             => (\/ ReadAt("rename") \/ ReadAt("file_exists")
                 \/ call # "reading")'
        /\ ReadAt("file_exists")
             => (\/ ReadAt("file_exists") \/ ReadAt("create_dir")
                 \/ ReadAt("read") \/ call # "reading")'
        /\ ReadAt("create_dir")
             => (\/ ReadAt("create_dir") \/ ReadAt("create")
                 \/ ReadAt("returned") \/ call # "reading")'
        /\ ReadAt("create")
             => (\/ ReadAt("create") \/ ReadAt("write") \/ ReadAt("returned")
                 \/ call # "reading")'
        /\ ReadAt("write")
             => (ReadAt("write") \/ ReadAt("returned") \/ call # "reading")'
        /\ ReadAt("read")
             => (ReadAt("read") \/ ReadAt("returned") \/ call # "reading")'
        /\ ReadAt("returned") => (ReadAt("returned") \/ call # "reading")'
  BY ReadAtStep DEF ReadAt
<1>2. Inv /\ ReadingInv /\ call = "reading" =>
        \/ ReadAt("new_exists") \/ ReadAt("old_is_dir") \/ ReadAt("rename")
        \/ ReadAt("file_exists") \/ ReadAt("create_dir") \/ ReadAt("create")
        \/ ReadAt("write") \/ ReadAt("read") \/ ReadAt("returned")
  BY DEF Inv, ShapeOK, SettingsTypeOK, ReadingInv, ReadAt
<1>3. ASSUME NEW s
      PROVE  ReadAt(s) /\ <<Reading>>_vars => ~ReadAt(s)'
  BY DEF ReadAt, Reading, ReadStep, NewExists, OldIsDir, Rename, FileExists,
         CreateDir, Create, Write, Read, Goes, Returns
<1>4. <<Reading>>_vars =>
        /\ ReadAt("new_exists") => ~ReadAt("new_exists")'
        /\ ReadAt("old_is_dir") => ~ReadAt("old_is_dir")'
        /\ ReadAt("rename") => ~ReadAt("rename")'
        /\ ReadAt("file_exists") => ~ReadAt("file_exists")'
        /\ ReadAt("create_dir") => ~ReadAt("create_dir")'
        /\ ReadAt("create") => ~ReadAt("create")'
        /\ ReadAt("write") => ~ReadAt("write")'
        /\ ReadAt("read") => ~ReadAt("read")'
  BY <1>3
<1>5. ReadAt("returned") => call = "reading" /\ at = "returned"
  BY DEF ReadAt
<1>6. (\/ ReadAt("new_exists") \/ ReadAt("old_is_dir") \/ ReadAt("rename")
       \/ ReadAt("file_exists") \/ ReadAt("create_dir") \/ ReadAt("create")
       \/ ReadAt("write") \/ ReadAt("read"))
        => at \notin {"idle", "returned"}
  BY DEF ReadAt
<1>7. <<Dispatch \/ DispatchPanics>>_vars => (call # "reading")'
  BY DEF Dispatch, DispatchPanics
<1>8. call # "reading" <=> ~(call = "reading")
  OBVIOUS
<1> QED BY <1>1, <1>2, <1>4, <1>5, <1>6, <1>7, <1>8, ReadingInvariance, PTL
        DEF Spec, FileSystemReturns, Dispatches, WeakFair

\* Time passes while no timer is due, those that are due fire, all of them, and
\* a call whose probes have settled is answered.
Due == \E t \in InFlight : spent[t] = Limit(cfg)
AllDone == InFlight = {}
Waiting == ~AllDone /\ \A t \in InFlight : spent[t] < Limit(cfg)
TimePasses == WeakFair(Waiting, Tick)
TimersFire == []<>~Due
Answers == WeakFair(call = "probing" /\ AllDone, Answer)

\* A call of age n, and what it comes to: its end, or one tick more.
Aged(n) == call = "probing" /\ age = n
Older(n) == call # "probing" \/ age > n

\* Until the next tick a call stays as old, no request is added to those in
\* flight, and no timer becomes due: a GET that replaces a HEAD has a new one.
LEMMA AgedStep ==
  ASSUME NEW n, Inv, [Next]_vars, Aged(n), ~Older(n)'
  PROVE  /\ Aged(n)'
         /\ InFlight' \subseteq InFlight
         /\ ~Due => ~Due'
<1> USE DEF Aged, Older
<1>0. /\ age \in Nat /\ Limit(cfg) \in Nat \ {0} /\ call = "probing"
      /\ spent \in [Targets -> Nat]
      /\ phase \in [Targets -> {"idle", "head", "get", "done"}]
  BY LimitType DEF Inv, ShapeOK, SettingsTypeOK
<1>1. CASE UNCHANGED <<cfg, call, probeVars>>
  BY <1>1 DEF probeVars, InFlight, Due, Limit
<1>2. ASSUME NEW t \in Targets, Denied(t) \/ Settled(t) \/ TimesOut(t)
      PROVE  /\ Aged(n)' /\ InFlight' \subseteq InFlight
             /\ ~Due => ~Due'
  <2>1. /\ cfg' = cfg /\ age' = age /\ call' = call /\ t \in InFlight
        /\ \A u \in Targets \ {t} : phase'[u] = phase[u] /\ spent'[u] = spent[u]
        /\ spent'[t] = 0
    BY <1>0, <1>2 DEF Denied, Settled, TimesOut, Settle, settingsVars, InFlight
  <2>2. Limit(cfg)' = Limit(cfg)
    BY <2>1 DEF Limit
  <2>3. InFlight' \subseteq InFlight
    BY <2>1 DEF InFlight
  <2>4. ASSUME ~Due, NEW u \in InFlight' PROVE spent'[u] # Limit(cfg)
    BY <1>0, <2>1, <2>3, <2>4 DEF Due, InFlight
  <2> QED BY <2>1, <2>2, <2>3, <2>4 DEF Due
<1>3. CASE Tick
  BY <1>0, <1>3 DEF Tick
<1>4. CASE Answer \/ HangUp \/ Kill \/ Dispatch \/ DispatchPanics
  BY <1>0, <1>4 DEF Answer, HangUp, Kill, CallEnds, Dispatch, DispatchPanics
<1>5. CASE Reading
  BY <1>0, <1>5 DEF Reading, ReadStep, NewExists, OldIsDir, Rename, FileExists,
     CreateDir, Create, Write, Read, Goes, Inv, ControlInv
<1>6. CASE Boot \/ Booted \/ Request \/ Operating \/ UNCHANGED vars
  <2>1. UNCHANGED <<cfg, call, probeVars>>
    BY <1>0, <1>6 DEF Boot, Booted, Request, BeginRead, Operating, Operator,
                      vars, settingsVars
  <2> QED BY <1>1, <2>1
<1> QED BY <1>2, <1>3, <1>4, <1>5, <1>6 DEF Next

\* A call that probes never stops in time: it ends or is a tick older, so that
\* by CallBounded it ends within two timeouts.
THEOREM CallsProceed ==
  ASSUME NEW n
  PROVE  Spec /\ TimePasses /\ TimersFire /\ Answers => (Aged(n) ~> Older(n))
<1>1. Inv /\ Aged(n) /\ [Next]_vars =>
        /\ Aged(n)' \/ Older(n)'
        /\ ~Due => ~Due' \/ Older(n)'
        /\ AllDone => AllDone' \/ Older(n)'
  BY AgedStep DEF AllDone
<1>2. Inv /\ Aged(n) /\ <<Tick>>_vars => Older(n)'
  BY DEF Inv, ShapeOK, Tick, Aged, Older
<1>3. <<Answer>>_vars => Older(n)'
  BY DEF Answer, CallEnds, Older
<1>4. Inv /\ Aged(n) /\ ~AllDone /\ ~Due => Waiting
  <2> SUFFICES ASSUME Inv, Aged(n), ~Due, NEW t \in InFlight
               PROVE  spent[t] < Limit(cfg)
    BY DEF Waiting
  <2>1. spent[t] \in Nat /\ Limit(cfg) \in Nat
    BY LimitType DEF Inv, ShapeOK, SettingsTypeOK, InFlight
  <2>2. spent[t] <= Limit(cfg) /\ spent[t] # Limit(cfg)
    BY DEF Inv, CallInv, Aged, Due
  <2> QED BY <2>1, <2>2
<1>5. Aged(n) /\ AllDone => call = "probing" /\ AllDone
  BY DEF Aged
<1> QED BY <1>1, <1>2, <1>3, <1>4, <1>5, Invariance, PTL
        DEF Spec, TimePasses, TimersFire, Answers, WeakFair
=============================================================================
