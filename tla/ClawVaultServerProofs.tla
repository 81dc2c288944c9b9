------------------------- MODULE ClawVaultServerProofs -------------------------
(***************************************************************************)
(* Proofs about ClawVaultServer: a check of a strict engine that passes    *)
(* has met no sensitive word in the clear and, if inbound, no injection    *)
(* pattern, of those readable ever since the process began.                *)
(***************************************************************************)
EXTENDS ClawVaultServer, TLAPS

-----------------------------------------------------------------------------
(* The rules that a check is judged by: ClawVaultServer.                   *)

LEMMA ContentTypes ==
    ASSUME ServerTypeOK, NEW f \in RuleFiles
    PROVE  files[f] \in Contents /\ files[f].rules \in SUBSET Rules
BY DEF ServerTypeOK, Contents, Unreadable

LEMMA EngineTypes ==
    ASSUME ServerTypeOK, NEW mode \in Modes
    PROVE  /\ EngineFor(mode) \in [patterns : SUBSET Rules, words : SUBSET Rules,
                                   mode : Modes \cup {"none"}]
           /\ EngineFor(mode) # NoEngine
           /\ engine = NoEngine =>
                 EngineFor(mode) = [patterns |-> files["patterns"].rules,
                                    words |-> files["words"].rules, mode |-> mode]
<1>1. files["patterns"].rules \in SUBSET Rules /\ files["words"].rules \in SUBSET Rules
  BY ContentTypes DEF RuleFiles
<1>2. mode # "none"
  BY ServerAssumption
<1> QED BY <1>1, <1>2 DEF EngineFor, NoEngine, ServerTypeOK

LEMMA NoCheckType ==
    NoCheck \in [stage : {"none", "sent", "answered", "lost"}, text : Texts,
                 direction : Directions, mode : Modes \cup {"strict"}, passed : BOOLEAN]
<1>1. [plain |-> {}, encoded |-> {}, dense |-> FALSE] \in Texts
  BY DEF Texts
<1> QED BY <1>1 DEF NoCheck, Directions

LEMMA ServerInitInv == ServerInit => SteadyInv
<1> SUFFICES ASSUME ServerInit PROVE SteadyInv
  OBVIOUS
<1>1. \A f \in RuleFiles : files[f] \in Contents /\ files[f].rules \in SUBSET Rules
  BY DEF ServerInit, Contents, Unreadable
<1>2. ServerTypeOK
  BY <1>1, NoCheckType, ServerAssumption DEF ServerInit, ServerTypeOK, NoEngine
<1>3. check.stage = "none"
  BY DEF ServerInit, NoCheck
<1> QED BY <1>2, <1>3 DEF ServerInit, SteadyInv, SteadyRulesEnforced

LEMMA EditRulesInv ==
    ASSUME SteadyInv, NEW f \in RuleFiles, EditRules(f) PROVE SteadyInv'
<1>1. PICK content \in Contents \ {files[f]} : files' = [files EXCEPT ![f] = content]
  BY DEF EditRules
<1>2. /\ edits < MaxEdits /\ edits' = edits + 1
      /\ steady' = [steady EXCEPT ![f] = @ \cap files'[f].rules]
      /\ UNCHANGED <<process, socket, engine, check>>
  BY DEF EditRules
<1>3. edits' \in 0 .. MaxEdits
  BY <1>2, ServerAssumption DEF SteadyInv, ServerTypeOK
<1>4. \A g \in RuleFiles : steady'[g] \subseteq steady[g] /\ steady'[g] \subseteq files'[g].rules
  BY <1>1, <1>2 DEF SteadyInv, ServerTypeOK
<1>5. steady' \in [RuleFiles -> SUBSET Rules] /\ files' \in [RuleFiles -> Contents]
  BY <1>1, <1>2 DEF SteadyInv, ServerTypeOK
<1>6. ServerTypeOK'
  BY <1>2, <1>3, <1>5 DEF SteadyInv, ServerTypeOK
<1>7. SteadyRulesEnforced'
  BY <1>2, <1>4 DEF SteadyInv, SteadyRulesEnforced, RuleFiles
<1> QED BY <1>2, <1>4, <1>6, <1>7 DEF SteadyInv, RuleFiles

LEMMA SendCheckInv ==
    ASSUME SteadyInv, NEW text \in Texts, NEW direction \in Directions, NEW mode \in Modes,
           SendCheck(text, direction, mode)
    PROVE  SteadyInv'
BY DEF SendCheck, SteadyInv, ServerTypeOK, SteadyRulesEnforced

LEMMA HandleCheckInv == ASSUME SteadyInv, HandleCheck PROVE SteadyInv'
<1>1. /\ check.stage = "sent" /\ check.mode \in Modes
      /\ engine' = EngineFor(check.mode)
      /\ check' = [check EXCEPT !.stage = "answered",
                                !.passed = Passed(engine', check.text, check.direction)]
      /\ UNCHANGED <<files, edits, process, socket, steady>>
  BY DEF HandleCheck, SteadyInv
<1>2. /\ steady["patterns"] \subseteq engine'.patterns
      /\ steady["words"] \subseteq engine'.words
      /\ engine'.mode \in Modes
  <2>1. CASE engine = NoEngine
    BY <1>1, <2>1, EngineTypes DEF SteadyInv, RuleFiles
  <2>2. CASE engine # NoEngine
    BY <1>1, <2>2 DEF SteadyInv, EngineFor
  <2> QED BY <2>1, <2>2
<1>3. Passed(engine', check.text, check.direction) \in BOOLEAN
  BY DEF Passed
<1>4. ServerTypeOK'
  BY <1>1, <1>3, EngineTypes DEF SteadyInv, ServerTypeOK
<1>5. SteadyRulesEnforced'
  <2> SUFFICES ASSUME Modes = {"strict"}, check'.stage = "answered", check'.passed
               PROVE  /\ steady["words"] \cap check.text.plain = {}
                      /\ check.direction = "inbound" =>
                           steady["patterns"] \cap (check.text.plain \cup check.text.encoded) = {}
    BY <1>1 DEF SteadyRulesEnforced
  <2>1. check'.passed = Passed(engine', check.text, check.direction)
    BY <1>1, <1>4 DEF ServerTypeOK
  <2>2. ~ Violates(engine', check.text, check.direction)
    BY <1>2, <2>1 DEF Passed
  <2> QED BY <1>2, <2>2 DEF Violates, WordHits, PatternHits
<1> QED BY <1>1, <1>2, <1>4, <1>5 DEF SteadyInv

LEMMA ProcessInv ==
    ASSUME SteadyInv,
           StartProcess \/ Listen \/ Shutdown \/ TerminateEarly \/ Exit \/ Crash
    PROVE  SteadyInv'
<1>1. CASE StartProcess
  <2>1. NoCheck.stage = "none"
    BY DEF NoCheck
  <2>2. steady' \in [RuleFiles -> SUBSET Rules]
    BY <1>1, ContentTypes DEF StartProcess, SteadyInv
  <2>3. ServerTypeOK'
    BY <1>1, <2>2, NoCheckType DEF StartProcess, SteadyInv, ServerTypeOK, NoEngine
  <2> QED BY <1>1, <2>1, <2>3 DEF StartProcess, SteadyInv, SteadyRulesEnforced
<1>2. CASE Listen \/ Shutdown \/ TerminateEarly
  BY <1>2 DEF Listen, Shutdown, TerminateEarly, SteadyInv, ServerTypeOK, SteadyRulesEnforced
<1>3. CASE Exit \/ Crash
  <2>1. /\ process' = "down" /\ LoseCheck
        /\ UNCHANGED <<files, edits, socket, engine, steady>>
    BY <1>3 DEF Exit, Crash
  <2>2. \/ check' = check /\ check.stage # "sent"
        \/ check.stage = "sent" /\ check' = [check EXCEPT !.stage = "lost"]
    BY <2>1 DEF LoseCheck
  <2>3. check' \in [stage : {"none", "sent", "answered", "lost"}, text : Texts,
                    direction : Directions, mode : Modes \cup {"strict"},
                    passed : BOOLEAN]
    BY <2>2 DEF SteadyInv, ServerTypeOK
  <2>4. ServerTypeOK'
    BY <2>1, <2>3 DEF SteadyInv, ServerTypeOK
  <2>5. check' = check \/ check'.stage = "lost"
    BY <2>2 DEF SteadyInv, ServerTypeOK
  <2>6. check'.stage # "sent"
    BY <2>2 DEF SteadyInv, ServerTypeOK
  <2> QED BY <2>1, <2>4, <2>5, <2>6 DEF SteadyInv, SteadyRulesEnforced
<1> QED BY <1>1, <1>2, <1>3

LEMMA ReloadRulesInv == ASSUME SteadyInv, ReloadRules PROVE SteadyInv'
<1>1. /\ engine # NoEngine
      /\ engine' = [engine EXCEPT !.patterns = files["patterns"].rules,
                                  !.words = files["words"].rules]
      /\ UNCHANGED <<files, edits, process, socket, check, steady>>
  BY DEF ReloadRules
<1>2. files["patterns"].rules \in SUBSET Rules /\ files["words"].rules \in SUBSET Rules
  BY ContentTypes DEF RuleFiles, SteadyInv
<1>3. /\ engine'.patterns = files["patterns"].rules /\ engine'.words = files["words"].rules
      /\ engine'.mode \in Modes
  BY <1>1 DEF SteadyInv, ServerTypeOK
<1>4. ServerTypeOK'
  BY <1>1, <1>2 DEF SteadyInv, ServerTypeOK
<1> QED BY <1>1, <1>3, <1>4 DEF SteadyInv, SteadyRulesEnforced, RuleFiles

LEMMA ServerNextInv == ASSUME SteadyInv, [ServerNext]_serverVars PROVE SteadyInv'
<1>1. CASE UNCHANGED serverVars
  BY <1>1 DEF serverVars, SteadyInv, ServerTypeOK, SteadyRulesEnforced
<1> QED BY <1>1, EditRulesInv, SendCheckInv, HandleCheckInv, ProcessInv, ReloadRulesInv
        DEF ServerNext, ServerStep

\* A rule that can be read all the time is in the engine, whenever that is made,
\* while files are edited and broken and the process is killed and restarted.
THEOREM ServerInvariant == ServerSpec => []SteadyInv
<1> QED BY ServerInitInv, ServerNextInv, PTL DEF ServerSpec

\* No text in which such a word stands in the clear, and no inbound text in which
\* such a pattern stands in the clear or in Base64, passes an engine in strict mode.
THEOREM ServerRulesEnforced == ServerSpec => []SteadyRulesEnforced
<1>1. SteadyInv => SteadyRulesEnforced
  BY DEF SteadyInv
<1> QED BY <1>1, ServerInvariant, PTL
===============================================================================
