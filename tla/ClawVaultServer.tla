--------------------------- MODULE ClawVaultServer ---------------------------
(***************************************************************************)
(* clawvault/server.py's process under its supervisor, its dispatch of     *)
(* requests, and clawvault/compliance.py's engine.  The engine is made by  *)
(* the first check of a process, from the rule files as they are then and  *)
(* in the mode of that check.  No handler of a check awaits, so a check is *)
(* one step.  A rule is a model value; a text says which rules match it as *)
(* it is and in its Base64 segments (of 20 characters and more), and       *)
(* whether it is dense with the built-in role-switch keywords.             *)
(***************************************************************************)
EXTENDS Naturals

CONSTANTS
    Rules,      \* injection patterns and sensitive words
    Modes,      \* modes that a check may ask for
    MaxEdits    \* bound: edits of the rule files

RuleFiles == {"patterns", "words"}
\* A file that is missing, or that cannot be read or parsed.
Unreadable == [readable |-> FALSE, rules |-> {}]
Contents == {Unreadable} \cup {[readable |-> TRUE, rules |-> R] : R \in SUBSET Rules}
NoEngine == [patterns |-> {}, words |-> {}, mode |-> "none"]
\* The rules found in a text as it stands and in its Base64; whether it is dense.
Texts == [plain : SUBSET Rules, encoded : SUBSET Rules, dense : BOOLEAN]
Directions == {"inbound", "outbound"}

ASSUME ServerAssumption ==
    /\ Modes \subseteq {"strict", "interactive", "permissive"}
    /\ MaxEdits \in Nat

VARIABLES
    files,    \* content of the rule files
    edits,
    process,  \* "down", "starting", "serving" or "stopping"
    socket,   \* whether the socket file is there
    engine,   \* compliance.py's _engine
    check,    \* the last check: how far it is, what it asks, what it was told
    steady    \* history: rules readable in each file ever since the process began

serverVars == <<files, edits, process, socket, engine, check, steady>>

-----------------------------------------------------------------------------
(* ComplianceEngine                                                        *)

\* _check_injection_patterns(), _check_base64_injection()
PatternHits(rules, text) == rules \cap (text.plain \cup text.encoded)

\* _check_sensitive_words()
WordHits(rules, text) == rules \cap text.plain

\* Whether check_compliance() finds a violation.
Violates(e, text, direction) ==
    \/ WordHits(e.words, text) # {}
    \/ direction = "inbound" /\ (PatternHits(e.patterns, text) # {} \/ text.dense)

\* _determine_passed()
Passed(e, text, direction) ==
    e.mode = "permissive" \/ ~ Violates(e, text, direction)

\* One file that cannot be read costs the rules of both.
WrongEngineFor(mode) ==
    IF engine # NoEngine THEN engine
    ELSE LET all == \A f \in RuleFiles : files[f].readable
         IN [patterns |-> IF all THEN files["patterns"].rules ELSE {},
             words |-> IF all THEN files["words"].rules ELSE {},
             mode |-> mode]

\* get_compliance_engine(): the mode counts for the first call only.
EngineFor(mode) ==
    IF engine # NoEngine THEN engine
    ELSE [patterns |-> files["patterns"].rules, words |-> files["words"].rules,
          mode |-> mode]

-----------------------------------------------------------------------------
NoCheck == [stage |-> "none", text |-> [plain |-> {}, encoded |-> {}, dense |-> FALSE],
            direction |-> "inbound", mode |-> "strict", passed |-> TRUE]

ServerInit ==
    /\ files \in [RuleFiles -> Contents]
    /\ edits = 0 /\ process = "down" /\ socket \in BOOLEAN
    /\ engine = NoEngine /\ check = NoCheck
    /\ steady = [f \in RuleFiles |-> files[f].rules]

EditRules(f) ==
    /\ edits < MaxEdits
    /\ edits' = edits + 1
    /\ \E content \in Contents \ {files[f]} : files' = [files EXCEPT ![f] = content]
    /\ steady' = [steady EXCEPT ![f] = @ \cap files'[f].rules]
    /\ UNCHANGED <<process, socket, engine, check>>

\* The supervisor starts the process: main(), with new singletons.
StartProcess ==
    /\ process = "down"
    /\ process' = "starting"
    /\ engine' = NoEngine
    /\ steady' = [f \in RuleFiles |-> files[f].rules]
    /\ check' = NoCheck
    /\ UNCHANGED <<files, edits, socket>>

\* start(): a stale socket is removed and a new one bound.
Listen ==
    /\ process = "starting"
    /\ process' = "serving" /\ socket' = TRUE
    /\ UNCHANGED <<files, edits, engine, check, steady>>

\* SIGTERM: shutdown() runs without a pause, then serve_forever() goes on.
Shutdown ==
    /\ process = "serving"
    /\ process' = "stopping" /\ socket' = FALSE
    /\ UNCHANGED <<files, edits, engine, check, steady>>

\* SIGTERM before the socket is bound: it is bound, and closed at once.
TerminateEarly ==
    /\ process = "starting"
    /\ process' = "stopping" /\ socket' = TRUE
    /\ UNCHANGED <<files, edits, engine, check, steady>>

\* What is unanswered is lost with the connections.
LoseCheck ==
    check' = IF check.stage = "sent" THEN [check EXCEPT !.stage = "lost"] ELSE check

Exit ==
    /\ process = "stopping"
    /\ process' = "down"
    /\ LoseCheck
    /\ UNCHANGED <<files, edits, socket, engine, steady>>

\* SIGKILL, or out of memory: the socket file stays.
Crash ==
    /\ process \in {"starting", "serving", "stopping"}
    /\ process' = "down"
    /\ LoseCheck
    /\ UNCHANGED <<files, edits, socket, engine, steady>>

Connectable == process = "serving" /\ socket

SendCheck(text, direction, mode) ==
    /\ check.stage # "sent" /\ Connectable
    /\ check' = [stage |-> "sent", text |-> text, direction |-> direction,
                 mode |-> mode, passed |-> TRUE]
    /\ UNCHANGED <<files, edits, process, socket, engine, steady>>

\* dispatch_request() and handle_check_compliance(); connections that are open
\* are served until the loop ends.
HandleCheck ==
    /\ check.stage = "sent" /\ process \in {"serving", "stopping"}
    /\ engine' = EngineFor(check.mode)
    /\ check' = [check EXCEPT !.stage = "answered",
                              !.passed = Passed(engine', check.text, check.direction)]
    /\ UNCHANGED <<files, edits, process, socket, steady>>

\* ComplianceEngine.reload(), which nothing in the server calls.
ReloadRules ==
    /\ engine # NoEngine
    /\ engine' = [engine EXCEPT !.patterns = files["patterns"].rules,
                                !.words = files["words"].rules]
    /\ UNCHANGED <<files, edits, process, socket, check, steady>>

-----------------------------------------------------------------------------
ServerStep ==
    \/ StartProcess
    \/ Listen
    \/ Shutdown
    \/ TerminateEarly
    \/ Exit
    \/ Crash
    \/ HandleCheck
    \/ ReloadRules

ServerNext ==
    \/ \E f \in RuleFiles : EditRules(f)
    \/ \E text \in Texts, direction \in Directions, mode \in Modes :
          SendCheck(text, direction, mode)
    \/ ServerStep

ServerSpec == ServerInit /\ [][ServerNext]_serverVars

-----------------------------------------------------------------------------
ServerTypeOK ==
    /\ files \in [RuleFiles -> Contents] /\ edits \in 0 .. MaxEdits
    /\ process \in {"down", "starting", "serving", "stopping"}
    /\ socket \in BOOLEAN
    /\ engine \in [patterns : SUBSET Rules, words : SUBSET Rules,
                   mode : Modes \cup {"none"}]
    /\ check \in [stage : {"none", "sent", "answered", "lost"}, text : Texts,
                  direction : Directions, mode : Modes \cup {"strict"},
                  passed : BOOLEAN]
    /\ steady \in [RuleFiles -> SUBSET Rules]

\* An engine that nobody asked for another mode enforces the rules that their
\* file has shown ever since the process began, whatever edits broke or changed
\* the files meanwhile, and whenever the engine was made.  A sensitive word is
\* looked for in the clear, in both directions; an injection pattern in inbound
\* texts only, in the clear and in Base64.
SteadyRulesEnforced ==
    Modes = {"strict"} /\ check.stage = "answered" /\ check.passed =>
        /\ steady["words"] \cap check.text.plain = {}
        /\ check.direction = "inbound" =>
              steady["patterns"] \cap (check.text.plain \cup check.text.encoded) = {}

\* What makes that inductive: a rule that its file has shown all the time is on
\* disk, and so in the engine whenever that was made or reloaded.
SteadyInv ==
    /\ ServerTypeOK
    /\ \A f \in RuleFiles : steady[f] \subseteq files[f].rules
    /\ engine # NoEngine => /\ steady["patterns"] \subseteq engine.patterns
                            /\ steady["words"] \subseteq engine.words
                            /\ engine.mode \in Modes
    /\ check.stage = "sent" => check.mode \in Modes
    /\ SteadyRulesEnforced

\* A check is decided in the mode it asks for (handle_check_compliance's
\* description of its parameters).
ModeAsAsked ==
    check.stage = "answered" /\ check.mode = "strict" /\ check.passed =>
        ~ Violates(engine, check.text, check.direction)
=============================================================================
