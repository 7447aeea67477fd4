-------------------------------- MODULE Policy --------------------------------
(***************************************************************************)
(* What the gateway thinks of a tool and of a call to it                   *)
(* (packages/federation/src/tool-classifier.ts, policy-engine.ts).         *)
(*                                                                         *)
(* A tool as its server lists it: `words`, the risk classes whose words    *)
(* its name and description contain; `readVerb`, whether its name begins   *)
(* with a verb of reading; `hints`, its annotations.                       *)
(***************************************************************************)
EXTENDS Naturals, Sequences

CONSTANTS
  BlockedRiskLevels,          \* policy.blockedRiskLevels
  ConfirmationRiskLevels,     \* policy.confirmationRiskLevels
  DisableUnknownDestructive   \* policy.disableUnknownDestructive

\* PATTERNS, in the order they are tried.
Patterns == <<"DESTRUCTIVE", "FINANCIAL", "ADMINISTRATIVE",
              "EXTERNAL_COMMUNICATION", "WRITE", "READ_ONLY">>
RiskLevels == {Patterns[i] : i \in DOMAIN Patterns} \cup {"UNKNOWN"}
Hints == {"destructive", "harmless", "readOnly", "openWorld"}

ASSUME BlockedAssumption == BlockedRiskLevels \subseteq RiskLevels
ASSUME ConfirmationAssumption == ConfirmationRiskLevels \subseteq RiskLevels
ASSUME DisableAssumption == DisableUnknownDestructive \in BOOLEAN

\* Mutant: a tool nothing is known of falls through the patterns.
ClassifyToolByPattern(tool) ==
  LET matching == {i \in DOMAIN Patterns : Patterns[i] \in tool.words}
      first == {Patterns[i] : i \in {m \in matching : \A j \in matching : m <= j}}
  IN IF first = {} THEN "NONE" ELSE CHOOSE p \in first : TRUE

\* Hints first, then the first pattern, a write being no write behind a verb
\* of reading.
ClassifyTool(tool) ==
  LET matching == {i \in DOMAIN Patterns :
                     /\ Patterns[i] \in tool.words
                     /\ ~(Patterns[i] = "WRITE" /\ tool.readVerb)}
      first == Patterns[CHOOSE i \in matching : \A j \in matching : i <= j]
  IN IF "destructive" \in tool.hints THEN "DESTRUCTIVE"
     ELSE IF "readOnly" \in tool.hints THEN "READ_ONLY"
     ELSE IF matching = {} THEN "UNKNOWN"
     ELSE IF first = "WRITE" /\ "openWorld" \in tool.hints THEN "EXTERNAL_COMMUNICATION"
     ELSE first

\* destructiveHint is given, as true or as false ("harmless").
Reviewed(tool) == tool.hints \cap {"destructive", "harmless"} # {}

ShouldExposeTool(tool) ==
  /\ ClassifyTool(tool) \notin BlockedRiskLevels
  /\ DisableUnknownDestructive /\ ClassifyTool(tool) = "DESTRUCTIVE" => Reviewed(tool)

\* mayWrite: a role of the caller is a write role, or there are none; argsFit:
\* the arguments are short enough and fit the schema.
EvaluateToolCall(row, disabled, mayWrite, argsFit) ==
  IF \/ ~row.enabled \/ disabled
     \/ row.risk \in BlockedRiskLevels
     \/ row.risk # "READ_ONLY" /\ ~mayWrite
  THEN "DENY"
  ELSE IF ~argsFit THEN "INVALID_ARGUMENTS"
  ELSE IF row.risk \in ConfirmationRiskLevels THEN "REQUIRE_CONFIRMATION"
  ELSE "ALLOW"

=============================================================================
