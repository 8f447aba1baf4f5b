------------------------------ MODULE AdminCLI ------------------------------
(***************************************************************************)
(* The command line client of cmd/cli/main.go on the Go SDK of pkg/sdk/go  *)
(* and the texts of internal/i18n: one process for each command, which     *)
(* sends a request or two and tells by its exit code what came of them.    *)
(*                                                                         *)
(* A process does nothing that others see but to send and to exit; what it *)
(* does from one of these to the next is one step.                         *)
(***************************************************************************)
EXTENDS ManagementAPI, Integers

CONSTANTS
    CLIs,         \* terminals, each a caller of the API
    Invocations,  \* commands that are typed: see InvocationType
    MaxCommands   \* bound on the commands of a terminal

\* The commands with a request, and those without one ("unknown" included).
Remote == {"list", "get", "create", "delete", "stats", "restart", "logs", "health"}
Local  == {"help", "version", "install-skill", "unknown"}

\* Locale files are read from the working directory; the languages of those
\* that were found and are JSON.  detected comes from LANG, lang from
\* ATUNNELS_LANG and -lang: an unsupported one has become "en".
Languages == {"en", "fr", "es"}

InvocationType ==
    [command  : Remote \cup Local,
     name     : Names \cup {NoName},     \* NoName: no name among the arguments
     enough   : BOOLEAN,                 \* the arguments are enough
     json     : BOOLEAN,                 \* -json
     token    : {"valid", "other", "none"},
     loaded   : SUBSET Languages,
     detected : Languages,
     lang     : Languages]

ASSUME CLIAssumption ==
    /\ CLIs \subseteq Callers
    /\ Invocations \subseteq InvocationType
    /\ \A v \in Invocations : v.command \in NamedRoutes /\ v.enough => v.name \in Names
    /\ MaxCommands \in Nat

VARIABLES
    typed,      \* the command that runs or ran last, NoCommand before the first
    cpc,        \* what the process waits for
    exit,       \* its exit code, -1 as long as it runs
    commands    \* how many there were

clivars == <<typed, cpc, exit, commands>>

NoCommand == [command |-> "none"]

\* No process runs (idle); it waits for the answer to generate-name (naming)
\* or to its request (asking).
CLITypeOK ==
    /\ typed \in [CLIs -> Invocations \cup {NoCommand}]
    /\ cpc \in [CLIs -> {"idle", "naming", "asking"}]
    /\ exit \in [CLIs -> {-1, 0, 1, 2}]
    /\ commands \in [CLIs -> 0..MaxCommands]
    /\ \A c \in CLIs : cpc[c] /= "idle" => call[c] /= NoCall /\ typed[c].command \in Remote

CLIInit ==
    /\ typed = [c \in CLIs |-> NoCommand]
    /\ cpc = [c \in CLIs |-> "idle"]
    /\ exit = [c \in CLIs |-> 0]
    /\ commands = [c \in CLIs |-> 0]

-----------------------------------------------------------------------------
(* T dereferences the locale of the language, or the English one: without  *)
(* both it panics (exit code 2).                                           *)

Speaks(v, lang) == {lang, "en"} \cap v.loaded /= {}

\* The exit code when a text comes first.
Saying(v, code) == IF Speaks(v, v.lang) THEN code ELSE 2

\* The texts of the options, before Init has set the language.
FlagsDefined(v) == Speaks(v, v.detected)

NeedsToken(v) == v.command \notin {"install-skill", "help", "version"}

\* installSkill finds its file and can copy it, or not.
SkillCodes == {0, 1}

\* The exit codes of a process that gets as far as its command and asks
\* nobody.
LocalCodes(v) ==
    CASE NeedsToken(v) /\ v.token = "none"        -> {Saying(v, 1)}
      [] v.command = "install-skill"              -> SkillCodes
      [] v.command \in {"help", "version"}        -> {Saying(v, 0)}
      [] v.command = "unknown"                    -> {Saying(v, 1)}
      [] v.command \in {"restart", "logs"}        -> {1}
      [] OTHER                                    -> {Saying(v, 1)}

Asks(v) == v.command \in Remote /\ v.token /= "none" /\ v.enough

-----------------------------------------------------------------------------

Type(c, v) ==
    /\ cpc[c] = "idle"
    /\ commands[c] < MaxCommands
    /\ commands' = [commands EXCEPT ![c] = @ + 1]
    /\ typed' = [typed EXCEPT ![c] = v]

\* The process ends before it has sent anything.
Run(c, v) ==
    /\ Type(c, v)
    /\ ~FlagsDefined(v) \/ ~Asks(v)
    /\ \E code \in IF FlagsDefined(v) THEN LocalCodes(v) ELSE {2} :
            exit' = [exit EXCEPT ![c] = code]
    /\ UNCHANGED <<cpc, apivars>>

\* create without a name asks for one first.
Ask(c, v) ==
    /\ Type(c, v)
    /\ FlagsDefined(v) /\ Asks(v)
    /\ exit' = [exit EXCEPT ![c] = -1]
    /\ IF v.command = "create" /\ v.name = NoName
       THEN /\ Send(c, "generate-name", NoName, v.token)
            /\ cpc' = [cpc EXCEPT ![c] = "naming"]
       ELSE /\ Send(c, v.command, v.name, v.token)
            /\ cpc' = [cpc EXCEPT ![c] = "asking"]

Exit(c, code) ==
    /\ exit' = [exit EXCEPT ![c] = code]
    /\ cpc' = [cpc EXCEPT ![c] = "idle"]
    /\ Close(c)
    /\ UNCHANGED <<typed, commands>>

NamedWhen(c, ready) ==
    /\ cpc[c] = "naming"
    /\ ready
    /\ Send(c, "create", offered[c], call[c].token)
    /\ cpc' = [cpc EXCEPT ![c] = "asking"]
    /\ UNCHANGED <<typed, exit, commands>>

\* Mutant: the error of GenerateName is ignored.
NamedAnyway(c) == NamedWhen(c, answer[c] /= "none")

Named(c) == NamedWhen(c, answer[c] = "ok")

NotNamed(c) ==
    /\ cpc[c] = "naming"
    /\ answer[c] \notin {"none", "ok"}
    /\ Exit(c, Saying(typed[c], 1))

\* The text of a success; with -json most commands print none.
Success(v) == IF v.json /\ v.command \notin {"delete", "restart"} THEN 0 ELSE Saying(v, 0)

\* getLogs shows whatever it gets; Health knows no error.
LogsVerdict(a)   == IF a = "error" THEN 1 ELSE 0
HealthVerdict(v) == Success(v)

\* What a command makes of an answer.
Verdict(v, a) ==
    CASE v.command = "logs"   -> LogsVerdict(a)
      [] v.command = "health" -> HealthVerdict(v)
      [] OTHER                -> IF a = "ok" THEN Success(v) ELSE 1

\* Mutant: doRequest does not look at the status, as getLogs does not.
ReportUnchecked(c) ==
    /\ cpc[c] = "asking"
    /\ answer[c] /= "none"
    /\ Exit(c, IF answer[c] = "error" THEN 1 ELSE Success(typed[c]))

Report(c) ==
    /\ cpc[c] = "asking"
    /\ answer[c] /= "none"
    /\ Exit(c, Verdict(typed[c], answer[c]))

-----------------------------------------------------------------------------

CLINext ==
    \E c \in CLIs :
        \/ \E v \in Invocations : Run(c, v)
        \/ \E v \in Invocations : Ask(c, v)
        \/ Named(c)
        \/ NotNamed(c)
        \/ Report(c)
=============================================================================
