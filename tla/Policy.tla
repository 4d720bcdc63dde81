------------------------------- MODULE Policy -------------------------------
(***************************************************************************)
(* From the arguments of a foreground program to a saved command           *)
(* (capture.rs: resolve_claude_attach, command_for, launchers, profiles)   *)
(* and from the saved command to the arguments that are run, under the     *)
(* configuration and the transcripts of that later moment (model.rs:       *)
(* CommandSpec::allowed_argv).  Words are few: a program by its file name, *)
(* an option of each kind, a session id, any other text.                   *)
(***************************************************************************)
EXTENDS Integers, Sequences, FiniteSets

CONSTANTS
    Ids,            \* exact session ids, which are words too
    Joined,         \* the word "--resume=<value>" of each value
    Lines,          \* arguments that panes run with: sequences of words
    MaxWords,       \* bound: words in the arguments that are only parsed
    Nothing         \* no agent, no session, an error

Programs == {"claude", "codex", "node", "wrapper", "tool"}  \* node runs Claude's script
Agents == {"claude", "codex"}
Profiles == {"home", "work"}    \* Claude's configuration directories; "home" is the default
Options == {"--resume", "--model", "--yes", "--continue", "--"}
Separate == Options \union Ids \union {"resume", "attach", "text"}
Values == Ids \union {"text"}                \* what may follow "--resume="
JoinedWords == {Joined[v] : v \in Values}
Words == Separate \union JoinedWords
Dashed == Options \union JoinedWords         \* words that start with a dash
ASSUME JoinedAssumption ==
    /\ \A v, w \in Values : Joined[v] = Joined[w] => v = w
    /\ JoinedWords \intersect Separate = {}
ASSUME LineAssumption == Lines \subseteq Seq(Words)
ASSUME WordAssumption == MaxWords \in Nat /\ Nothing \notin Ids /\ Nothing \notin Seq(Ids)

\* Config: allowed_programs, resume_agents, and the one launcher, "wrapper", that stands
\* for an agent started with CLAUDE_CONFIG_DIR=work.
Configs == [allowed : {{}, Programs, {"claude", "wrapper"}}, resume : BOOLEAN,
            launcher : Agents \union {Nothing}]

Transcripts == SUBSET (Profiles \X Ids)     \* conversations with content

VARIABLES
    stage,          \* "parse", "run", "saved", "launched" or "refused"
    pane,           \* what runs: [program, line, native, profile, detected]
    words,          \* arguments to be parsed
    saved,          \* the CommandSpec
    launched,       \* what is run in the end, and under which configuration
    meant           \* history: the session, its agent and profile when it was captured

policyVars == <<stage, pane, words, saved, launched, meant>>

-----------------------------------------------------------------------------
(* Words *)

\* agent_launcher
AgentOf(program) ==
    CASE program \in {"claude", "node"} -> "claude"
      [] program = "codex" -> "codex"
      [] OTHER -> Nothing

TakesValue(word) == word = "--model"        \* agent_option_takes_value
Flag(word) == word = "--yes"                \* agent_boolean_option
ResumeWord(agent, word) == word = "--resume" \/ (agent = "codex" /\ word = "resume")
Stripped(word) == CHOOSE v \in Values : word = Joined[v]   \* strip_prefix("--resume=")

\* Mutant: the value of an option may look like an option.
ScanLoose(agent, line) ==
    LET n == Len(line)
        scan[i \in 1 .. n + 1] ==
            IF i > n THEN <<>>
            ELSE CASE ResumeWord(agent, line[i]) ->
                        IF i < n /\ line[i + 1] \in Ids /\ scan[i + 2] # Nothing
                        THEN <<line[i + 1]>> \o scan[i + 2] ELSE Nothing
                   [] line[i] \in JoinedWords ->
                        IF Stripped(line[i]) \in Ids /\ scan[i + 1] # Nothing
                        THEN <<Stripped(line[i])>> \o scan[i + 1] ELSE Nothing
                   [] TakesValue(line[i]) -> IF i < n THEN scan[i + 2] ELSE Nothing
                   [] Flag(line[i]) -> scan[i + 1]
                   [] OTHER -> Nothing
    IN scan[1]

\* explicit_resume_id reads from the left; the ids it meets, or Nothing for a word that
\* cannot be placed.
Scan(agent, line) ==
    LET n == Len(line)
        scan[i \in 1 .. n + 1] ==
            IF i > n THEN <<>>
            ELSE CASE ResumeWord(agent, line[i]) ->
                        IF i < n /\ line[i + 1] \in Ids /\ scan[i + 2] # Nothing
                        THEN <<line[i + 1]>> \o scan[i + 2] ELSE Nothing
                   [] line[i] \in JoinedWords ->
                        IF Stripped(line[i]) \in Ids /\ scan[i + 1] # Nothing
                        THEN <<Stripped(line[i])>> \o scan[i + 1] ELSE Nothing
                   [] TakesValue(line[i]) ->
                        IF i < n /\ line[i + 1] \notin Dashed THEN scan[i + 2] ELSE Nothing
                   [] Flag(line[i]) -> scan[i + 1]
                   [] OTHER -> Nothing
    IN scan[1]

\* One id, or the command is refused.
ExplicitResumeId(agent, line) ==
    LET ids == Scan(agent, line)
    IN IF ids # Nothing /\ Len(ids) = 1 THEN ids[1] ELSE Nothing

\* has_claude_option: the options before the first word that is none.
HasOption(line, options) ==
    LET n == Len(line)
        has[i \in 1 .. n + 2] ==
            /\ i <= n /\ line[i] \in Dashed \ {"--"}
            /\ line[i] \in options \/ has[IF TakesValue(line[i]) THEN i + 2 ELSE i + 1]
    IN has[1]

-----------------------------------------------------------------------------
(* Capture *)

\* resolve_claude_attach: the session an attach client shows; its listing is exact.
Attached(p) ==
    IF AgentOf(p.program) = "claude" /\ p.line # <<>> /\ p.line[1] = "attach"
       /\ Len(p.line) = 2 /\ p.line[2] \in Ids
    THEN p.line[2] ELSE Nothing

\* command_for: herdr's record of the session, if it has one, or else the arguments.
SessionOf(p) ==
    IF Attached(p) # Nothing THEN Attached(p)
    ELSE IF p.native = Nothing THEN ExplicitResumeId(AgentOf(p.program), p.line)
    ELSE IF p.native.agent = AgentOf(p.program) THEN p.native.id ELSE Nothing

Matched(p, config) == config.launcher = AgentOf(p.program) /\ p.profile = "work"

\* The executable: that of the configured launcher whose selectors match the environment,
\* and never an interpreter.
ExecutableOf(p, config) ==
    IF Matched(p, config) THEN "wrapper" ELSE IF p.program = "node" THEN "claude" ELSE p.program

\* configured_claude_profile: where a launch with this configuration would look; the
\* plugin itself runs with the default profile.
ProfileOf(executable, config) ==
    IF executable = "wrapper" /\ config.launcher = "claude" THEN "work" ELSE "home"

\* Of an agent that did not name what it resumes, the conversation may not have been
\* written yet; here says whether conversations are those of the pane's directory, which
\* is the only place looked at when nothing implies an older one.
Unwritten(p, transcripts, here) ==
    /\ AgentOf(p.program) = "claude" /\ (p.native # Nothing \/ Attached(p) # Nothing)
    /\ ~HasOption(p.line, {"--resume"} \union JoinedWords)
    /\ <<p.profile, SessionOf(p)>> \in transcripts =>
         ~here /\ Attached(p) = Nothing /\ ~HasOption(p.line, {"--continue"})

AgentSpec(p, config, transcripts, here) ==
    [kind |-> "agent", agent |-> AgentOf(p.program), executable |-> ExecutableOf(p, config),
     id |-> SessionOf(p),
     create |-> IF Unwritten(p, transcripts, here) THEN p.profile ELSE Nothing]

\* A program that herdr takes for an agent it knows must be one that can be parsed.
Savable(p, config, transcripts, here) ==
    IF AgentOf(p.program) = Nothing THEN ~p.detected
    ELSE /\ SessionOf(p) # Nothing
         /\ Unwritten(p, transcripts, here) => p.profile = ProfileOf(ExecutableOf(p, config), config)

-----------------------------------------------------------------------------
(* Launch: CommandSpec::allowed_argv *)

Allows(config, program) == program \in config.allowed

\* Mutant: a configured launcher may run as a plain program.
AnyProgram(spec, config) == Allows(config, spec.program)

\* A program: unless the configuration calls it the launcher of an agent.
AllowedProgram(spec, config) ==
    /\ Allows(config, spec.program)
    /\ ~(config.launcher # Nothing /\ spec.program = "wrapper")

\* An agent: the executable still belongs to it, and a new session only in the profile
\* that was captured.
AllowedAgent(spec, config) ==
    /\ Allows(config, spec.executable)
    /\ config.resume
    /\ AgentOf(spec.executable) = spec.agent
         \/ (spec.executable = "wrapper" /\ config.launcher = spec.agent)
    /\ spec.create # Nothing => ProfileOf(spec.executable, config) = spec.create

\* Mutant: what was new when it was saved is created.
VerbSaved(spec, transcripts) == IF spec.create # Nothing THEN "create" ELSE "resume"

\* Never created over a conversation that has become resumable.
Verb(spec, transcripts) ==
    IF spec.create # Nothing /\ <<spec.create, spec.id>> \notin transcripts
    THEN "create" ELSE "resume"

-----------------------------------------------------------------------------
PolicyTypeOK ==
    /\ stage \in {"parse", "run", "saved", "launched", "refused"}
    /\ stage = "run" => pane.program \in Programs
    /\ stage = "saved" /\ saved.kind = "agent" =>
         /\ saved.agent \in Agents /\ saved.id \in Ids
         /\ saved.executable \in Programs \ {"node", "tool"}
         /\ saved.create # Nothing => saved.agent = "claude"

Panes == [program : Programs, line : Lines, profile : Profiles,
          native : [agent : Agents, id : Ids] \union {Nothing}, detected : BOOLEAN]

PolicyInit ==
    /\ saved = Nothing /\ launched = Nothing /\ meant = Nothing
    /\ \/ /\ stage = "parse" /\ pane = Nothing
          /\ words \in UNION {[1 .. n -> Words] : n \in 0 .. MaxWords}
       \/ /\ stage = "run" /\ words = <<>>
          /\ pane \in Panes

Save ==
    /\ stage = "run"
    /\ \E config \in Configs, transcripts \in Transcripts, here \in BOOLEAN :
         /\ Savable(pane, config, transcripts, here)
         /\ saved' = IF AgentOf(pane.program) = Nothing
                     THEN [kind |-> "program", program |-> pane.program]
                     ELSE AgentSpec(pane, config, transcripts, here)
    /\ meant' = [session |-> SessionOf(pane), agent |-> AgentOf(pane.program),
                 profile |-> pane.profile]
    /\ stage' = "saved" /\ pane' = Nothing
    /\ UNCHANGED <<words, launched>>

\* Later, with another configuration and other conversations.
Launch ==
    /\ stage = "saved"
    /\ \E config \in Configs, transcripts \in Transcripts :
         launched' =
           IF saved.kind = "program"
           THEN [config |-> config, transcripts |-> {}, program |-> saved.program, verb |-> "run",
                 id |-> Nothing, ok |-> AllowedProgram(saved, config)]
           ELSE [config |-> config, transcripts |-> transcripts, program |-> saved.executable,
                 verb |-> Verb(saved, transcripts), id |-> saved.id,
                 ok |-> AllowedAgent(saved, config)]
    /\ stage' = IF launched'.ok THEN "launched" ELSE "refused"
    /\ UNCHANGED <<pane, words, saved, meant>>

PolicyNext == Save \/ Launch

PolicySpec == PolicyInit /\ [][PolicyNext]_policyVars

-----------------------------------------------------------------------------
(* Safety *)

\* A cut of a line into units: a resume word and its id, in two words or joined in one,
\* an option and its value, a flag.
Unit(agent, u) ==
    \/ Len(u) = 2 /\ ResumeWord(agent, u[1]) /\ u[2] \in Ids
    \/ Len(u) = 1 /\ \E id \in Ids : u[1] = Joined[id]
    \/ Len(u) = 2 /\ TakesValue(u[1]) /\ u[2] \notin Dashed
    \/ Len(u) = 1 /\ Flag(u[1])

Gives(u, id) == u[Len(u)] = IF Len(u) = 1 THEN Joined[id] ELSE id

Names(agent, line, id) ==
    \E cuts \in SUBSET (1 .. Len(line)) :
      LET end(c) == IF \E d \in cuts : d > c
                    THEN (CHOOSE d \in cuts : d > c /\ \A e \in cuts : e > c => d <= e) - 1
                    ELSE Len(line)
          unit(c) == SubSeq(line, c, end(c))
          resumes == {c \in cuts : ResumeWord(agent, line[c]) \/ line[c] \in JoinedWords}
      IN /\ 1 \in cuts
         /\ \A c \in cuts : Unit(agent, unit(c))
         /\ Cardinality(resumes) = 1 /\ \A c \in resumes : Gives(unit(c), id)

\* A session id is taken from arguments exactly when they can be cut into known options
\* with their values and one resume option with that id, in either of its forms: no
\* prompt, value or unknown option is taken for it, and no second id is overlooked
\* (capture.rs: explicit_resume_id).
ResumeIdExact ==
    stage = "parse" => \A agent \in Agents, id \in Ids :
        ExplicitResumeId(agent, words) = id <=> Names(agent, words, id)

\* What is launched for an agent is the session that was captured, with the agent it
\* belongs to under the configuration of that moment; it is created only in the profile
\* it was captured from and only while that has no conversation of this id, however the
\* configuration and the conversations changed since (allowed_argv, capture_once).
ReplaysTheSession ==
    stage = "launched" /\ meant.agent # Nothing =>
        /\ launched.id = meant.session
        /\ meant.agent = IF launched.program = "wrapper" THEN launched.config.launcher
                         ELSE AgentOf(launched.program)
        /\ launched.verb = "create" =>
             /\ ProfileOf(launched.program, launched.config) = meant.profile
             /\ <<meant.profile, meant.session>> \notin launched.transcripts

\* No agent is ever started without a session, also when a program that was saved as a
\* plain one has become the launcher of an agent since (allowed_argv).
AgentsHaveSessions ==
    /\ stage = "launched"
    /\ \/ AgentOf(launched.program) # Nothing
       \/ launched.program = "wrapper" /\ launched.config.launcher # Nothing
    => launched.id \in Ids
=============================================================================
