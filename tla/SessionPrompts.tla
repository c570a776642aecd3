--------------------------- MODULE SessionPrompts ---------------------------
(***************************************************************************)
(* The prompt templates of one session and the debug:prompt events that    *)
(* read them.  handleConnection copies config/prompts to the directory of  *)
(* the session; PromptTemplateService reads the copies into a cache that   *)
(* never expires; an edit, a refresh and a deletion of the session change  *)
(* what is under them.  handleDebugPrompt of ChatGateway builds the system *)
(* prompt twice (once to show it, once in streamGenerate of the adapter),  *)
(* lets the model answer in rounds of tool calls, and keeps the            *)
(* conversation of the session in memory.                                  *)
(*                                                                         *)
(* Two templates stand for all: "shared" (tools, constraints, members) may *)
(* be missing, "agent" (system, capabilities) must be there.  copyFile     *)
(* empties its target before it writes: a file read meanwhile is Torn.     *)
(***************************************************************************)
EXTENDS Integers, Sequences

CONSTANTS
    Connections,  \* handleConnection calls of the session
    Prompts,      \* debug:prompt events of the session
    Absent, Torn, None,
    MaxEdits,     \* bound: edits of config/prompts
    MaxRefreshes, \* bound: times the cache is cleared
    MaxDeletions  \* bound: deletions of the session

ASSUME PromptsAssumption ==
    /\ {MaxEdits, MaxRefreshes, MaxDeletions} \subseteq Nat
    /\ None \notin Prompts
    /\ Absent # Torn /\ {Absent, Torn} \intersect (0 .. MaxEdits) = {}

Templates == {"shared", "agent"}

VARIABLES
    version,   \* of config/prompts, counted in edits
    folder,    \* the folders of templates that the session's directory has
    copied,    \* of a template: the file in the session's directory
    cached,    \* PromptTemplateService.cache
    visit,     \* where a handleConnection stands, and at which template
    turn,      \* where a handleDebugPrompt stands
    reading,   \* reading[p][t]: where its readTemplate stands
    got,       \* got[p][t]: what its readFile has read
    kept,      \* debugConversationHistory.get: whose array it is, or None
    mine,      \* the array that a prompt works on
    arrays,    \* arrays of messages, by the prompt that made them
    refreshes, deletions,
    fresh,     \* history: connections whose copies no deletion came across
    ready,     \* history: one of them is established, no deletion since
    safe,      \* history: builds of prompts that began when it was ready
    since,     \* history: what a copy has been since the cache was cleared
    raced,     \* history: a read met a copy or a refresh
    doubled    \* history: two prompts each made a first array

files == <<version, folder, copied, visit>>
debug == <<turn, reading, got, kept, mine, arrays>>
marks == <<fresh, ready, safe, since, raced, doubled>>
promptVars == <<files, cached, debug, refreshes, deletions, marks>>

PromptsInit ==
    /\ version = 0 /\ folder = {}
    /\ copied = [t \in Templates |-> Absent]
    /\ cached = [t \in Templates |-> Absent]
    /\ visit = [c \in Connections |-> [step |-> "none", at |-> "shared"]]
    /\ turn = [p \in Prompts |-> "none"]
    /\ reading = [p \in Prompts |-> [t \in Templates |-> "none"]]
    /\ got = [p \in Prompts |-> [t \in Templates |-> Absent]]
    /\ kept = None /\ mine = [p \in Prompts |-> None]
    /\ arrays = [p \in Prompts |-> <<>>]
    /\ refreshes = 0 /\ deletions = 0
    /\ fresh = {} /\ ready = FALSE /\ safe = {}
    /\ since = [t \in Templates |-> {Absent}]
    /\ raced = FALSE /\ doubled = FALSE
-----------------------------------------------------------------------------
At(c, step, t) == visit[c] = [step |-> step, at |-> t]
Go(c, step, t) == visit' = [visit EXCEPT ![c] = [step |-> step, at |-> t]]

\* The file of t changes.
Put(t, content) ==
    /\ copied' = [copied EXCEPT ![t] = content]
    /\ since' = [since EXCEPT ![t] = @ \union {content}]

\* Mutant: the copies are not awaited.
EnterAtOnce(c) ==
    /\ At(c, "none", "shared")
    /\ Go(c, "mkdir", "shared")
    /\ fresh' = fresh \union {c} /\ ready' = TRUE
    /\ UNCHANGED <<version, folder, copied, cached, debug, refreshes, deletions, safe, since, raced, doubled>>

\* handleConnection, up to initializeSessionPrompts.
EnterSession(c) ==
    /\ At(c, "none", "shared")
    /\ Go(c, "mkdir", "shared")
    /\ fresh' = fresh \union {c}
    /\ UNCHANGED <<version, folder, copied, cached, debug, refreshes, deletions,
                   ready, safe, since, raced, doubled>>

\* copyDirectory: mkdir, then copyFile, which opens and empties the target
\* - if the folder is still there - and writes it.
MakeFolder(c, t) ==
    /\ At(c, "mkdir", t)
    /\ folder' = folder \union {t}
    /\ Go(c, "open", t)
    /\ UNCHANGED <<version, copied, cached, debug, refreshes, deletions, marks>>

OpenCopy(c, t) ==
    /\ At(c, "open", t)
    /\ IF t \in folder
       THEN Put(t, Torn) /\ Go(c, "write", t)
       ELSE UNCHANGED <<copied, since>> /\ Go(c, "failed", t)
    /\ UNCHANGED <<version, folder, cached, debug, refreshes, deletions,
                   fresh, ready, safe, raced, doubled>>

\* What is written after a deletion is in no directory.  After the last
\* template connection:established is sent.
WriteCopy(c, t) ==
    /\ At(c, "write", t)
    /\ IF copied[t] = Absent THEN UNCHANGED <<copied, since>> ELSE Put(t, version)
    /\ IF t = "shared"
       THEN Go(c, "mkdir", "agent") /\ UNCHANGED ready
       ELSE Go(c, "established", t) /\ ready' = (ready \/ c \in fresh)
    /\ UNCHANGED <<version, folder, cached, debug, refreshes, deletions,
                   fresh, safe, raced, doubled>>
-----------------------------------------------------------------------------
\* config/prompts is edited; the copies of sessions stay as they are.
Edit ==
    /\ version < MaxEdits
    /\ version' = version + 1
    /\ UNCHANGED <<folder, copied, cached, visit, debug, refreshes, deletions, marks>>

InFlight(p, t) == reading[p][t] \in {"asked", "read"}

\* What clearing does for the histories.
Cleared ==
    /\ refreshes < MaxRefreshes
    /\ refreshes' = refreshes + 1
    /\ since' = [t \in Templates |-> {copied[t]}]
    /\ raced' = (raced \/ \E p \in Prompts, t \in Templates : InFlight(p, t))
    /\ UNCHANGED <<files, debug, deletions, fresh, ready, safe, doubled>>

\* Mutant: a key of the session is missed.
RefreshAgentOnly ==
    /\ Cleared
    /\ cached' = [cached EXCEPT !["agent"] = Absent]

\* clearSessionCache by the controller, clearAllCache by it or the watcher.
Refresh ==
    /\ Cleared
    /\ cached' = [t \in Templates |-> Absent]

\* deleteSessionDirectory; neither the cache nor the conversation is told.
DeleteDirectory ==
    /\ deletions < MaxDeletions
    /\ deletions' = deletions + 1
    /\ folder' = {}
    /\ copied' = [t \in Templates |-> Absent]
    /\ since' = [t \in Templates |-> since[t] \union {Absent}]
    /\ fresh' = {} /\ ready' = FALSE /\ safe' = {}
    /\ UNCHANGED <<version, visit, cached, debug, refreshes, raced, doubled>>
-----------------------------------------------------------------------------
\* buildPrompt starts a readTemplate for each template at once: what is in
\* the cache is there, the other files are asked for.
StartBuild(p) ==
    /\ reading' = [reading EXCEPT ![p] =
          [t \in Templates |-> IF cached[t] # Absent THEN "done" ELSE "asked"]]
    /\ safe' = IF ready THEN safe \union {p} ELSE safe \ {p}

Turns(p, label) == turn' = [turn EXCEPT ![p] = label]
Answering(p) == turn[p] \in {"show", "build", "model", "tools"}

\* handleDebugPrompt, up to ensureSessionRow.
ReceivePrompt(p) ==
    /\ turn[p] = "none"
    /\ Turns(p, "row")
    /\ UNCHANGED <<files, cached, got, reading, kept, mine, arrays,
                   refreshes, deletions, marks>>

\* Mutant: the kept array is copied, not shared.
TakeArrayCopy(p) ==
    /\ mine' = [mine EXCEPT ![p] = p]
    /\ arrays' = [arrays EXCEPT ![p] =
          Append(IF kept = None THEN <<>> ELSE arrays[kept], <<p, "user">>)]

\* The array of the session, or a new one that nobody else knows of yet, gets
\* the message.
TakeArray(p) ==
    LET a == IF kept = None THEN p ELSE kept
    IN /\ mine' = [mine EXCEPT ![p] = a]
       /\ arrays' = [arrays EXCEPT ![a] = Append(@, <<p, "user">>)]

\* The session's row is there: the message joins the conversation, and the
\* prompt that is to be shown is built.
BeginPrompt(p) ==
    /\ turn[p] = "row"
    /\ Turns(p, "show")
    /\ TakeArray(p)
    /\ doubled' = (doubled \/ (kept = None /\ \E q \in Prompts : Answering(q)))
    /\ StartBuild(p)
    /\ UNCHANGED <<files, cached, got, kept, refreshes, deletions,
                   fresh, ready, since, raced>>

\* readFile reads.
ReadFile(p, t) ==
    /\ reading[p][t] = "asked"
    /\ reading' = [reading EXCEPT ![p][t] = "read"]
    /\ got' = [got EXCEPT ![p][t] = copied[t]]
    /\ raced' = (raced \/ copied[t] = Torn)
    /\ UNCHANGED <<files, cached, turn, kept, mine, arrays, refreshes,
                   deletions, fresh, ready, safe, since, doubled>>

\* readTemplate goes on: the content goes to the cache.  No file: a template
\* that may be missing is left out.
StoreTemplate(p, t) ==
    /\ reading[p][t] = "read"
    /\ cached' = IF got[p][t] = Absent THEN cached ELSE [cached EXCEPT ![t] = got[p][t]]
    /\ reading' = [reading EXCEPT ![p][t] =
          IF got[p][t] = Absent /\ t = "agent" THEN "missing" ELSE "done"]
    /\ got' = [got EXCEPT ![p][t] = Absent]
    /\ UNCHANGED <<files, turn, kept, mine, arrays, refreshes, deletions, marks>>

Built(p) == \A t \in Templates : reading[p][t] = "done"

\* The system prompt is shown, "thinking" sent, and streamGenerate entered.
ShowPrompt(p) ==
    /\ turn[p] = "show" /\ Built(p)
    /\ Turns(p, "build")
    /\ StartBuild(p)
    /\ UNCHANGED <<files, cached, got, kept, mine, arrays, refreshes, deletions,
                   fresh, ready, since, raced, doubled>>

\* A template is missing.  The first build is outside of the try block: its
\* exception leaves the handler; in the second it becomes agent:error.
BuildFails(p) ==
    /\ turn[p] \in {"show", "build"} /\ reading[p]["agent"] = "missing"
    /\ Turns(p, IF turn[p] = "show" THEN "exception" ELSE "error")
    /\ UNCHANGED <<files, cached, got, reading, kept, mine, arrays, refreshes,
                   deletions, marks>>

AskModel(p) ==
    /\ turn[p] = "build" /\ Built(p)
    /\ Turns(p, "model")
    /\ UNCHANGED <<files, cached, got, reading, kept, mine, arrays, refreshes,
                   deletions, marks>>

\* The model asks for tools; once they have been executed, one after the
\* other, it is asked again.
AsksForTools(p) ==
    /\ turn[p] = "model"
    /\ Turns(p, "tools")
    /\ UNCHANGED <<files, cached, got, reading, kept, mine, arrays, refreshes,
                   deletions, marks>>

ToolsDone(p) ==
    /\ turn[p] = "tools"
    /\ Turns(p, "model")
    /\ UNCHANGED <<files, cached, got, reading, kept, mine, arrays, refreshes,
                   deletions, marks>>

\* An answer without tool calls: the stream ends, the conversation is kept.
FinishPrompt(p) ==
    /\ turn[p] = "model"
    /\ Turns(p, "answered")
    /\ arrays' = [arrays EXCEPT ![mine[p]] = Append(@, <<p, "assistant">>)]
    /\ kept' = mine[p]
    /\ UNCHANGED <<files, cached, got, reading, mine, refreshes, deletions, marks>>

\* The model fails: agent:error.  The message stays in its array.
FailPrompt(p) ==
    /\ turn[p] = "model"
    /\ Turns(p, "error")
    /\ UNCHANGED <<files, cached, got, reading, kept, mine, arrays, refreshes,
                   deletions, marks>>

PromptsNext ==
    \/ \E c \in Connections :
          \/ EnterSession(c)
          \/ \E t \in Templates : MakeFolder(c, t) \/ OpenCopy(c, t) \/ WriteCopy(c, t)
    \/ Edit \/ Refresh \/ DeleteDirectory
    \/ \E p \in Prompts :
          \/ ReceivePrompt(p) \/ BeginPrompt(p) \/ ShowPrompt(p) \/ BuildFails(p)
          \/ AskModel(p) \/ AsksForTools(p) \/ ToolsDone(p) \/ FinishPrompt(p) \/ FailPrompt(p)
          \/ \E t \in Templates : ReadFile(p, t) \/ StoreTemplate(p, t)

PromptsSpec == PromptsInit /\ [][PromptsNext]_promptVars
-----------------------------------------------------------------------------
\* What a file or an entry of the cache may be.
Contents == (0 .. MaxEdits) \union {Absent, Torn}

PromptsTypeOK ==
    /\ version \in 0 .. MaxEdits /\ folder \subseteq Templates
    /\ visit \in [Connections ->
          [step : {"none", "mkdir", "open", "write", "established", "failed"}, at : Templates]]
    /\ copied \in [Templates -> Contents] /\ cached \in [Templates -> Contents]
    /\ got \in [Prompts -> [Templates -> Contents]]
    /\ reading \in [Prompts ->
          [Templates -> {"none", "asked", "read", "done", "missing"}]]
    /\ turn \in [Prompts ->
          {"none", "row", "show", "build", "model", "tools", "answered", "error", "exception"}]
    /\ kept \in Prompts \union {None} /\ mine \in [Prompts -> Prompts \union {None}]
    /\ arrays \in [Prompts -> Seq(Prompts \X {"user", "assistant"})]
    /\ refreshes \in 0 .. MaxRefreshes /\ deletions \in 0 .. MaxDeletions
    /\ fresh \subseteq Connections /\ safe \subseteq Prompts
    /\ {ready, raced, doubled} \subseteq BOOLEAN
    /\ since \in [Templates -> SUBSET Contents]

\* connection:established means what it says: from then on, until the session
\* is deleted, every prompt finds its templates, with other connections
\* copying them anew, edits and refreshes under way.
EstablishedIsReady ==
    \A p \in Prompts : reading[p]["agent"] = "missing" => p \notin safe

\* Unless a read met a copy or a refresh, what is cached is a whole template
\* that the session's directory has had since the cache was last cleared.
CacheIsCurrent ==
    raced \/ \A t \in Templates : cached[t] \in (since[t] \ {Torn}) \union {Absent}

Before(a, m, n) ==
    \E i, j \in 1 .. Len(a) : i < j /\ a[i] = m /\ a[j] = n

\* Unless two prompts were both the first of the session, every prompt that
\* was answered is in the kept conversation, its message before its answer,
\* whatever prompts were answered at the same time or failed.
ConversationIsKept ==
    doubled \/ \A p \in Prompts :
        turn[p] = "answered" =>
            kept # None /\ Before(arrays[kept], <<p, "user">>, <<p, "assistant">>)
=============================================================================
