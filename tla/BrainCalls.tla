----------------------------- MODULE BrainCalls -----------------------------
(***************************************************************************)
(* One question of a run to the brain: whether it is a chat or a task      *)
(* (internal/agent/planner.go, execution.go), the request and the stream   *)
(* of the answer (internal/brain/providers), the second request after an   *)
(* error that looks like Ollama's 500, and the tool calls that are found   *)
(* in a text (internal/agent/helpers.go).                                  *)
(*                                                                         *)
(* A token is the number of its request and its place in that answer.      *)
(***************************************************************************)
EXTENDS Integers, Sequences

CONSTANTS
  Asking,      \* bound: questions at the same time
  Providers,   \* subset of AllProviders: the configured brains
  AnswerLimit, \* config.LLMMaxContentLength, in tokens
  MaxTokens,   \* bound: tokens of one answer
  MaxCallDeltas \* bound: chunks with tool calls in one answer

AllProviders == {"gemini", "ollama", "openai", "qwen"}

ASSUME BrainCallsAssumption ==
  /\ Providers \subseteq AllProviders
  /\ AnswerLimit \in Nat /\ MaxTokens \in Nat /\ MaxCallDeltas \in Nat

VARIABLES
  question, \* per run, the call of Brain.Chat and what has come of it
  shown     \* per run, the tokens that went into the stream_chan

brainVars == <<question, shown>>

NewQuestion ==
  [pc |-> "new", provider |-> "none", chat |-> FALSE, tools |-> FALSE,
   try |-> 0, read |-> 0, deltas |-> 0, content |-> <<>>, calls |-> 0,
   open |-> FALSE]

BrainInit ==
  /\ question = [q \in Asking |-> NewQuestion]
  /\ shown = [q \in Asking |-> <<>>]

AskStep(q, pc)  == question[q].pc = pc
AskMove(q, pc)  == question' = [question EXCEPT ![q].pc = pc]
Is(q, provider) == question[q].provider = provider

\* A request: nothing of an earlier answer is left but what was shown.
Send(q, provider, tools) ==
  question' = [question EXCEPT ![q] =
    [NewQuestion EXCEPT !.pc = "sent", !.provider = provider, !.tools = tools,
                        !.chat = question[q].chat, !.try = question[q].try + 1]]

-----------------------------------------------------------------------------
\* generatePlan and Run: no plan is a chat, which is offered no tools, an
\* error of the planner included; a task keyword in the input is a task.
Decide(q) ==
  /\ AskStep(q, "new")
  /\ \E noPlan, keyword \in BOOLEAN :
       question' = [question EXCEPT ![q].pc = "decided",
                                    ![q].chat = noPlan /\ ~keyword]
  /\ UNCHANGED shown

Ask(q) ==
  /\ AskStep(q, "decided")
  /\ \E p \in Providers : Send(q, p, ~question[q].chat)
  /\ UNCHANGED shown

\* No connection, a status that is not 200, an answer that cannot be read:
\* the text of the error may hold "500", "invalid character" or "parse JSON",
\* whatever the error is.
RequestFails(q) ==
  /\ question[q].pc \in {"sent", "reading"}
  /\ \E like500 \in BOOLEAN : AskMove(q, IF like500 THEN "failed500" ELSE "failed")
  /\ UNCHANGED shown

\* OpenAI's answer comes as a whole, and none of it is shown.
AnswersAtOnce(q) ==
  /\ AskStep(q, "sent") /\ Is(q, "openai")
  /\ \E n \in 0..MaxTokens, calls \in 0..MaxCallDeltas :
       question' = [question EXCEPT ![q].pc = "read", ![q].calls = calls,
                      ![q].content = [i \in 1..n |-> <<question[q].try, i>>]]
  /\ UNCHANGED shown

StartStream(q) ==
  /\ AskStep(q, "sent") /\ ~Is(q, "openai")
  /\ AskMove(q, "reading")
  /\ UNCHANGED shown

Token(q)   == <<question[q].try, question[q].read + 1>>
TooLong(q) == question[q].read + 1 > AnswerLimit

\* Mutant: the token is shown before its length is looked at.
ReadTooLongShowing(q) ==
  /\ AskStep(q, "reading") /\ question[q].read < MaxTokens /\ TooLong(q)
  /\ question' = [question EXCEPT ![q].read = @ + 1,
                    ![q].pc = IF Is(q, "gemini") THEN @ ELSE "read"]
  /\ shown' = [shown EXCEPT ![q] = Append(@, Token(q))]

\* Past the limit Ollama's and Qwen's readers stop, Gemini's drops the text
\* and reads on.
ReadTooLong(q) ==
  /\ AskStep(q, "reading") /\ question[q].read < MaxTokens /\ TooLong(q)
  /\ question' = [question EXCEPT ![q].read = @ + 1,
                    ![q].pc = IF Is(q, "gemini") THEN @ ELSE "read"]
  /\ UNCHANGED shown

\* A token joins the content; it is shown unless there is no stream or its
\* channel is full.
ReadToken(q) ==
  /\ AskStep(q, "reading") /\ question[q].read < MaxTokens /\ ~TooLong(q)
  /\ question' = [question EXCEPT ![q].read = @ + 1,
                                  ![q].content = Append(@, Token(q))]
  /\ \/ shown' = [shown EXCEPT ![q] = Append(@, Token(q))]
     \/ UNCHANGED shown

\* Gemini and Ollama: every call of the chunk.  Qwen: the first delta only;
\* one with a name closes the call that was open, one without goes on with it.
ReadCalls(q) ==
  /\ AskStep(q, "reading") /\ question[q].deltas < MaxCallDeltas
  /\ \/ /\ ~Is(q, "qwen")
        /\ \E n \in 1..2 :
             question' = [question EXCEPT ![q].deltas = @ + 1, ![q].calls = @ + n]
     \/ /\ Is(q, "qwen")
        /\ \E named \in BOOLEAN :
             question' = [question EXCEPT ![q].deltas = @ + 1,
               ![q].open = @ \/ named,
               ![q].calls = IF named /\ question[q].open THEN @ + 1 ELSE @]
  /\ UNCHANGED shown

\* The stream ends, with or without its mark.
StreamEnds(q) ==
  /\ AskStep(q, "reading")
  /\ AskMove(q, "read")
  /\ UNCHANGED shown

\* A context that is done between two lines.
StreamCancelled(q) ==
  /\ AskStep(q, "reading")
  /\ AskMove(q, "failed")
  /\ UNCHANGED shown

\* Qwen's open call is closed; an empty answer becomes a notice.
FinishAnswer(q) ==
  /\ AskStep(q, "read")
  /\ LET calls == question[q].calls + (IF question[q].open THEN 1 ELSE 0)
     IN  question' = [question EXCEPT ![q].pc = "answered",
           ![q].open = FALSE, ![q].calls = calls,
           ![q].content = IF @ = <<>> /\ calls = 0
                          THEN <<<<question[q].try, 0>>>> ELSE @]
  /\ UNCHANGED shown

\* Mutant: every error of the kind is followed by another request.
AskWithoutToolsAgain(q) ==
  /\ AskStep(q, "failed500")
  /\ Send(q, question[q].provider, FALSE)
  /\ UNCHANGED shown

\* Run asks again without tools; a second error of the kind is one.
AskWithoutTools(q) ==
  /\ AskStep(q, "failed500")
  /\ IF question[q].try = 1 THEN Send(q, question[q].provider, FALSE)
     ELSE AskMove(q, "failed")
  /\ UNCHANGED shown

\* checkAndParseToolFallback: the first JSON object of the text, if it names a
\* tool that is registered.
FallbackCalls == 0..1

\* extractToolCallsFromText: any number of calls, whatever they name.
TextCalls == 0..2

\* In a task, a text without calls is searched, in the second way if the first
\* finds none.
FindCalls(q) ==
  LET search == /\ ~question[q].chat /\ question[q].calls = 0
                /\ question[q].content # <<>>
  IN  /\ AskStep(q, "answered")
      /\ \E fallback \in FallbackCalls, text \in TextCalls :
           question' = [question EXCEPT ![q].pc = "taken",
             ![q].calls = IF ~search THEN @ ELSE IF fallback > 0 THEN fallback ELSE text]
      /\ UNCHANGED shown

BrainStep(q) ==
  \/ Decide(q) \/ Ask(q) \/ RequestFails(q) \/ AnswersAtOnce(q) \/ StartStream(q)
  \/ ReadTooLong(q) \/ ReadToken(q) \/ ReadCalls(q) \/ StreamEnds(q)
  \/ StreamCancelled(q) \/ FinishAnswer(q) \/ AskWithoutTools(q) \/ FindCalls(q)

BrainNext == \E q \in Asking : BrainStep(q)

BrainSpec == BrainInit /\ [][BrainNext]_brainVars

-----------------------------------------------------------------------------
\* The type invariant of the questions.
BrainTypeOK ==
  \A q \in Asking :
    /\ question[q].pc \in {"new", "decided", "sent", "reading", "read",
                           "answered", "taken", "failed500", "failed"}
    /\ question[q].provider \in Providers \cup {"none"}
    /\ question[q].try \in 0..2 /\ question[q].calls \in Nat
    /\ Len(shown[q]) <= 2 * MaxTokens

\* What a client has seen is never more than what the run keeps: a token of
\* the request that was answered stands in the content of the answer.  Those
\* of a first request that failed after some tokens stay on the client's
\* screen; only then does it show what the history does not hold.
ShownIsKept ==
  \A q \in Asking : AskStep(q, "taken") =>
    \A i \in 1..Len(shown[q]) :
      \/ \E j \in 1..Len(question[q].content) : shown[q][i] = question[q].content[j]
      \/ shown[q][i][1] < question[q].try
=============================================================================
