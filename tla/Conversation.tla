---------------------------- MODULE Conversation ----------------------------
(***************************************************************************)
(* The history of one session and what the brain is asked with it: the     *)
(* messages Pars.Run appends and trims (internal/agent/execution.go), the  *)
(* system prompt and the context window (helpers.go, session.go), alerts   *)
(* that arrive meanwhile, and the form in which each provider sends the    *)
(* history (internal/brain/providers).  The runs of Talkers use the one    *)
(* session, in turn or, after a retry or a follow-up, at the same time.    *)
(*                                                                         *)
(* A message is its kind, its place in the order of what was said and its  *)
(* size; the texts are left out.                                           *)
(***************************************************************************)
EXTENDS Integers, Sequences, SequencesExt

CONSTANTS
  Talkers,            \* bound: calls of Run on the session
  Events,             \* bound: events of the system bus
  MaxHistoryMessages, \* MaxHistoryMessages
  ContextLimit,       \* maxCharLimit
  HalfLimit,          \* config.LLMMaxContentLength * 2
  Sizes,              \* bound: len(msg.Content) of the messages
  MaxSaid             \* bound: messages appended to the history

ASSUME ConversationAssumption ==
  /\ MaxHistoryMessages \in Nat \ {0, 1}
  /\ ContextLimit \in Nat /\ HalfLimit \in Nat /\ MaxSaid \in Nat
  /\ Sizes \subseteq Nat

VARIABLES
  history, \* Session.History
  said,    \* number of messages appended so far
  talk,    \* the runs
  asked,   \* currentHistory of the last Chat, <<>> before it
  event,   \* handleSystemEvent, and the goroutine it leaves
  joined   \* a run joined the session of a run that had not left

talkVars == <<history, said, talk, asked, event, joined>>

Kinds == {"prompt", "info", "user", "text", "call", "result"}

Message(kind, n, size) == [kind |-> kind, n |-> n, size |-> size]
Prompt  == Message("prompt", 0, 1)
Info    == Message("info", 0, 0)

Role(m) == CASE m.kind \in {"prompt", "info"} -> "system"
             [] m.kind \in {"text", "call"}   -> "assistant"
             [] m.kind = "result"             -> "tool"
             [] OTHER                         -> "user"

IsSystem(m)    == Role(m) = "system"
StartsSystem(h) == h # <<>> /\ IsSystem(h[1])
TotalChars(h)  == FoldLeft(LAMBDA sum, m : sum + m.size, 0, h)
LastOf(h, k)   == SubSeq(h, Len(h) - k + 1, Len(h))

-----------------------------------------------------------------------------
(* What happens to a history                                               *)

\* Mutant: the first message is not spared.
TrimHistoryBlindly(h) ==
  IF Len(h) <= MaxHistoryMessages THEN h ELSE LastOf(h, MaxHistoryMessages)

TrimHistory(h) ==
  IF Len(h) <= MaxHistoryMessages THEN h
  ELSE IF StartsSystem(h) THEN <<h[1]>> \o LastOf(h, MaxHistoryMessages - 1)
  ELSE LastOf(h, MaxHistoryMessages)

\* refreshSystemPrompt: nothing is trimmed after it.
RefreshPrompt(h) ==
  IF StartsSystem(h) THEN [h EXCEPT ![1] = Prompt] ELSE <<Prompt>> \o h

\* manageContextWindow: the newest messages that fit beside the prompt, the
\* last one in any case; a note tells that older ones went.
ManageContext(h) ==
  LET rest == Tail(h)
      fits == {i \in 1..Len(rest) :
                 h[1].size + TotalChars(SubSeq(rest, i, Len(rest))) <= ContextLimit}
      from == IF fits = {} THEN Len(rest)
              ELSE CHOOSE i \in fits : \A j \in fits : i <= j
  IN  IF TotalChars(h) <= ContextLimit \/ ~StartsSystem(h) \/ rest = <<>> THEN h
      ELSE <<h[1]>> \o (IF from > 1 THEN <<Info>> ELSE <<>>)
                    \o SubSeq(rest, from, Len(rest))

-----------------------------------------------------------------------------
(* What the providers make of a history                                    *)

\* All of them: of a history that is too long the later half.
Halved(h) == IF TotalChars(h) > HalfLimit
             THEN SubSeq(h, (Len(h) \div 2) + 1, Len(h)) ELSE h

Turn(m) ==
  [role |-> IF Role(m) = "assistant" THEN "model" ELSE "user",
   call |-> m.kind = "call", response |-> m.kind = "result"]

\* Gemini's contents: neighbours of one role are one turn, ...
AddTurn(turns, m) ==
  LET t == Turn(m)
  IN  IF IsSystem(m) THEN turns
      ELSE IF turns # <<>> /\ Last(turns).role = t.role
      THEN [turns EXCEPT ![Len(turns)] =
              [role |-> t.role, call |-> @.call \/ t.call, response |-> @.response \/ t.response]]
      ELSE Append(turns, t)

RawTurns(h) ==
  LET turns[i \in 0..Len(h)] == IF i = 0 THEN <<>> ELSE AddTurn(turns[i - 1], h[i])
  IN  turns[Len(h)]

\* Mutant: a call is kept whatever follows it.
KeepTurnUnpaired(kept, raw, i) ==
  IF raw[i].response /\ (kept = <<>> \/ Last(kept).role # "model")
  THEN kept ELSE Append(kept, raw[i])

\* ... a response stays only after a turn of the model, a call only before a
\* turn with a response.
KeepTurn(kept, raw, i) ==
  IF \/ raw[i].response /\ (kept = <<>> \/ Last(kept).role # "model")
     \/ raw[i].call /\ ~(i < Len(raw) /\ raw[i + 1].response)
  THEN kept ELSE Append(kept, raw[i])

GeminiContents(h) ==
  LET raw == RawTurns(Halved(h))
      kept[i \in 0..Len(raw)] == IF i = 0 THEN <<>> ELSE KeepTurn(kept[i - 1], raw, i)
  IN  kept[Len(raw)]

\* Ollama gets the messages that are not the system's, at their places in the
\* history, and in front of the last one of the user a header: the places of the
\* system's messages.
Systems(h)   == {i \in 1..Len(h) : IsSystem(h[i])}
Users(h)     == {i \in 1..Len(h) : Role(h[i]) = "user"}
Headed(h, i) == i \in Users(h) /\ \A j \in Users(h) : j <= i

\* Mutant: without a user message there is no header.
OllamaMessagesBare(h) ==
  LET cut == Halved(h)
  IN  [i \in 1..Len(cut) \ Systems(cut) |->
         [n |-> cut[i].n, header |-> IF Headed(cut, i) THEN Systems(cut) ELSE {}]]

\* Without a message of the user one that only has the header is put in front.
OllamaMessages(h) ==
  LET cut  == Halved(h)
      bare == [i \in 1..Len(cut) \ Systems(cut) |->
                 [n |-> cut[i].n, header |-> IF Headed(cut, i) THEN Systems(cut) ELSE {}]]
  IN  IF Systems(cut) # {} /\ Users(cut) = {}
      THEN [i \in {0} \cup DOMAIN bare |->
              IF i = 0 THEN [n |-> 0, header |-> Systems(cut)] ELSE bare[i]]
      ELSE bare

\* OpenAI gets each message with its role, without tool_calls and without a
\* tool_call_id, ...
OpenAIMessages(h) ==
  LET cut == Halved(h) IN [i \in 1..Len(cut) |-> [role |-> Role(cut[i]), n |-> cut[i].n]]

\* ... Qwen with the calls, but without the id of a result's call.
QwenMessages(h) ==
  LET cut == Halved(h)
  IN  [i \in 1..Len(cut) |-> [role |-> Role(cut[i]), n |-> cut[i].n,
                              calls |-> cut[i].kind = "call"]]

-----------------------------------------------------------------------------
TalkInit ==
  /\ history = <<>> /\ said = 0 /\ asked = <<>> /\ joined = FALSE
  /\ talk = [t \in Talkers |-> [pc |-> "new", first |-> TRUE]]
  /\ event = [e \in Events |-> "new"]

Turning(t, pc) == talk' = [talk EXCEPT ![t].pc = pc]

\* The messages get the next places in the order of what was said.
Say(kinds, sizes) ==
  /\ said + Len(kinds) <= MaxSaid
  /\ said' = said + Len(kinds)
  /\ history' = TrimHistory(history \o [i \in 1..Len(kinds) |->
                                          Message(kinds[i], said + i, sizes[i])])

\* Run: the input joins the history of the session; a run that is still in
\* it is cancelled, and may take a step more before it sees that.
SayInput(t) ==
  /\ talk[t].pc = "new"
  /\ \E size \in Sizes : Say(<<"user">>, <<size>>)
  /\ joined' = (joined \/ \E o \in Talkers : talk[o].pc \notin {"new", "left"})
  /\ Turning(t, "planned")
  /\ UNCHANGED <<asked, event>>

\* refreshSystemPrompt, after generatePlan, which asks on its own.
PutPrompt(t) ==
  /\ talk[t].pc = "planned"
  /\ history' = RefreshPrompt(history)
  /\ Turning(t, "step")
  /\ UNCHANGED <<said, asked, event, joined>>

\* A cancelled context, an error of the brain or the last step ends the run.
Leave(t) ==
  /\ talk[t].pc \in {"step", "asking"}
  /\ Turning(t, "left")
  /\ UNCHANGED <<history, said, asked, event, joined>>

ShrinkContext(t) ==
  /\ talk[t].pc = "step"
  /\ history' = ManageContext(history)
  /\ Turning(t, "shrunk")
  /\ UNCHANGED <<said, asked, event, joined>>

\* The copy that Brain.Chat gets, the second time without tools included.
AskBrain(t) ==
  /\ talk[t].pc = "shrunk"
  /\ asked' = history
  /\ Turning(t, "asking")
  /\ UNCHANGED <<history, said, event, joined>>

\* The answer's own tool calls or those found in its text.
AnswerCalls(t) ==
  /\ talk[t].pc = "asking"
  /\ \E size \in Sizes : Say(<<"call">>, <<size>>)
  /\ Turning(t, "tools")
  /\ UNCHANGED <<asked, event, joined>>

\* A text ends the run, but for the first one of a run in task mode: that
\* is answered by an order, if it says anything.
AnswerText(t) ==
  /\ talk[t].pc = "asking"
  /\ \E size \in Sizes :
       /\ Say(<<"text">>, <<size>>)
       /\ \/ Turning(t, "left")
          \/ /\ talk[t].first
             /\ talk' = [talk EXCEPT ![t] = [first |-> FALSE,
                           pc |-> IF size = 0 THEN "step" ELSE "order"]]
  /\ UNCHANGED <<asked, event, joined>>

GiveOrder(t) ==
  /\ talk[t].pc = "order"
  /\ Say(<<"user">>, <<1>>)
  /\ Turning(t, "step")
  /\ UNCHANGED <<asked, event, joined>>

\* The results that were there when the tools had ended, timed out or been
\* cancelled; of what comes later nothing joins the history.
TakeResults(t) ==
  /\ talk[t].pc = "tools"
  /\ \/ \E sizes \in SeqOf(Sizes, 2) \ {<<>>} :
          Say([i \in 1..Len(sizes) |-> "result"], sizes)
     \/ UNCHANGED <<history, said>>
  /\ talk' = [talk EXCEPT ![t] = [first |-> FALSE, pc |-> "step"]]
  /\ UNCHANGED <<asked, event, joined>>

\* handleSystemEvent: the alert is appended and nothing trimmed; ...
TellEvent(e) ==
  /\ event[e] = "new"
  /\ \E t \in Talkers : talk[t].pc # "new"
  /\ said < MaxSaid
  /\ said' = said + 1
  /\ \E size \in Sizes : history' = Append(history, Message("user", said + 1, size))
  /\ event' = [event EXCEPT ![e] = "told"]
  /\ UNCHANGED <<talk, asked, joined>>

\* ... a goroutine looks at the context window.
EventShrinks(e) ==
  /\ event[e] = "told"
  /\ history' = ManageContext(history)
  /\ event' = [event EXCEPT ![e] = "done"]
  /\ UNCHANGED <<said, talk, asked, joined>>

TalkStep(t) ==
  \/ SayInput(t) \/ PutPrompt(t) \/ Leave(t) \/ ShrinkContext(t) \/ AskBrain(t)
  \/ AnswerCalls(t) \/ AnswerText(t) \/ GiveOrder(t) \/ TakeResults(t)

TalkNext ==
  \/ \E t \in Talkers : TalkStep(t)
  \/ \E e \in Events : TellEvent(e) \/ EventShrinks(e)

TalkSpec == TalkInit /\ [][TalkNext]_talkVars

-----------------------------------------------------------------------------
(* Properties                                                              *)

\* The type invariant of the session's history and of the runs on it.
TalkTypeOK ==
  /\ \A i \in 1..Len(history) :
       history[i].kind \in Kinds /\ history[i].n \in 0..said
  /\ said \in 0..MaxSaid /\ joined \in BOOLEAN
  /\ \A t \in Talkers : talk[t].pc \in {"new", "planned", "step", "shrunk",
                          "asking", "tools", "order", "left"}
  /\ \A e \in Events : event[e] \in {"new", "told", "done"}

\* Whatever trimHistory, manageContextWindow, refreshSystemPrompt, alerts and
\* runs on one session do to it, the history the brain is asked with starts
\* with the system prompt, has it once, and holds of what was said the newest
\* part without a gap, in order.
HistoryInOrder ==
  LET spoken == {i \in 1..Len(asked) : ~IsSystem(asked[i])}
  IN  asked # <<>> =>
        /\ asked[1] = Prompt
        /\ \A i \in 2..Len(asked) : asked[i].kind # "prompt"
        /\ spoken # {}
        /\ \A i, j \in spoken :
             i < j /\ (\A k \in i + 1 .. j - 1 : k \notin spoken) =>
               asked[j].n = asked[i].n + 1

\* What Gemini gets never breaks its rule for tools: a turn with a call is
\* followed by one with a response, and, as long as no run joined the session
\* of a run that was still in it, a response follows a turn with a call.
\* Trimming, the context window and alerts may part a call and its results.
ToolTurnsPaired ==
  LET turns == GeminiContents(asked)
  IN  \A i \in 1..Len(turns) :
        /\ turns[i].call => i < Len(turns) /\ turns[i + 1].response
        /\ turns[i].response /\ ~joined => i > 1 /\ turns[i - 1].call

\* Unless a provider halves the history, its system prompt reaches Ollama,
\* OpenAI and Qwen, and Ollama once, even when no user message is left.  Not
\* Gemini: there the note of manageContextWindow takes its place.
PromptReachesBrain ==
  asked # <<>> /\ Halved(asked) = asked =>
    LET sent   == OllamaMessages(asked)
        headed == {i \in DOMAIN sent : sent[i].header # {}}
    IN  /\ \E i \in headed :
             /\ headed = {i}
             /\ \E p \in sent[i].header :
                  asked[p] = Prompt /\ \A q \in sent[i].header : p <= q
        /\ OpenAIMessages(asked)[1] = [role |-> "system", n |-> 0]
        /\ QwenMessages(asked)[1].role = "system"
=============================================================================
