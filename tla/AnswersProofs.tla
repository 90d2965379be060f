--------------------------- MODULE AnswersProofs ---------------------------
(***************************************************************************)
(* Proofs about what a run works with and answers through, for any number  *)
(* of runs, projects and attempts: the question to the brain and the       *)
(* tokens a client sees of its answer, the index of projects, and the hook *)
(* of the live log.                                                        *)
(***************************************************************************)
EXTENDS BrainCalls, CodeArchive, WhatsApp, FiniteSetTheorems, TLAPS

-----------------------------------------------------------------------------
(* The question to the brain                                               *)

AskPcs == {"new", "decided", "sent", "reading", "read", "answered", "taken",
           "failed500", "failed"}

Tokens == Nat \X Nat

Question ==
  [pc : AskPcs, provider : Providers \cup {"none"}, chat : BOOLEAN, tools : BOOLEAN,
   try : 0..2, read : 0..MaxTokens, deltas : Nat, content : Seq(Tokens),
   calls : Nat, open : BOOLEAN]

\* The tokens a client can have seen: those of the request that is read, and as
\* many as there can be of the one before.
SeenOf(r) == IF r.try = 0 THEN 0 ELSE IF r.try = 1 THEN r.read ELSE MaxTokens + r.read

\* The first request comes after the decision, a second one after the first.
\* What is shown is of a request that was made; of the one whose answer is being
\* read it stands in the content, and of one just sent nothing is shown.
AnswerRight(r, tokens) ==
  /\ r.pc \in {"new", "decided"} <=> r.try = 0
  /\ Len(tokens) <= SeenOf(r)
  /\ \A i \in 1..Len(tokens) :
       /\ tokens[i][1] <= r.try
       /\ tokens[i][1] = r.try => \E j \in 1..Len(r.content) : tokens[i] = r.content[j]
       /\ r.pc = "sent" => tokens[i][1] < r.try

BrainIInv ==
  /\ question \in [Asking -> Question] /\ shown \in [Asking -> Seq(Tokens)]
  /\ \A q \in Asking : AnswerRight(question[q], shown[q])

\* A question that has not been asked is one of the kind.
LEMMA NewQuestionTyped == NewQuestion \in Question /\ AnswerRight(NewQuestion, <<>>)
BY BrainCallsAssumption DEF NewQuestion, Question, AskPcs, AnswerRight, SeenOf

\* A token is of the request whose number it starts with.
LEMMA TokenParts == \A t \in Tokens : t[1] \in Nat
BY DEF Tokens

\* What can have been seen is a number.
LEMMA SeenOfTyped == \A r \in Question : SeenOf(r) \in Nat
<1> SUFFICES ASSUME NEW r \in Question
             PROVE  SeenOf(r) \in Nat
  OBVIOUS
<1>1. r.read \in Nat
  BY BrainCallsAssumption DEF Question
<1> QED
  BY <1>1, BrainCallsAssumption DEF SeenOf

\* At the start nothing has been asked or shown.
LEMMA BrainInitial == BrainInit => BrainIInv
BY NewQuestionTyped DEF BrainInit, BrainIInv

\* A step of one run leaves the questions of the others alone.
LEMMA OneQuestion ==
  ASSUME BrainIInv, NEW q \in Asking, NEW r \in Question, NEW s \in Seq(Tokens),
         question' = [question EXCEPT ![q] = r],
         shown' = [shown EXCEPT ![q] = s] \/ (shown' = shown /\ s = shown[q]),
         AnswerRight(r, s)
  PROVE  BrainIInv'
<1>1. /\ question' \in [Asking -> Question] /\ question'[q] = r
      /\ \A p \in Asking : p # q => question'[p] = question[p]
  BY DEF BrainIInv
<1>2. /\ shown' \in [Asking -> Seq(Tokens)] /\ shown'[q] = s
      /\ \A p \in Asking : p # q => shown'[p] = shown[p]
  BY DEF BrainIInv
<1>3. \A p \in Asking : AnswerRight(question'[p], shown'[p])
  BY <1>1, <1>2 DEF BrainIInv
<1> QED
  BY <1>1, <1>2, <1>3 DEF BrainIInv

\* Only where the run is changes, to a place a request can be in.
LEMMA QuestionMoves ==
  ASSUME BrainIInv, NEW q \in Asking, NEW pc \in AskPcs \ {"new", "decided", "sent"},
         question[q].pc \notin {"new", "decided"}, AskMove(q, pc), shown' = shown
  PROVE  BrainIInv'
<1> DEFINE r == [question[q] EXCEPT !.pc = pc]
<1>1. question[q] \in Question /\ shown[q] \in Seq(Tokens) /\ AnswerRight(question[q], shown[q])
  BY DEF BrainIInv
<1>2. r \in Question /\ r.pc = pc /\ r.try = question[q].try /\ r.read = question[q].read
      /\ r.content = question[q].content
  BY <1>1 DEF Question
<1>3. question' = [question EXCEPT ![q] = r]
  BY DEF AskMove
<1> HIDE DEF r
<1>4. SeenOf(r) = SeenOf(question[q])
  BY <1>2 DEF SeenOf
<1>5. AnswerRight(r, shown[q])
  BY <1>1, <1>2, <1>4 DEF AnswerRight
<1> QED
  BY <1>1, <1>2, <1>3, <1>5, OneQuestion

\* A request takes nothing over, and what is on the screen is of earlier ones.
LEMMA RequestSent ==
  ASSUME BrainIInv, NEW q \in Asking, NEW p \in Providers \cup {"none"},
         NEW tools \in BOOLEAN, question[q].try \in {0, 1}, Send(q, p, tools),
         shown' = shown
  PROVE  BrainIInv'
<1> DEFINE chat == question[q].chat
           n    == question[q].try + 1
           r    == [NewQuestion EXCEPT !.pc = "sent", !.provider = p, !.tools = tools,
                      !.chat = chat, !.try = n]
<1>1. question[q] \in Question /\ shown[q] \in Seq(Tokens) /\ AnswerRight(question[q], shown[q])
  BY DEF BrainIInv
<1>2. r \in Question /\ r.pc = "sent" /\ r.try = question[q].try + 1 /\ r.read = 0
      /\ r.try \in 1..2
  <2>1. chat \in BOOLEAN /\ n \in 0..2
    BY <1>1 DEF Question
  <2>2. NewQuestion \in Question /\ NewQuestion.read = 0
    BY NewQuestionTyped DEF NewQuestion
  <2> HIDE DEF n, chat
  <2>3. r.pc = "sent" /\ r.try = n /\ r.read = 0
    BY <2>2 DEF Question
  <2>4. r \in Question
    BY <2>1, <2>2 DEF Question, AskPcs
  <2> QED
    BY <2>3, <2>4 DEF n
<1>3. question' = [question EXCEPT ![q] = r]
  BY DEF Send
<1> HIDE DEF r, n, chat
<1>4. SeenOf(question[q]) <= SeenOf(r)
  BY <1>1, <1>2, BrainCallsAssumption DEF SeenOf, Question
<1>5. Len(shown[q]) <= SeenOf(r)
  <2>1. Len(shown[q]) \in Nat /\ SeenOf(question[q]) \in Nat /\ SeenOf(r) \in Nat
    BY <1>1, <1>2, SeenOfTyped
  <2> QED
    BY <1>1, <1>4, <2>1 DEF AnswerRight
<1>6. ASSUME NEW i \in 1..Len(shown[q])
      PROVE  shown[q][i][1] < r.try
  <2>1. shown[q][i] \in Tokens
    BY <1>1
  <2>2. shown[q][i][1] \in Nat /\ question[q].try \in Nat
    BY <1>1, <2>1, TokenParts DEF Question
  <2>3. shown[q][i][1] <= question[q].try
    BY <1>1 DEF AnswerRight
  <2> QED
    BY <1>2, <2>2, <2>3
<1>7. AnswerRight(r, shown[q])
  <2>1. r.try # 0
    BY <1>1, <1>2 DEF Question
  <2>2. \A i \in 1..Len(shown[q]) : shown[q][i][1] \in Nat /\ r.try \in Nat
    BY <1>1, <1>2, TokenParts DEF Question
  <2>3. \A i \in 1..Len(shown[q]) : shown[q][i][1] <= r.try /\ shown[q][i][1] # r.try
    BY <1>6, <2>2
  <2> QED
    BY <1>2, <1>5, <1>6, <2>1, <2>3 DEF AnswerRight
<1> QED
  BY <1>1, <1>2, <1>3, <1>7, OneQuestion

\* A token that was read joins the content, and with it the screen or not.
LEMMA TokenRead ==
  ASSUME BrainIInv, NEW q \in Asking, ReadToken(q)
  PROVE  BrainIInv'
<1> DEFINE Q == question[q]
           t == Token(q)
           r == [Q EXCEPT !.read = @ + 1, !.content = Append(@, t)]
           s == IF shown' = shown THEN shown[q] ELSE Append(shown[q], t)
<1>1. Q \in Question /\ shown[q] \in Seq(Tokens) /\ AnswerRight(Q, shown[q])
  BY DEF BrainIInv
<1>2. Q.pc = "reading" /\ Q.read \in Nat /\ Q.read < MaxTokens /\ Q.try \in 1..2
  BY <1>1 DEF ReadToken, AskStep, Question, AnswerRight
<1>3. t \in Tokens /\ t[1] = Q.try
  BY <1>1, <1>2 DEF Token, Tokens
<1>4. r.read = Q.read + 1 /\ r.content = Append(Q.content, t) /\ r.try = Q.try
      /\ r.pc = "reading" /\ r \in Question
  <2> HIDE DEF t
  <2>1. Q.read + 1 \in 0..MaxTokens /\ Append(Q.content, t) \in Seq(Tokens)
    BY <1>1, <1>2, <1>3, BrainCallsAssumption DEF Question
  <2> QED
    BY <1>1, <1>2, <2>1 DEF Question
<1>5. /\ question' = [question EXCEPT ![q] = r]
      /\ shown' = [shown EXCEPT ![q] = s] \/ (shown' = shown /\ s = shown[q])
  BY DEF ReadToken
<1>6. s \in {shown[q], Append(shown[q], t)}
  OBVIOUS
<1> HIDE DEF r, s, t, Q
<1>7. s \in Seq(Tokens) /\ Len(s) <= Len(shown[q]) + 1
  <2>1. Append(shown[q], t) \in Seq(Tokens) /\ Len(Append(shown[q], t)) = Len(shown[q]) + 1
        /\ Len(shown[q]) \in Nat
    BY <1>1, <1>3
  <2>2. CASE s = shown[q]
    BY <1>1, <2>1, <2>2
  <2>3. CASE s = Append(shown[q], t)
    BY <2>1, <2>3
  <2> QED
    BY <1>6, <2>2, <2>3
<1>8. Len(s) <= SeenOf(r)
  BY <1>1, <1>2, <1>4, <1>7, BrainCallsAssumption DEF SeenOf, AnswerRight
<1>9. ASSUME NEW i \in 1..Len(s)
      PROVE  s[i][1] <= r.try /\ (s[i][1] = r.try => \E j \in 1..Len(r.content) : s[i] = r.content[j])
  <2>1. Q.content \in Seq(Tokens) /\ Len(r.content) = Len(Q.content) + 1
        /\ Len(Q.content) \in Nat /\ r.content[Len(Q.content) + 1] = t
        /\ \A j \in 1..Len(Q.content) : r.content[j] = Q.content[j] /\ j \in 1..Len(r.content)
    BY <1>1, <1>3, <1>4 DEF Question
  <2>2. CASE i \in 1..Len(shown[q])
    <3>1. s[i] = shown[q][i]
      BY <1>1, <1>3, <1>6, <2>2
    <3> QED
      BY <1>1, <1>4, <2>1, <2>2, <3>1 DEF AnswerRight
  <2>3. CASE i \notin 1..Len(shown[q])
    <3>1. s[i] = t
      BY <1>1, <1>3, <1>6, <2>3
    <3>2. Len(Q.content) + 1 \in 1..Len(r.content)
      BY <2>1
    <3> QED
      BY <1>2, <1>3, <1>4, <2>1, <3>1, <3>2
  <2> QED
    BY <2>2, <2>3
<1>10. AnswerRight(r, s)
  BY <1>2, <1>4, <1>8, <1>9 DEF AnswerRight
<1> QED
  BY <1>4, <1>5, <1>7, <1>10, OneQuestion

\* The answer that comes at once, of which nothing is shown.
LEMMA AnsweredAtOnce ==
  ASSUME BrainIInv, NEW q \in Asking, AnswersAtOnce(q)
  PROVE  BrainIInv'
<1> DEFINE Q == question[q]
           answer(n) == [i \in 1..n |-> <<Q.try, i>>]
<1>1. Q \in Question /\ shown[q] \in Seq(Tokens) /\ AnswerRight(Q, shown[q])
  BY DEF BrainIInv
<1>2. Q.pc = "sent" /\ shown' = shown /\ Q.try \in Nat
  BY <1>1 DEF AnswersAtOnce, AskStep, Question
<1>3. PICK n \in 0..MaxTokens, calls \in 0..MaxCallDeltas :
        question' = [question EXCEPT ![q].pc = "read", ![q].calls = calls,
                       ![q].content = [i \in 1..n |-> <<question[q].try, i>>]]
  BY DEF AnswersAtOnce
<1>4. answer(n) \in Seq(Tokens)
  <2>1. n \in Nat /\ \A i \in 1..n : <<Q.try, i>> \in Tokens
    BY <1>2, BrainCallsAssumption DEF Tokens
  <2> QED
    BY <2>1
<1> DEFINE c == answer(n)
           r == [Q EXCEPT !.pc = "read", !.calls = calls, !.content = c]
<1>5. question' = [question EXCEPT ![q] = r]
  BY <1>3
<1>6. c \in Seq(Tokens) /\ calls \in Nat
  BY <1>4, BrainCallsAssumption
<1> HIDE DEF c, answer, Q
<1>7. r \in Question /\ r.pc = "read" /\ r.try = Q.try /\ r.read = Q.read
  BY <1>1, <1>6 DEF Question, AskPcs
<1> HIDE DEF r
<1>8. SeenOf(r) = SeenOf(Q)
  BY <1>7 DEF SeenOf
<1>9. \A i \in 1..Len(shown[q]) : shown[q][i][1] \in Nat
  BY <1>1, TokenParts
<1>10. AnswerRight(r, shown[q])
  BY <1>1, <1>2, <1>7, <1>8, <1>9 DEF AnswerRight
<1> QED
  BY <1>1, <1>2, <1>5, <1>7, <1>10, OneQuestion

\* What is said of an answer is said of its try, of how far it has been read and
\* of its content.
LEMMA SameAnswer ==
  ASSUME BrainIInv, NEW q \in Asking, NEW r \in Question,
         question' = [question EXCEPT ![q] = r], shown' = shown,
         question[q].pc \notin {"new", "decided"},
         r.pc \notin {"new", "decided", "sent"},
         r.try = question[q].try, r.read >= question[q].read,
         question[q].content # <<>> => r.content = question[q].content
  PROVE  BrainIInv'
<1>1. question[q] \in Question /\ shown[q] \in Seq(Tokens) /\ AnswerRight(question[q], shown[q])
  BY DEF BrainIInv
<1>2. Len(shown[q]) <= SeenOf(r)
  <2>1. Len(shown[q]) \in Nat /\ SeenOf(question[q]) \in Nat /\ SeenOf(r) \in Nat
    BY <1>1, SeenOfTyped
  <2>2. SeenOf(question[q]) <= SeenOf(r)
    BY <1>1, BrainCallsAssumption DEF SeenOf, Question
  <2> QED
    BY <1>1, <2>1, <2>2 DEF AnswerRight
<1>3. ASSUME NEW i \in 1..Len(shown[q]), shown[q][i][1] = r.try
      PROVE  \E j \in 1..Len(r.content) : shown[q][i] = r.content[j]
  <2>1. PICK j \in 1..Len(question[q].content) : shown[q][i] = question[q].content[j]
    BY <1>1, <1>3 DEF AnswerRight
  <2>2. question[q].content # <<>>
    BY <2>1
  <2> QED
    BY <2>1, <2>2
<1>4. AnswerRight(r, shown[q])
  BY <1>1, <1>2, <1>3 DEF AnswerRight
<1> QED
  BY <1>1, <1>4, OneQuestion

\* Before the first request, where the decision is.
LEMMA Decided ==
  ASSUME BrainIInv, NEW q \in Asking, Decide(q)
  PROVE  BrainIInv'
<1>1. question[q] \in Question /\ shown[q] \in Seq(Tokens) /\ AnswerRight(question[q], shown[q])
  BY DEF BrainIInv
<1>2. question[q].try = 0 /\ shown' = shown
  BY <1>1 DEF Decide, AskStep, AnswerRight
<1>3. PICK chat \in BOOLEAN :
        question' = [question EXCEPT ![q].pc = "decided", ![q].chat = chat]
  BY DEF Decide
<1> DEFINE r == [question[q] EXCEPT !.pc = "decided", !.chat = chat]
<1>4. question' = [question EXCEPT ![q] = r]
  BY <1>3
<1>5. r \in Question /\ r.pc = "decided" /\ r.try = 0
  BY <1>1, <1>2 DEF Question, AskPcs
<1> HIDE DEF r
<1>6. shown[q] = <<>>
  BY <1>1, <1>2 DEF AnswerRight, SeenOf
<1>7. AnswerRight(r, shown[q])
  BY <1>5, <1>6 DEF AnswerRight, SeenOf
<1> QED
  BY <1>1, <1>2, <1>4, <1>5, <1>7, OneQuestion

\* The tokens past the limit and the calls in the stream change no content.
LEMMA RestRead ==
  ASSUME BrainIInv, NEW q \in Asking, ReadTooLong(q) \/ ReadCalls(q)
  PROVE  BrainIInv'
<1> DEFINE Q == question[q]
<1>1. Q \in Question /\ Q.pc = "reading" /\ shown' = shown
  BY DEF BrainIInv, ReadTooLong, ReadCalls, AskStep
<1>2. Q.read \in Nat /\ Q.deltas \in Nat /\ Q.calls \in Nat
  BY <1>1, BrainCallsAssumption DEF Question
<1>3. CASE ReadTooLong(q)
  <2> DEFINE n  == Q.read + 1
             pc == IF Is(q, "gemini") THEN Q.pc ELSE "read"
             r  == [Q EXCEPT !.read = n, !.pc = pc]
  <2>1. question' = [question EXCEPT ![q] = r]
    BY <1>3 DEF ReadTooLong
  <2>2. n \in 0..MaxTokens /\ n >= Q.read /\ pc \in {"reading", "read"}
    BY <1>1, <1>2, <1>3, BrainCallsAssumption DEF ReadTooLong
  <2> HIDE DEF n, pc, Q
  <2>3. r \in Question /\ r.pc = pc /\ r.try = Q.try /\ r.read = n /\ r.content = Q.content
    BY <1>1, <2>2 DEF Question, AskPcs
  <2> HIDE DEF r
  <2> USE DEF Q
  <2> QED
    BY <1>1, <2>1, <2>2, <2>3, SameAnswer
<1>4. CASE ReadCalls(q) /\ ~Is(q, "qwen")
  <2>1. PICK n \in 1..2 :
          question' = [question EXCEPT ![q].deltas = @ + 1, ![q].calls = @ + n]
    BY <1>4 DEF ReadCalls
  <2> DEFINE d == Q.deltas + 1
             c == Q.calls + n
             r == [Q EXCEPT !.deltas = d, !.calls = c]
  <2>2. question' = [question EXCEPT ![q] = r]
    BY <2>1
  <2>3. d \in Nat /\ c \in Nat
    BY <1>2
  <2> HIDE DEF d, c, Q
  <2>4. r \in Question /\ r.pc = Q.pc /\ r.try = Q.try /\ r.read = Q.read /\ r.content = Q.content
    BY <1>1, <2>3 DEF Question
  <2> HIDE DEF r
  <2>5. r.read >= Q.read
    BY <1>2, <2>4
  <2> USE DEF Q
  <2> QED
    BY <1>1, <2>2, <2>4, <2>5, SameAnswer
<1>5. CASE ReadCalls(q) /\ Is(q, "qwen")
  <2>1. PICK named \in BOOLEAN :
          question' = [question EXCEPT ![q].deltas = @ + 1, ![q].open = @ \/ named,
            ![q].calls = IF named /\ question[q].open THEN @ + 1 ELSE @]
    BY <1>5 DEF ReadCalls, Is
  <2> DEFINE d == Q.deltas + 1
             o == Q.open \/ named
             c == IF named /\ Q.open THEN Q.calls + 1 ELSE Q.calls
             r == [Q EXCEPT !.deltas = d, !.open = o, !.calls = c]
  <2>2. question' = [question EXCEPT ![q] = r]
    BY <2>1
  <2>3. d \in Nat /\ c \in Nat /\ o \in BOOLEAN
    BY <1>2
  <2> HIDE DEF d, c, o, Q
  <2>4. r \in Question /\ r.pc = Q.pc /\ r.try = Q.try /\ r.read = Q.read /\ r.content = Q.content
    BY <1>1, <2>3 DEF Question
  <2> HIDE DEF r
  <2>5. r.read >= Q.read
    BY <1>2, <2>4
  <2> USE DEF Q
  <2> QED
    BY <1>1, <2>2, <2>4, <2>5, SameAnswer
<1> QED
  BY <1>3, <1>4, <1>5

\* A notice takes the place of an empty answer only, and the calls found in a
\* text leave it as it is.
LEMMA AnswerTaken ==
  ASSUME BrainIInv, NEW q \in Asking, FinishAnswer(q) \/ FindCalls(q)
  PROVE  BrainIInv'
<1> DEFINE Q == question[q]
<1>1. Q \in Question /\ Q.pc \in {"read", "answered"} /\ shown' = shown
  BY DEF BrainIInv, FinishAnswer, FindCalls, AskStep
<1>2. Q.read \in Nat /\ Q.calls \in Nat /\ Q.try \in Nat
  BY <1>1, BrainCallsAssumption DEF Question
<1>3. CASE FinishAnswer(q)
  <2> DEFINE k == Q.calls + (IF Q.open THEN 1 ELSE 0)
             c == IF Q.content = <<>> /\ k = 0 THEN <<<<Q.try, 0>>>> ELSE Q.content
             r == [Q EXCEPT !.pc = "answered", !.open = FALSE, !.calls = k, !.content = c]
  <2>1. question' = [question EXCEPT ![q] = r]
    BY <1>3 DEF FinishAnswer
  <2>2. k \in Nat
    BY <1>2
  <2>3. c \in Seq(Tokens) /\ (Q.content # <<>> => c = Q.content)
    <3>1. <<<<Q.try, 0>>>> \in Seq(Tokens)
      BY <1>2 DEF Tokens
    <3> QED
      BY <1>1, <3>1 DEF Question
  <2> HIDE DEF k, c, Q
  <2>4. r \in Question /\ r.pc = "answered" /\ r.try = Q.try /\ r.read = Q.read /\ r.content = c
    BY <1>1, <2>2, <2>3 DEF Question, AskPcs
  <2> HIDE DEF r
  <2>5. r.read >= Q.read
    BY <1>2, <2>4
  <2> USE DEF Q
  <2> QED
    BY <1>1, <2>1, <2>3, <2>4, <2>5, SameAnswer
<1>4. CASE FindCalls(q)
  <2>1. PICK k \in Nat : question' = [question EXCEPT ![q] = [Q EXCEPT !.pc = "taken", !.calls = k]]
    <3>1. PICK fallback \in FallbackCalls, text \in TextCalls :
            question' = [question EXCEPT ![q].pc = "taken",
              ![q].calls = IF ~(/\ ~question[q].chat /\ question[q].calls = 0
                                /\ question[q].content # <<>>)
                           THEN @ ELSE IF fallback > 0 THEN fallback ELSE text]
      BY <1>4 DEF FindCalls
    <3> DEFINE k == IF ~(~Q.chat /\ Q.calls = 0 /\ Q.content # <<>>) THEN Q.calls
                    ELSE IF fallback > 0 THEN fallback ELSE text
    <3>2. k \in Nat
      BY <1>2 DEF FallbackCalls, TextCalls
    <3>3. question' = [question EXCEPT ![q] = [Q EXCEPT !.pc = "taken", !.calls = k]]
      BY <3>1
    <3> QED
      BY <3>2, <3>3
  <2> DEFINE r == [Q EXCEPT !.pc = "taken", !.calls = k]
  <2>2. question' = [question EXCEPT ![q] = r]
    BY <2>1
  <2> HIDE DEF Q
  <2>3. r \in Question /\ r.pc = "taken" /\ r.try = Q.try /\ r.read = Q.read /\ r.content = Q.content
    BY <1>1 DEF Question, AskPcs
  <2> HIDE DEF r
  <2>4. r.read >= Q.read
    BY <1>2, <2>3
  <2> USE DEF Q
  <2> QED
    BY <1>1, <2>2, <2>3, <2>4, SameAnswer
<1> QED
  BY <1>3, <1>4

\* Each step of a run's question keeps all this.
LEMMA BrainInductive == BrainIInv /\ [BrainNext]_brainVars => BrainIInv'
<1> SUFFICES ASSUME BrainIInv, [BrainNext]_brainVars
             PROVE  BrainIInv'
  OBVIOUS
<1>1. ASSUME NEW q \in Asking, Ask(q)
      PROVE  BrainIInv'
  <2>1. question[q] \in Question /\ AnswerRight(question[q], shown[q])
    BY DEF BrainIInv
  <2>2. question[q].try = 0 /\ question[q].chat \in BOOLEAN
    BY <1>1, <2>1 DEF Ask, AskStep, AnswerRight, Question
  <2> QED
    BY <1>1, <2>2, RequestSent DEF Ask
<1>2. ASSUME NEW q \in Asking, AskWithoutTools(q)
      PROVE  BrainIInv'
  <2>1. question[q] \in Question /\ question[q].pc = "failed500" /\ shown' = shown
    BY <1>2 DEF BrainIInv, AskWithoutTools, AskStep
  <2>2. CASE question[q].try = 1
    <3>1. Send(q, question[q].provider, FALSE) /\ question[q].provider \in Providers \cup {"none"}
      BY <1>2, <2>1, <2>2 DEF AskWithoutTools, Question
    <3> QED
      BY <2>1, <2>2, <3>1, RequestSent
  <2>3. CASE question[q].try # 1
    BY <1>2, <2>1, <2>3, QuestionMoves DEF AskWithoutTools, AskPcs
  <2> QED
    BY <2>2, <2>3
<1>3. ASSUME NEW q \in Asking,
             RequestFails(q) \/ StartStream(q) \/ StreamEnds(q) \/ StreamCancelled(q)
      PROVE  BrainIInv'
  <2>1. PICK pc \in {"failed500", "failed", "reading", "read"} : AskMove(q, pc) /\ shown' = shown
    BY <1>3 DEF RequestFails, StartStream, StreamEnds, StreamCancelled
  <2>2. question[q].pc \notin {"new", "decided"}
    BY <1>3 DEF RequestFails, StartStream, StreamEnds, StreamCancelled, AskStep
  <2> QED
    BY <2>1, <2>2, QuestionMoves DEF AskPcs
<1>4. CASE UNCHANGED brainVars
  BY <1>4 DEF brainVars, BrainIInv
<1> QED
  BY <1>1, <1>2, <1>3, <1>4, Decided, AnsweredAtOnce, TokenRead, RestRead, AnswerTaken
     DEF BrainNext, BrainStep

\* What was shown of the answer that is taken stands in its content.
LEMMA BrainIInvSuffices == BrainIInv => BrainTypeOK /\ ShownIsKept
<1> SUFFICES ASSUME BrainIInv, NEW q \in Asking
             PROVE  /\ question[q] \in Question
                    /\ Len(shown[q]) <= 2 * MaxTokens
                    /\ \A i \in 1..Len(shown[q]) :
                         \/ \E j \in 1..Len(question[q].content) : shown[q][i] = question[q].content[j]
                         \/ shown[q][i][1] < question[q].try
  BY DEF BrainTypeOK, ShownIsKept, Question, AskPcs
<1>1. question[q] \in Question /\ shown[q] \in Seq(Tokens) /\ AnswerRight(question[q], shown[q])
  BY DEF BrainIInv
<1>2. Len(shown[q]) <= 2 * MaxTokens
  <2>1. question[q].read \in 0..MaxTokens /\ SeenOf(question[q]) \in Nat
    BY <1>1, SeenOfTyped DEF Question
  <2>2. SeenOf(question[q]) <= 2 * MaxTokens
    BY <2>1, BrainCallsAssumption DEF SeenOf
  <2> QED
    BY <1>1, <2>1, <2>2, BrainCallsAssumption DEF AnswerRight
<1>3. ASSUME NEW i \in 1..Len(shown[q]), ~(shown[q][i][1] < question[q].try)
      PROVE  \E j \in 1..Len(question[q].content) : shown[q][i] = question[q].content[j]
  <2>1. shown[q][i][1] \in Nat /\ question[q].try \in Nat
    BY <1>1, TokenParts DEF Question
  <2>2. shown[q][i][1] = question[q].try
    BY <1>1, <1>3, <2>1 DEF AnswerRight
  <2> QED
    BY <1>1, <2>2 DEF AnswerRight
<1> QED
  BY <1>1, <1>2, <1>3

\* The questions are what the type invariant says, whatever the providers answer
\* and however a request fails (planner.go, execution.go, the providers).
THEOREM QuestionsTyped == BrainSpec => []BrainTypeOK
<1> QED
  BY BrainInitial, BrainInductive, BrainIInvSuffices, PTL DEF BrainSpec

\* A client never sees a token of the answer that is taken which the run's history
\* will not hold, for any number of tokens and any limit on their length.
THEOREM ShownTokensKept == BrainSpec => []ShownIsKept
<1> QED
  BY BrainInitial, BrainInductive, BrainIInvSuffices, PTL DEF BrainSpec

-----------------------------------------------------------------------------
(* The index of projects                                                   *)

\* A call's project; before the call is made, whatever Idle holds.
Named == Projects \cup {Idle.project}

IndexCall == [pc : {"new", "clear", "walk", "failed", "indexed"}, project : Named,
              left : SUBSET Chunks, cleared : BOOLEAN, alone : BOOLEAN, kept : BOOLEAN]

ArchiveTyped ==
  /\ codeIndex \in [Projects -> [Chunks -> Nat]]
  /\ indexing \in [Indexers -> IndexCall]
  /\ \A i \in Indexers : indexing[i].pc # "new" => indexing[i].project \in Projects

\* Where a call has come past a chunk of a project: it has tried to insert it.
IsPast(r, p, c) == r.pc \in {"walk", "indexed"} /\ r.project = p /\ c \notin r.left
Past(p, c)      == {i \in Indexers : IsPast(indexing[i], p, c)}

\* A call that has not cleared its project yet has all chunks to do; one that
\* has reported has none.
WorkLeft ==
  \A i \in Indexers :
    /\ indexing[i].pc = "clear" => indexing[i].left = Chunks
    /\ indexing[i].pc = "indexed" => indexing[i].left = {}

\* No other call is at the project of one that is alone.
AloneIsAlone ==
  \A i, j \in Indexers :
    indexing[i].alone /\ indexing[i].pc \in {"clear", "walk", "indexed"} /\ i # j
      => ~Indexes(j, indexing[i].project)

\* No chunk has more rows than there are calls that have come past it.
RowsBounded ==
  \A p \in Projects, c \in Chunks : codeIndex[p][c] <= Cardinality(Past(p, c))

\* Of a call that cleared its project, is alone and lost nothing, a chunk has
\* no row while it is left to do and one after.
Counted(r) == /\ r.pc \in {"walk", "indexed"} /\ r.cleared /\ r.alone /\ r.kept
RowsSoFar ==
  \A i \in Indexers, c \in Chunks :
    Counted(indexing[i])
      => codeIndex[indexing[i].project][c] = IF c \in indexing[i].left THEN 0 ELSE 1

ArchiveIInv == ArchiveTyped /\ WorkLeft /\ AloneIsAlone /\ RowsBounded /\ RowsSoFar

\* There are finitely many calls, so those past a chunk can be counted.
LEMMA PastCounted ==
  ASSUME NEW p, NEW c
  PROVE  /\ IsFiniteSet(Past(p, c)) /\ Cardinality(Past(p, c)) \in 0..Cardinality(Indexers)
         /\ Cardinality(Indexers) \in Nat
<1>1. IsFiniteSet(Indexers) /\ Past(p, c) \subseteq Indexers
  BY ArchiveAssumption DEF Past
<1>2. /\ IsFiniteSet(Past(p, c)) /\ Cardinality(Past(p, c)) <= Cardinality(Indexers)
      /\ Cardinality(Indexers) \in Nat /\ Cardinality(Past(p, c)) \in Nat
  BY <1>1, FS_Subset, FS_CardinalityType
<1> QED
  BY <1>2

\* A call comes past chunks and does not go back.
LEMMA PastGrows ==
  ASSUME NEW p, NEW c,
         \A i \in Indexers : IsPast(indexing[i], p, c) => IsPast(indexing'[i], p, c)
  PROVE  Cardinality(Past(p, c)) <= Cardinality(Past(p, c)')
<1>1. Past(p, c) \subseteq Past(p, c)'
  BY DEF Past
<1>2. IsFiniteSet(Past(p, c)')
  BY ArchiveAssumption, FS_Subset DEF Past
<1> QED
  BY <1>1, <1>2, FS_Subset

\* One that comes past a chunk was not past it before.
LEMMA PastOneMore ==
  ASSUME NEW p, NEW c, NEW i \in Indexers,
         \A j \in Indexers : IsPast(indexing[j], p, c) => IsPast(indexing'[j], p, c),
         ~IsPast(indexing[i], p, c), IsPast(indexing'[i], p, c)
  PROVE  Cardinality(Past(p, c)) + 1 <= Cardinality(Past(p, c)')
<1>1. Past(p, c) \cup {i} \subseteq Past(p, c)' /\ i \notin Past(p, c)
  BY DEF Past
<1>2. IsFiniteSet(Past(p, c)') /\ IsFiniteSet(Past(p, c))
  BY ArchiveAssumption, FS_Subset DEF Past
<1>3. Cardinality(Past(p, c) \cup {i}) = Cardinality(Past(p, c)) + 1
  BY <1>1, <1>2, FS_AddElement
<1> QED
  BY <1>1, <1>2, <1>3, FS_Subset

\* At the start no call has been made and there are no rows.
LEMMA ArchiveInitial == ArchiveInit => ArchiveIInv
<1> SUFFICES ASSUME ArchiveInit
             PROVE  ArchiveIInv
  OBVIOUS
<1>1. Idle \in IndexCall /\ Idle.pc = "new"
  BY DEF Idle, IndexCall, Named
<1>2. ArchiveTyped /\ WorkLeft /\ AloneIsAlone /\ RowsSoFar
  BY <1>1 DEF ArchiveInit, ArchiveTyped, WorkLeft, AloneIsAlone, RowsSoFar, Counted
<1>3. RowsBounded
  BY PastCounted DEF ArchiveInit, RowsBounded
<1> QED
  BY <1>2, <1>3 DEF ArchiveIInv

\* A step of a call at its project: what it is at does not change, nor does who
\* is alone.
LEMMA CallStep ==
  ASSUME ArchiveIInv, NEW i \in Indexers, NEW r \in IndexCall,
         indexing' = [indexing EXCEPT ![i] = r],
         indexing[i].pc \in {"clear", "walk"}, r.pc \in {"walk", "failed", "indexed"},
         r.project = indexing[i].project, r.alone = indexing[i].alone,
         r.pc = "indexed" => r.left = {}
  PROVE  /\ indexing' \in [Indexers -> IndexCall] /\ indexing'[i] = r
         /\ \A j \in Indexers : j # i => indexing'[j] = indexing[j]
         /\ \A j \in Indexers : indexing'[j].pc # "new" => indexing'[j].project \in Projects
         /\ WorkLeft' /\ AloneIsAlone'
<1>1. /\ indexing' \in [Indexers -> IndexCall] /\ indexing'[i] = r
      /\ \A j \in Indexers : j # i => indexing'[j] = indexing[j]
  BY DEF ArchiveIInv, ArchiveTyped
<1>2. \A j \in Indexers : indexing'[j].pc # "new" => indexing'[j].project \in Projects
  BY <1>1 DEF ArchiveIInv, ArchiveTyped
<1>3. WorkLeft'
  BY <1>1 DEF ArchiveIInv, WorkLeft
<1>4. AloneIsAlone'
  BY <1>1 DEF ArchiveIInv, AloneIsAlone, Indexes
<1> QED
  BY <1>1, <1>2, <1>3, <1>4

\* Of the calls for a project where one is under way, the others do not count.
LEMMA OthersNotCounted ==
  ASSUME ArchiveIInv, NEW i \in Indexers, indexing[i].pc \in {"clear", "walk"},
         NEW j \in Indexers \ {i}, Counted(indexing[j])
  PROVE  indexing[j].project # indexing[i].project
BY DEF ArchiveIInv, AloneIsAlone, Indexes, Counted

\* A new call for a project ends the solitude of those that are or were at it.
LEMMA CallBegins ==
  ASSUME ArchiveIInv, NEW i \in Indexers, CallIndex(i)
  PROVE  ArchiveIInv'
<1>1. indexing[i].pc = "new" /\ codeIndex' = codeIndex
  BY DEF CallIndex
<1>2. PICK p \in Projects, clear \in BOOLEAN :
        indexing' = [j \in Indexers |->
          IF j = i
          THEN [Idle EXCEPT !.pc = IF clear THEN "clear" ELSE "walk",
                  !.project = p, !.left = Chunks, !.cleared = clear,
                  !.alone = ~ \E o \in Indexers : Indexes(o, p)]
          ELSE [indexing[j] EXCEPT !.alone = @ /\ indexing[j].project # p]]
  BY DEF CallIndex
<1> DEFINE solo == ~ \E o \in Indexers : Indexes(o, p)
           pc   == IF clear THEN "clear" ELSE "walk"
           r    == [Idle EXCEPT !.pc = pc, !.project = p, !.left = Chunks,
                      !.cleared = clear, !.alone = solo]
           s(j) == [indexing[j] EXCEPT !.alone = @ /\ indexing[j].project # p]
<1>3. DOMAIN indexing' = Indexers /\ indexing'[i] = r
      /\ \A j \in Indexers \ {i} : indexing'[j] = s(j)
  BY <1>2
<1>4. solo \in BOOLEAN /\ pc \in {"clear", "walk"} /\ (pc = "walk" => ~clear)
  OBVIOUS
<1> HIDE DEF solo, pc
<1>5. /\ r \in IndexCall /\ r.pc = pc /\ r.project = p /\ r.left = Chunks
      /\ r.cleared = clear /\ r.alone = solo
  BY <1>4 DEF Idle, IndexCall, Named
<1>6. ASSUME NEW j \in Indexers \ {i}
      PROVE  LET o == indexing[j] IN
             /\ s(j) \in IndexCall /\ s(j).pc = o.pc /\ s(j).project = o.project
             /\ s(j).left = o.left /\ s(j).cleared = o.cleared /\ s(j).kept = o.kept
             /\ s(j).alone => o.alone /\ o.project # p
  <2>1. indexing[j] \in IndexCall
    BY DEF ArchiveIInv, ArchiveTyped
  <2> QED
    BY <2>1 DEF IndexCall
<1> HIDE DEF r, s
<1>7. indexing' = [j \in Indexers |-> indexing'[j]]
  BY <1>2
<1>8. ArchiveTyped'
  <2>1. \A j \in Indexers : indexing'[j] \in IndexCall
    BY <1>3, <1>5, <1>6
  <2>2. indexing' \in [Indexers -> IndexCall]
    BY <1>7, <2>1
  <2>3. \A j \in Indexers : indexing'[j].pc # "new" => indexing'[j].project \in Projects
    BY <1>3, <1>5, <1>6 DEF ArchiveIInv, ArchiveTyped
  <2> QED
    BY <1>1, <2>2, <2>3 DEF ArchiveIInv, ArchiveTyped
<1>9. WorkLeft'
  BY <1>3, <1>4, <1>5, <1>6 DEF ArchiveIInv, WorkLeft
<1>10. ASSUME NEW j \in Indexers, NEW k \in Indexers, indexing'[j].alone,
              indexing'[j].pc \in {"clear", "walk", "indexed"}, j # k
       PROVE  ~Indexes(k, indexing[j].project)'
  <2>1. CASE j = i
    <3>1. ~Indexes(k, p)
      BY <1>3, <1>5, <1>10, <2>1 DEF solo
    <3> QED
      BY <1>3, <1>5, <1>6, <1>10, <2>1, <3>1 DEF Indexes
  <2>2. CASE j # i /\ k = i
    BY <1>3, <1>5, <1>6, <1>10, <2>2 DEF Indexes
  <2>3. CASE j # i /\ k # i
    BY <1>3, <1>6, <1>10, <2>3 DEF Indexes, ArchiveIInv, AloneIsAlone
  <2> QED
    BY <2>1, <2>2, <2>3
<1>11. RowsBounded'
  <2> SUFFICES ASSUME NEW x \in Projects, NEW c \in Chunks
               PROVE  codeIndex'[x][c] <= Cardinality(Past(x, c)')
    BY DEF RowsBounded
  <2>1. \A j \in Indexers : IsPast(indexing[j], x, c) => IsPast(indexing'[j], x, c)
    BY <1>1, <1>3, <1>6 DEF IsPast
  <2>2. codeIndex[x][c] \in Nat /\ codeIndex[x][c] <= Cardinality(Past(x, c))
    BY DEF ArchiveIInv, ArchiveTyped, RowsBounded
  <2>3. Cardinality(Past(x, c)) \in Nat /\ Cardinality(Past(x, c)') \in Nat
    BY PastCounted, ArchiveAssumption, FS_Subset, FS_CardinalityType DEF Past
  <2>4. Cardinality(Past(x, c)) <= Cardinality(Past(x, c)')
    BY <2>1, PastGrows
  <2> QED
    BY <1>1, <2>2, <2>3, <2>4
<1>12. ASSUME NEW j \in Indexers, NEW c \in Chunks, Counted(indexing'[j])
       PROVE  codeIndex'[indexing'[j].project][c] = IF c \in indexing'[j].left THEN 0 ELSE 1
  <2>1. j # i
    BY <1>3, <1>4, <1>5, <1>12 DEF Counted
  <2>2. Counted(indexing[j])
    BY <1>3, <1>6, <1>12, <2>1 DEF Counted
  <2> QED
    BY <1>1, <1>3, <1>6, <2>1, <2>2 DEF ArchiveIInv, RowsSoFar
<1> QED
  BY <1>8, <1>9, <1>10, <1>11, <1>12 DEF ArchiveIInv, AloneIsAlone, RowsSoFar

\* DELETE takes the rows of the project, and no others.
LEMMA ProjectCleared ==
  ASSUME ArchiveIInv, NEW i \in Indexers, ClearProjectIndex(i)
  PROVE  ArchiveIInv'
<1> DEFINE p == indexing[i].project
           r == [indexing[i] EXCEPT !.pc = "walk"]
<1>1. indexing[i] \in IndexCall /\ indexing[i].pc = "clear" /\ p \in Projects
      /\ indexing[i].left = Chunks /\ indexing' = [indexing EXCEPT ![i] = r]
  <2>1. indexing[i].pc = "clear" /\ indexing' = [indexing EXCEPT ![i] = r]
    BY DEF ClearProjectIndex
  <2>2. indexing[i] \in IndexCall /\ p \in Projects /\ indexing[i].left = Chunks
    BY <2>1 DEF ArchiveIInv, ArchiveTyped, WorkLeft
  <2> QED
    BY <2>1, <2>2
<1>2. r \in IndexCall /\ r.pc = "walk" /\ r.project = p /\ r.left = Chunks
      /\ r.alone = indexing[i].alone
  BY <1>1 DEF IndexCall
<1> HIDE DEF r
<1>3. /\ indexing' \in [Indexers -> IndexCall] /\ indexing'[i] = r
      /\ \A j \in Indexers : j # i => indexing'[j] = indexing[j]
      /\ \A j \in Indexers : indexing'[j].pc # "new" => indexing'[j].project \in Projects
      /\ WorkLeft' /\ AloneIsAlone'
  BY <1>1, <1>2, CallStep
<1>4. /\ codeIndex' \in [Projects -> [Chunks -> Nat]]
      /\ \A c \in Chunks : codeIndex'[p][c] = 0
      /\ \A x \in Projects : x # p => codeIndex'[x] = codeIndex[x]
  <2>1. [c \in Chunks |-> 0] \in [Chunks -> Nat]
    OBVIOUS
  <2> QED
    BY <1>1, <2>1 DEF ClearProjectIndex, ArchiveIInv, ArchiveTyped
<1>5. RowsBounded'
  <2> SUFFICES ASSUME NEW x \in Projects, NEW c \in Chunks
               PROVE  codeIndex'[x][c] <= Cardinality(Past(x, c)')
    BY DEF RowsBounded
  <2>1. Cardinality(Past(x, c)) \in Nat /\ Cardinality(Past(x, c)') \in Nat
    BY PastCounted, ArchiveAssumption, FS_Subset, FS_CardinalityType DEF Past
  <2>2. CASE x = p
    BY <1>4, <2>1, <2>2
  <2>3. CASE x # p
    <3>1. \A j \in Indexers : IsPast(indexing[j], x, c) => IsPast(indexing'[j], x, c)
      BY <1>1, <1>3 DEF IsPast
    <3>2. codeIndex[x][c] \in Nat /\ codeIndex[x][c] <= Cardinality(Past(x, c))
      BY DEF ArchiveIInv, ArchiveTyped, RowsBounded
    <3>3. Cardinality(Past(x, c)) <= Cardinality(Past(x, c)')
      BY <3>1, PastGrows
    <3> QED
      BY <1>4, <2>1, <2>3, <3>2, <3>3
  <2> QED
    BY <2>2, <2>3
<1>6. ASSUME NEW j \in Indexers, NEW c \in Chunks, Counted(indexing'[j])
      PROVE  codeIndex'[indexing'[j].project][c] = IF c \in indexing'[j].left THEN 0 ELSE 1
  <2>1. CASE j = i
    BY <1>2, <1>3, <1>4, <2>1
  <2>2. CASE j # i
    <3>1. Counted(indexing[j]) /\ indexing'[j] = indexing[j]
      BY <1>3, <1>6, <2>2
    <3>2. indexing[j].project # p /\ indexing[j].project \in Projects
      BY <1>1, <2>2, <3>1, OthersNotCounted DEF Counted, ArchiveIInv, ArchiveTyped
    <3> QED
      BY <1>4, <3>1, <3>2 DEF ArchiveIInv, RowsSoFar
  <2> QED
    BY <2>1, <2>2
<1> QED
  BY <1>3, <1>4, <1>5, <1>6 DEF ArchiveIInv, ArchiveTyped, RowsSoFar

\* An insert that is done adds a row of a chunk the call had left; one that
\* fails is noted.
LEMMA ChunkAdded ==
  ASSUME ArchiveIInv, NEW i \in Indexers, AddCodeChunk(i)
  PROVE  ArchiveIInv'
<1> DEFINE p == indexing[i].project
<1>1. indexing[i] \in IndexCall /\ indexing[i].pc = "walk" /\ p \in Projects
  BY DEF AddCodeChunk, ArchiveIInv, ArchiveTyped
<1>2. PICK c \in indexing[i].left :
        \/ /\ codeIndex' = [codeIndex EXCEPT ![indexing[i].project][c] = @ + 1]
           /\ indexing' = [indexing EXCEPT ![i].left = @ \ {c}]
        \/ /\ indexing' = [indexing EXCEPT ![i].left = @ \ {c}, ![i].kept = FALSE]
           /\ codeIndex' = codeIndex
  BY DEF AddCodeChunk
<1>3. PICK kept \in BOOLEAN :
        /\ indexing' = [indexing EXCEPT ![i] =
             [indexing[i] EXCEPT !.left = indexing[i].left \ {c}, !.kept = kept]]
        /\ kept => /\ indexing[i].kept
                   /\ codeIndex' = [codeIndex EXCEPT ![p][c] = @ + 1]
        /\ \/ codeIndex' = [codeIndex EXCEPT ![p][c] = @ + 1]
           \/ codeIndex' = codeIndex
  <2>1. CASE /\ codeIndex' = [codeIndex EXCEPT ![p][c] = @ + 1]
             /\ indexing' = [indexing EXCEPT ![i].left = @ \ {c}]
    <3>1. indexing[i].kept \in BOOLEAN
      BY <1>1 DEF IndexCall
    <3>2. indexing' = [indexing EXCEPT ![i] =
            [indexing[i] EXCEPT !.left = indexing[i].left \ {c}, !.kept = indexing[i].kept]]
      BY <1>1, <2>1 DEF IndexCall
    <3> QED
      BY <2>1, <3>1, <3>2
  <2>2. CASE /\ indexing' = [indexing EXCEPT ![i].left = @ \ {c}, ![i].kept = FALSE]
             /\ codeIndex' = codeIndex
    BY <2>2
  <2> QED
    BY <1>2, <2>1, <2>2
<1> DEFINE r == [indexing[i] EXCEPT !.left = indexing[i].left \ {c}, !.kept = kept]
<1>4. /\ r \in IndexCall /\ r.pc = "walk" /\ r.project = p /\ r.kept = kept
      /\ r.left = indexing[i].left \ {c} /\ r.cleared = indexing[i].cleared
      /\ r.alone = indexing[i].alone
  BY <1>1 DEF IndexCall
<1>5. indexing' = [indexing EXCEPT ![i] = r]
  BY <1>3
<1> HIDE DEF r
<1>6. /\ indexing' \in [Indexers -> IndexCall] /\ indexing'[i] = r
      /\ \A j \in Indexers : j # i => indexing'[j] = indexing[j]
      /\ \A j \in Indexers : indexing'[j].pc # "new" => indexing'[j].project \in Projects
      /\ WorkLeft' /\ AloneIsAlone'
  BY <1>1, <1>4, <1>5, CallStep
<1>7. c \in Chunks /\ codeIndex \in [Projects -> [Chunks -> Nat]]
  BY <1>1 DEF IndexCall, ArchiveIInv, ArchiveTyped
<1>8. /\ codeIndex' \in [Projects -> [Chunks -> Nat]]
      /\ codeIndex'[p][c] <= codeIndex[p][c] + 1
      /\ kept => codeIndex'[p][c] = codeIndex[p][c] + 1
      /\ \A x \in Projects, d \in Chunks :
           x # p \/ d # c => codeIndex'[x][d] = codeIndex[x][d]
  <2>1. codeIndex[p] \in [Chunks -> Nat] /\ codeIndex[p][c] \in Nat
    BY <1>1, <1>7
  <2>2. CASE codeIndex' = codeIndex /\ ~kept
    BY <1>7, <2>1, <2>2
  <2>3. CASE codeIndex' = [codeIndex EXCEPT ![p][c] = @ + 1]
    <3> DEFINE f == [codeIndex[p] EXCEPT ![c] = codeIndex[p][c] + 1]
    <3>1. codeIndex' = [codeIndex EXCEPT ![p] = f]
      BY <2>3
    <3>2. /\ f \in [Chunks -> Nat] /\ f[c] = codeIndex[p][c] + 1
          /\ \A d \in Chunks : d # c => f[d] = codeIndex[p][d]
      BY <1>7, <2>1
    <3> HIDE DEF f
    <3>3. codeIndex' \in [Projects -> [Chunks -> Nat]] /\ codeIndex'[p] = f
          /\ \A x \in Projects : x # p => codeIndex'[x] = codeIndex[x]
      BY <1>1, <1>7, <3>1, <3>2
    <3> QED
      BY <2>1, <3>2, <3>3
  <2> QED
    BY <1>3, <2>2, <2>3
<1>9. RowsBounded'
  <2> SUFFICES ASSUME NEW x \in Projects, NEW d \in Chunks
               PROVE  codeIndex'[x][d] <= Cardinality(Past(x, d)')
    BY DEF RowsBounded
  <2>1. Cardinality(Past(x, d)) \in Nat /\ Cardinality(Past(x, d)') \in Nat
    BY PastCounted, ArchiveAssumption, FS_Subset, FS_CardinalityType DEF Past
  <2>2. codeIndex[x][d] \in Nat /\ codeIndex[x][d] <= Cardinality(Past(x, d))
        /\ codeIndex'[x][d] \in Nat
    BY <1>8 DEF ArchiveIInv, ArchiveTyped, RowsBounded
  <2>3. \A j \in Indexers : IsPast(indexing[j], x, d) => IsPast(indexing'[j], x, d)
    BY <1>1, <1>4, <1>6 DEF IsPast
  <2>4. CASE x = p /\ d = c
    <3>1. ~IsPast(indexing[i], x, d) /\ IsPast(indexing'[i], x, d)
      BY <1>2, <1>4, <1>6, <2>4 DEF IsPast
    <3>2. Cardinality(Past(x, d)) + 1 <= Cardinality(Past(x, d)')
      BY <2>3, <3>1, PastOneMore
    <3> QED
      BY <1>8, <2>1, <2>2, <2>4, <3>2
  <2>5. CASE x # p \/ d # c
    <3>1. Cardinality(Past(x, d)) <= Cardinality(Past(x, d)')
      BY <2>3, PastGrows
    <3> QED
      BY <1>8, <2>1, <2>2, <2>5, <3>1
  <2> QED
    BY <2>4, <2>5
<1>10. ASSUME NEW j \in Indexers, NEW d \in Chunks, Counted(indexing'[j])
       PROVE  codeIndex'[indexing'[j].project][d] = IF d \in indexing'[j].left THEN 0 ELSE 1
  <2>1. CASE j = i
    <3>1. Counted(indexing[i]) /\ kept
      BY <1>1, <1>3, <1>4, <1>6, <1>10, <2>1 DEF Counted
    <3>2. codeIndex[p][d] = IF d \in indexing[i].left THEN 0 ELSE 1
      BY <3>1 DEF ArchiveIInv, RowsSoFar
    <3>3. CASE d = c
      BY <1>2, <1>4, <1>6, <1>8, <2>1, <3>1, <3>2, <3>3
    <3>4. CASE d # c
      BY <1>1, <1>4, <1>6, <1>8, <2>1, <3>2, <3>4
    <3> QED
      BY <3>3, <3>4
  <2>2. CASE j # i
    <3>1. Counted(indexing[j]) /\ indexing'[j] = indexing[j]
      BY <1>6, <1>10, <2>2
    <3>2. indexing[j].project # p /\ indexing[j].project \in Projects
      BY <1>1, <2>2, <3>1, OthersNotCounted DEF Counted, ArchiveIInv, ArchiveTyped
    <3> QED
      BY <1>8, <3>1, <3>2 DEF ArchiveIInv, RowsSoFar
  <2> QED
    BY <2>1, <2>2
<1> QED
  BY <1>6, <1>8, <1>9, <1>10 DEF ArchiveIInv, ArchiveTyped, RowsSoFar

\* Each step of a call of the index tools keeps all this.
LEMMA ArchiveInductive == ArchiveIInv /\ [ArchiveNext]_archiveVars => ArchiveIInv'
<1> SUFFICES ASSUME ArchiveIInv, [ArchiveNext]_archiveVars
             PROVE  ArchiveIInv'
  OBVIOUS
<1>1. ASSUME NEW i \in Indexers, ClearFails(i) \/ ReportIndexed(i)
      PROVE  ArchiveIInv'
  <2> DEFINE R(pc) == [indexing[i] EXCEPT !.pc = pc]
  <2>1. indexing[i] \in IndexCall /\ indexing[i].pc \in {"clear", "walk"} /\ codeIndex' = codeIndex
    BY <1>1 DEF ClearFails, ReportIndexed, ArchiveIInv, ArchiveTyped
  <2>2. PICK pc \in {"failed", "indexed"} :
          /\ indexing' = [indexing EXCEPT ![i] = R(pc)]
          /\ pc = "indexed" => indexing[i].pc = "walk" /\ indexing[i].left = {}
          /\ pc = "failed" => indexing[i].pc = "clear"
    BY <1>1 DEF ClearFails, ReportIndexed
  <2> DEFINE r == R(pc)
  <2>3. /\ r \in IndexCall /\ r.pc = pc /\ r.project = indexing[i].project
        /\ r.left = indexing[i].left /\ r.cleared = indexing[i].cleared
        /\ r.alone = indexing[i].alone /\ r.kept = indexing[i].kept
    BY <2>1 DEF IndexCall
  <2>4. indexing' = [indexing EXCEPT ![i] = r]
    BY <2>2
  <2> HIDE DEF r, R
  <2>5. /\ indexing' \in [Indexers -> IndexCall] /\ indexing'[i] = r
        /\ \A j \in Indexers : j # i => indexing'[j] = indexing[j]
        /\ \A j \in Indexers : indexing'[j].pc # "new" => indexing'[j].project \in Projects
        /\ WorkLeft' /\ AloneIsAlone'
    <3>1. /\ r \in IndexCall /\ indexing[i].pc \in {"clear", "walk"}
          /\ r.pc \in {"walk", "failed", "indexed"} /\ (r.pc = "indexed" => r.left = {})
      BY <2>1, <2>2, <2>3
    <3> QED
      BY <2>3, <2>4, <3>1, CallStep
  <2>6. ASSUME NEW x \in Projects, NEW c \in Chunks
        PROVE  codeIndex'[x][c] <= Cardinality(Past(x, c)')
    <3>1. indexing[i].pc = "clear" => indexing[i].left = Chunks
      BY DEF ArchiveIInv, WorkLeft
    <3>2. \A j \in Indexers : IsPast(indexing[j], x, c) => IsPast(indexing'[j], x, c)
      BY <2>1, <2>2, <2>3, <2>5, <3>1 DEF IsPast
    <3>3. codeIndex[x][c] \in Nat /\ codeIndex[x][c] <= Cardinality(Past(x, c))
      BY DEF ArchiveIInv, ArchiveTyped, RowsBounded
    <3>4. Cardinality(Past(x, c)) \in Nat /\ Cardinality(Past(x, c)') \in Nat
      BY PastCounted, ArchiveAssumption, FS_Subset, FS_CardinalityType DEF Past
    <3>5. Cardinality(Past(x, c)) <= Cardinality(Past(x, c)')
      BY <3>2, PastGrows
    <3> QED
      BY <2>1, <3>3, <3>4, <3>5
  <2>7. ASSUME NEW j \in Indexers, NEW c \in Chunks, Counted(indexing'[j])
        PROVE  codeIndex'[indexing'[j].project][c] = IF c \in indexing'[j].left THEN 0 ELSE 1
    <3>1. Counted(indexing[j]) /\ indexing'[j].project = indexing[j].project
          /\ indexing'[j].left = indexing[j].left
      BY <2>2, <2>3, <2>5, <2>7 DEF Counted
    <3> QED
      BY <2>1, <3>1 DEF ArchiveIInv, RowsSoFar
  <2> QED
    BY <2>1, <2>5, <2>6, <2>7 DEF ArchiveIInv, ArchiveTyped, RowsBounded, RowsSoFar
<1>2. CASE UNCHANGED archiveVars
  BY <1>2 DEF archiveVars, ArchiveIInv, ArchiveTyped, WorkLeft, AloneIsAlone, Indexes,
              RowsBounded, Past, RowsSoFar
<1> QED
  BY <1>1, <1>2, CallBegins, ProjectCleared, ChunkAdded DEF ArchiveNext

\* A report is made when nothing is left to do.
LEMMA ArchiveIInvSuffices == ArchiveIInv => ArchiveTypeOK /\ IndexedAsReported
<1> SUFFICES ASSUME ArchiveIInv
             PROVE  ArchiveTypeOK /\ IndexedAsReported
  OBVIOUS
<1>1. ASSUME NEW p \in Projects, NEW c \in Chunks
      PROVE  codeIndex[p][c] \in 0..Cardinality(Indexers)
  <2>1. codeIndex[p][c] \in Nat /\ codeIndex[p][c] <= Cardinality(Past(p, c))
    BY DEF ArchiveIInv, ArchiveTyped, RowsBounded
  <2>2. Cardinality(Past(p, c)) \in 0..Cardinality(Indexers) /\ Cardinality(Indexers) \in Nat
    BY PastCounted
  <2> QED
    BY <2>1, <2>2
<1>2. codeIndex \in [Projects -> [Chunks -> 0..Cardinality(Indexers)]]
  <2>1. codeIndex \in [Projects -> [Chunks -> Nat]]
    BY DEF ArchiveIInv, ArchiveTyped
  <2>2. \A p \in Projects : codeIndex[p] \in [Chunks -> 0..Cardinality(Indexers)]
    BY <1>1, <2>1
  <2> QED
    BY <2>1, <2>2
<1>3. \A i \in Indexers : indexing[i].left \subseteq Chunks
  BY DEF ArchiveIInv, ArchiveTyped, IndexCall
<1>4. ASSUME NEW i \in Indexers, indexing[i].pc = "indexed", indexing[i].cleared,
             indexing[i].alone, indexing[i].kept, NEW c \in Chunks
      PROVE  /\ codeIndex[indexing[i].project][c] = 1
             /\ \A fts \in BOOLEAN :
                  <<indexing[i].project, c>> \in SearchCode(indexing[i].project, fts)
  <2>1. indexing[i].project \in Projects /\ indexing[i].left = {} /\ Counted(indexing[i])
    BY <1>4 DEF ArchiveIInv, ArchiveTyped, WorkLeft, Counted
  <2>2. codeIndex[indexing[i].project][c] = 1
    BY <2>1 DEF ArchiveIInv, RowsSoFar
  <2>3. <<indexing[i].project, indexing[i].project>> \in NameContains
    BY <2>1, ArchiveAssumption
  <2> QED
    BY <2>1, <2>2, <2>3 DEF SearchCode
<1> QED
  BY <1>2, <1>3, <1>4 DEF ArchiveTypeOK, IndexedAsReported

\* The index has no more rows of a chunk than it was indexed (indexer.go).
THEOREM IndexTyped == ArchiveSpec => []ArchiveTypeOK
<1> QED
  BY ArchiveInitial, ArchiveInductive, ArchiveIInvSuffices, PTL DEF ArchiveSpec

\* An index tool that says "BASARILI" after a call that cleared its project, met no
\* other call for it and lost no insert has left each chunk there once, for any
\* number of calls, projects and chunks; calls for other projects do no harm.
THEOREM ReportsTrue == ArchiveSpec => []IndexedAsReported
<1> QED
  BY ArchiveInitial, ArchiveInductive, ArchiveIInvSuffices, PTL DEF ArchiveSpec

-----------------------------------------------------------------------------
(* The hook of the live log                                                *)

SetupPcs == {"idle", "enter", "remove", "add", "record"}
LeavePcs == {"idle", "remove", "left", "closed"}
StartPcs == {"new", "connect", "key", "admin", "logging", "finish", "active", "failed"}

\* Nobody holds an id before it is his, and Start's setup begins after its
\* attempts to connect.
HoldersRight ==
  /\ \A s \in Setups : setup[s].pc \in {"idle", "enter", "add"} => setup[s].id = NoHook
  /\ leave.pc = "idle" => leave.id = NoHook
  /\ start.pc \in {"new", "connect", "key", "admin"} => setup["start"] = Resting

HooksNumbered == publishHooks \subseteq 1..hookIDCounter

StartTyped == start \in [pc : StartPcs, tries : 0..MaxReconnectAttempts]

HookIInv == WhatsAppTypeOK /\ StartTyped /\ HoldersRight /\ HooksNumbered

\* Who is not at it has no id.
LEMMA RestingTyped ==
  Resting \in [pc : SetupPcs, id : 0..HookLimit] /\ Resting \in [pc : LeavePcs, id : 0..HookLimit]
BY ListenerAssumption DEF Resting, NoHook, SetupPcs, LeavePcs

\* At the start there is no hook and nobody is at it.
LEMMA WhatsAppInitial == WhatsAppInit => HookIInv
<1> SUFFICES ASSUME WhatsAppInit
             PROVE  HookIInv
  OBVIOUS
<1>1. StartTyped /\ start.tries = 0 /\ start.pc = "new"
  BY ListenerAssumption DEF WhatsAppInit, StartTyped, StartPcs
<1>2. setup \in [Setups -> [pc : SetupPcs, id : 0..HookLimit]]
      /\ leave \in [pc : LeavePcs, id : 0..HookLimit]
  BY RestingTyped DEF WhatsAppInit
<1>3. WhatsAppTypeOK
  <2>1. publishHooks \subseteq 1..HookLimit /\ hookIDCounter \in 0..HookLimit
        /\ logHookID \in 0..HookLimit
    BY ListenerAssumption DEF WhatsAppInit, NoHook
  <2>2. start.tries \in 0..MaxReconnectAttempts
    BY <1>1, ListenerAssumption
  <2>3. {paired, isConnected, adminPhone, setupKey} \subseteq BOOLEAN /\ link \in {"down", "up"}
    BY DEF WhatsAppInit
  <2> QED
    BY <1>1, <1>2, <2>1, <2>2, <2>3 DEF WhatsAppTypeOK, SetupPcs, LeavePcs
<1>4. HoldersRight /\ HooksNumbered
  BY DEF WhatsAppInit, HoldersRight, HooksNumbered, Resting, Setups
<1> QED
  BY <1>1, <1>3, <1>4 DEF HookIInv

\* A hook that could be removed can be removed after the step, or is gone, or was
\* recorded over by another exchange.
HookKept ==
  \A id \in publishHooks' :
    ~Removable(id)' =>
      \/ id \in publishHooks /\ ~Removable(id)
      \/ \E s \in Setups : /\ setup[s].pc = "record" /\ setup'[s].pc = "idle"
                            /\ logHookID = id

\* What Start does before it sets the live log up touches no hook.
LEMMA StartKeeps ==
  ASSUME HookIInv,
         BeginStart \/ ConnectFails \/ Connect \/ GiveUpConnecting \/ MakeKey \/ FinishStart
  PROVE  HookIInv' /\ HookKept
<1>1. UNCHANGED <<publishHooks, hookIDCounter, logHookID, setup, leave>>
  BY DEF BeginStart, ConnectFails, Connect, GiveUpConnecting, MakeKey, FinishStart, hookVars
<1>2. /\ StartTyped'
      /\ start'.pc \in {"new", "connect", "key", "admin"}
           => start.pc \in {"new", "connect", "key", "admin"}
  <2>1. start \in [pc : StartPcs, tries : 0..MaxReconnectAttempts]
    BY DEF HookIInv, StartTyped
  <2>2. CASE ConnectFails
    <3>1. start.tries + 1 \in 0..MaxReconnectAttempts
      BY <2>1, <2>2, ListenerAssumption DEF ConnectFails
    <3> QED
      BY <2>1, <2>2, <3>1 DEF ConnectFails, StartTyped
  <2>3. ASSUME NEW pc \in StartPcs, start' = [start EXCEPT !.pc = pc]
        PROVE  StartTyped' /\ start'.pc = pc
    BY <2>1, <2>3 DEF StartTyped
  <2>4. CASE BeginStart
    BY <2>3, <2>4 DEF BeginStart, StartAt, StartGo, StartPcs
  <2>5. CASE Connect \/ GiveUpConnecting \/ MakeKey
    BY <2>3, <2>5 DEF Connect, GiveUpConnecting, MakeKey, StartAt, StartGo, StartPcs
  <2>6. CASE FinishStart
    BY <2>3, <2>6 DEF FinishStart, StartGo, StartPcs
  <2> QED
    BY <2>2, <2>4, <2>5, <2>6
<1>3. {paired', isConnected', adminPhone', setupKey'} \subseteq BOOLEAN /\ link' \in {"down", "up"}
  BY DEF BeginStart, ConnectFails, Connect, GiveUpConnecting, MakeKey, FinishStart,
         listenerVars, HookIInv, WhatsAppTypeOK
<1>4. HookIInv'
  BY <1>1, <1>2, <1>3 DEF HookIInv, WhatsAppTypeOK, StartTyped, HoldersRight, HooksNumbered, StartPcs
<1>5. HookKept
  BY <1>1 DEF HookKept, Removable
<1> QED
  BY <1>4, <1>5

\* A setup begins where the earlier one of its caller is over.
LEMMA SetupBegins ==
  ASSUME HookIInv, LogForAdmin \/ TakeKey
  PROVE  HookIInv' /\ HookKept
<1>1. UNCHANGED <<publishHooks, hookIDCounter, logHookID, leave, paired, link, isConnected>>
      /\ {adminPhone', setupKey'} \subseteq BOOLEAN
  BY DEF LogForAdmin, TakeKey, hookVars, listenerVars, HookIInv, WhatsAppTypeOK
<1>2. PICK s \in Setups :
        /\ setup[s] = Resting
        /\ setup' = setup \/ BeginSetup(s)
        /\ \/ start' = start
           \/ start.pc = "admin" /\ start' \in {[start EXCEPT !.pc = "logging"], [start EXCEPT !.pc = "finish"]}
        /\ start'.pc \in {"new", "connect", "key", "admin"} => s = "message" /\ start' = start
  <2>1. CASE LogForAdmin
    <3>1. start.pc = "admin" /\ setup["start"] = Resting
      BY <2>1 DEF LogForAdmin, StartAt, HookIInv, HoldersRight
    <3>2. start \in [pc : StartPcs, tries : 0..MaxReconnectAttempts]
      BY DEF HookIInv, StartTyped
    <3>3. start' \in {[start EXCEPT !.pc = "logging"], [start EXCEPT !.pc = "finish"]}
          /\ (setup' = setup \/ BeginSetup("start"))
      BY <2>1 DEF LogForAdmin, StartGo
    <3>4. start'.pc \in {"logging", "finish"}
      BY <3>2, <3>3
    <3> QED
      BY <3>1, <3>3, <3>4 DEF Setups
  <2>2. CASE TakeKey
    BY <2>2 DEF TakeKey, Setups
  <2> QED
    BY <2>1, <2>2
<1>3. StartTyped'
  BY <1>2 DEF HookIInv, StartTyped, StartPcs
<1>4. /\ setup' \in [Setups -> [pc : SetupPcs, id : 0..HookLimit]]
      /\ \A t \in Setups : /\ setup'[t].id = setup[t].id
                           /\ setup'[t].pc # setup[t].pc => t = s /\ setup'[t].pc = "enter"
                           /\ t # s => setup'[t] = setup[t]
  <2>1. [pc |-> "enter", id |-> NoHook] \in [pc : SetupPcs, id : 0..HookLimit]
    BY ListenerAssumption DEF NoHook, SetupPcs
  <2>2. setup \in [Setups -> [pc : SetupPcs, id : 0..HookLimit]] /\ setup[s].id = NoHook
    BY <1>2 DEF HookIInv, WhatsAppTypeOK, SetupPcs, Resting
  <2>3. CASE setup' = setup
    BY <2>2, <2>3
  <2>4. CASE BeginSetup(s)
    BY <2>1, <2>2, <2>4 DEF BeginSetup
  <2> QED
    BY <1>2, <2>3, <2>4
<1>5. WhatsAppTypeOK' /\ HooksNumbered'
  BY <1>1, <1>3, <1>4 DEF HookIInv, WhatsAppTypeOK, HooksNumbered, StartTyped, StartPcs, SetupPcs
<1>6. HoldersRight'
  <2>1. \A t \in Setups : setup'[t].pc \in {"idle", "enter", "add"} => setup'[t].id = NoHook
    BY <1>2, <1>4 DEF HookIInv, HoldersRight, Resting
  <2>2. start'.pc \in {"new", "connect", "key", "admin"} => setup'["start"] = Resting
    BY <1>2, <1>4 DEF HookIInv, HoldersRight, Setups
  <2> QED
    BY <1>1, <2>1, <2>2 DEF HookIInv, HoldersRight
<1>7. HookKept
  BY <1>1, <1>4 DEF HookKept, Removable
<1> QED
  BY <1>3, <1>5, <1>6, <1>7 DEF HookIInv

\* A caller of setupLiveLogging goes on; what it holds is an id or none.
LEMMA SetupGoes ==
  ASSUME HookIInv, NEW s \in Setups, NEW pc \in SetupPcs, NEW id \in 0..HookLimit,
         SetupGo(s, pc, id), setup[s].pc # "idle",
         pc \in {"idle", "enter", "add"} => id = NoHook,
         UNCHANGED <<start, leave, listenerVars>>,
         logHookID' \in 0..HookLimit, hookIDCounter' \in hookIDCounter..HookLimit,
         publishHooks' \subseteq 1..hookIDCounter'
  PROVE  /\ HookIInv' /\ setup'[s].pc = pc /\ setup'[s].id = id
         /\ \A t \in Setups : t # s => setup'[t] = setup[t]
<1> DEFINE r == [pc |-> pc, id |-> id]
<1>1. r \in [pc : SetupPcs, id : 0..HookLimit] /\ r.pc = pc /\ r.id = id
  OBVIOUS
<1>2. setup \in [Setups -> [pc : SetupPcs, id : 0..HookLimit]] /\ setup' = [setup EXCEPT ![s] = r]
  BY DEF HookIInv, WhatsAppTypeOK, SetupPcs, SetupGo
<1> HIDE DEF r
<1>3. /\ setup' \in [Setups -> [pc : SetupPcs, id : 0..HookLimit]] /\ setup'[s] = r
      /\ \A t \in Setups : t # s => setup'[t] = setup[t]
  BY <1>1, <1>2
<1>4. hookIDCounter \in 0..HookLimit /\ hookIDCounter' \in 0..HookLimit
      /\ publishHooks' \subseteq 1..HookLimit
  BY ListenerAssumption DEF HookIInv, WhatsAppTypeOK
<1>5. WhatsAppTypeOK' /\ StartTyped' /\ HooksNumbered'
  BY <1>3, <1>4 DEF HookIInv, WhatsAppTypeOK, StartTyped, HooksNumbered, SetupPcs, listenerVars
<1>6. HoldersRight'
  <2>1. setup["start"] = Resting => s # "start"
    BY DEF Resting
  <2> QED
    BY <1>1, <1>3, <2>1 DEF HookIInv, HoldersRight, Setups
<1> QED
  BY <1>1, <1>3, <1>5, <1>6 DEF HookIInv

\* The four steps of an exchange: the id is handed over from step to step, and only
\* its recording can forget that of another.
LEMMA ExchangeKeeps ==
  ASSUME HookIInv, NEW s \in Setups, SetupStep(s)
  PROVE  HookIInv' /\ HookKept
<1>1. /\ setup[s] \in [pc : SetupPcs, id : 0..HookLimit]
      /\ logHookID \in 0..HookLimit /\ hookIDCounter \in 0..HookLimit
      /\ publishHooks \subseteq 1..hookIDCounter
      /\ setup[s].pc \in {"idle", "enter", "add"} => setup[s].id = NoHook
  BY DEF HookIInv, WhatsAppTypeOK, HooksNumbered, HoldersRight, SetupPcs
<1>2. 0 \in 0..HookLimit /\ NoHook = 0 /\ hookIDCounter \in hookIDCounter..HookLimit
      /\ NoHook \notin publishHooks
  BY <1>1, ListenerAssumption DEF NoHook
<1>3. CASE TakeOldHook(s)
  <2> DEFINE pc == IF logHookID # NoHook THEN "remove" ELSE "add"
  <2>1. /\ SetupGo(s, pc, logHookID) /\ logHookID' = NoHook /\ setup[s].pc = "enter"
        /\ UNCHANGED <<publishHooks, hookIDCounter, start, leave, listenerVars>>
    BY <1>3 DEF TakeOldHook, hookVars
  <2>2. pc \in SetupPcs /\ (pc \in {"idle", "enter", "add"} => logHookID = NoHook)
    BY DEF SetupPcs
  <2> HIDE DEF pc
  <2>3. /\ HookIInv' /\ setup'[s].id = logHookID
        /\ \A t \in Setups : t # s => setup'[t] = setup[t]
    BY <1>1, <1>2, <2>1, <2>2, SetupGoes
  <2>4. HookKept
    BY <1>1, <1>2, <2>1, <2>3 DEF HookKept, Removable
  <2> QED
    BY <2>3, <2>4
<1>4. CASE RemoveOldHook(s)
  <2>1. /\ SetupGo(s, "add", NoHook) /\ publishHooks' = publishHooks \ {setup[s].id}
        /\ setup[s].pc = "remove"
        /\ UNCHANGED <<hookIDCounter, logHookID, start, leave, listenerVars>>
    BY <1>4 DEF RemoveOldHook
  <2>2. /\ HookIInv' /\ \A t \in Setups : t # s => setup'[t] = setup[t]
    BY <1>1, <1>2, <2>1, SetupGoes DEF SetupPcs
  <2>3. HookKept
    BY <2>1, <2>2 DEF HookKept, Removable
  <2> QED
    BY <2>2, <2>3
<1>5. CASE AddOutputHook(s)
  <2> DEFINE n == hookIDCounter + 1
  <2>1. /\ SetupGo(s, "record", n) /\ publishHooks' = publishHooks \cup {n}
        /\ hookIDCounter' = n /\ hookIDCounter < HookLimit /\ setup[s].pc = "add"
        /\ UNCHANGED <<logHookID, start, leave, listenerVars>>
    BY <1>5 DEF AddOutputHook
  <2>2. /\ n \in 0..HookLimit /\ n \in hookIDCounter..HookLimit
        /\ publishHooks \cup {n} \subseteq 1..n
    BY <1>1, <2>1, ListenerAssumption
  <2>3. /\ HookIInv' /\ setup'[s].id = n
        /\ \A t \in Setups : t # s => setup'[t] = setup[t]
    <3> HIDE DEF n
    <3> QED
      BY <1>1, <2>1, <2>2, SetupGoes DEF SetupPcs
  <2>4. HookKept
    BY <1>1, <1>2, <2>1, <2>3 DEF HookKept, Removable
  <2> QED
    BY <2>3, <2>4
<1>6. CASE RecordHook(s)
  <2>1. /\ SetupGo(s, "idle", NoHook) /\ logHookID' = setup[s].id /\ setup[s].pc = "record"
        /\ UNCHANGED <<publishHooks, hookIDCounter, start, leave, listenerVars>>
    BY <1>6 DEF RecordHook, hookVars
  <2>2. /\ HookIInv' /\ setup'[s].pc = "idle" /\ \A t \in Setups : t # s => setup'[t] = setup[t]
    BY <1>1, <1>2, <2>1, SetupGoes DEF SetupPcs
  <2>3. HookKept
    BY <2>1, <2>2 DEF HookKept, Removable
  <2> QED
    BY <2>2, <2>3
<1> QED
  BY <1>3, <1>4, <1>5, <1>6 DEF SetupStep

\* Disconnect takes the id with it, and the logger's end takes all hooks.
LEMMA LeavingKeeps ==
  ASSUME HookIInv, DisconnectListener \/ DisconnectClient \/ CloseLogger
  PROVE  HookIInv' /\ HookKept
<1>1. /\ UNCHANGED <<hookIDCounter, paired, adminPhone, setupKey, start, setup>>
      /\ isConnected' \in BOOLEAN /\ link' \in {"down", "up"} /\ logHookID' \in {logHookID, NoHook}
      /\ publishHooks' \subseteq publishHooks
  BY DEF DisconnectListener, DisconnectClient, CloseLogger, hookVars, listenerVars, HookIInv,
         WhatsAppTypeOK
<1>2. logHookID \in 0..HookLimit /\ 0 \in 0..HookLimit /\ leave \in [pc : LeavePcs, id : 0..HookLimit]
  BY ListenerAssumption DEF HookIInv, WhatsAppTypeOK, LeavePcs
<1>3. leave' \in [pc : LeavePcs, id : 0..HookLimit] /\ (leave'.pc = "idle" => leave'.id = NoHook)
  BY <1>2 DEF DisconnectListener, DisconnectClient, CloseLogger, LeavePcs, NoHook, HookIInv,
              HoldersRight
<1>4. HookIInv'
  <2>1. logHookID' \in 0..HookLimit
    BY <1>1, <1>2 DEF NoHook
  <2>2. WhatsAppTypeOK'
    BY <1>1, <1>3, <2>1 DEF HookIInv, WhatsAppTypeOK, LeavePcs
  <2> QED
    BY <1>1, <1>3, <2>2 DEF HookIInv, StartTyped, HoldersRight, HooksNumbered
<1>5. HookKept
  <2>1. NoHook \notin publishHooks
    BY DEF HookIInv, HooksNumbered, WhatsAppTypeOK, NoHook
  <2>2. CASE DisconnectListener
    <3>1. publishHooks' = publishHooks /\ setup' = setup /\ leave.pc = "idle" /\ leave.id = NoHook
          /\ \/ logHookID' = logHookID
             \/ leave'.id = logHookID
      BY <2>2 DEF DisconnectListener, hookVars, HookIInv, HoldersRight
    <3> QED
      BY <2>1, <3>1 DEF HookKept, Removable
  <2>3. CASE DisconnectClient
    BY <2>3 DEF DisconnectClient, HookKept, Removable
  <2>4. CASE CloseLogger
    BY <2>4 DEF CloseLogger, HookKept
  <2> QED
    BY <2>2, <2>3, <2>4
<1> QED
  BY <1>4, <1>5

\* Each step of the listener keeps the invariant and its hooks.
LEMMA ListenerInductive ==
  HookIInv /\ [WhatsAppNext]_waVars => HookIInv' /\ (WhatsAppNext => HookKept)
<1> SUFFICES ASSUME HookIInv, [WhatsAppNext]_waVars
             PROVE  HookIInv' /\ (WhatsAppNext => HookKept)
  OBVIOUS
<1>1. CASE WhatsAppNext
  BY <1>1, StartKeeps, SetupBegins, ExchangeKeeps, LeavingKeeps DEF WhatsAppNext
<1>2. CASE UNCHANGED waVars
  <2>1. HookIInv' /\ HookKept
    BY <1>2 DEF waVars, hookVars, listenerVars, HookIInv, WhatsAppTypeOK, StartTyped,
                HoldersRight, HooksNumbered, HookKept, Removable
  <2> QED
    BY <2>1
<1> QED
  BY <1>1, <1>2

\* The listener, the live log and the registry of hooks stay what they are, however
\* Start, the message with the key and Disconnect meet (client.go, processor.go).
THEOREM ListenerTyped == WhatsAppSpec => []WhatsAppTypeOK
<1>1. HookIInv => WhatsAppTypeOK
  BY DEF HookIInv
<1> QED
  BY <1>1, WhatsAppInitial, ListenerInductive, PTL DEF WhatsAppSpec

\* Whatever meets in the exchange of the live log's hook, one that nobody can remove
\* any more is left behind by nothing but a second exchange that records over it.
THEOREM HooksLostByExchange == WhatsAppSpec => HookLostByExchangeOnly
<1>1. HookIInv /\ [WhatsAppNext]_waVars =>
        [\A id \in publishHooks' :
           ~Removable(id)' =>
             \/ id \in publishHooks /\ ~Removable(id)
             \/ \E s \in Setups : /\ setup[s].pc = "record" /\ setup'[s].pc = "idle"
                                   /\ logHookID = id]_waVars
  BY ListenerInductive DEF HookKept
<1> QED
  BY <1>1, WhatsAppInitial, ListenerInductive, PTL DEF WhatsAppSpec, HookLostByExchangeOnly
=============================================================================
