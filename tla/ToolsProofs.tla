---------------------------- MODULE ToolsProofs ----------------------------
(***************************************************************************)
(* Proofs about the parts a run of the agent works with: the history of a  *)
(* session, for any runs, events and limits, and the type invariant of all *)
(* the parts where they are looked at together.                            *)
(***************************************************************************)
EXTENDS MCTools, ConnectionsProofs, FilesProofs, AnswersProofs, SequenceTheorems,
        WellFoundedInduction, TLAPS

-----------------------------------------------------------------------------
(* The shape of a history                                                  *)

Messages    == [kind : Kinds, n : Nat, size : Nat]
SpokenKinds == {"user", "text", "call", "result"}

\* The first k messages are the system's: the prompt, and after it the note of
\* manageContextWindow.  The others are the newest of the s that were said.
Shaped(h, k, s) ==
  /\ h \in Seq(Messages) /\ Len(h) > k
  /\ k >= 1 => h[1] = Prompt
  /\ k = 2 => h[2] = Info
  /\ \A i \in k + 1 .. Len(h) :
       h[i].kind \in SpokenKinds /\ h[i].n = s - (Len(h) - i)

\* The system's messages, and those that are not.
LEMMA SystemMessages ==
  /\ Prompt \in Messages /\ Info \in Messages /\ IsSystem(Prompt) /\ IsSystem(Info)
  /\ \A m \in Messages : m.kind \in SpokenKinds => ~IsSystem(m)
BY DEF Messages, Prompt, Info, Message, IsSystem, Role, Kinds, SpokenKinds

\* A history starts with a message of the system when it has one.
LEMMA SystemFirst ==
  ASSUME NEW h, NEW k \in 0..2, NEW s \in Nat, Shaped(h, k, s)
  PROVE  h # <<>> /\ h[1] \in Messages /\ (StartsSystem(h) <=> k >= 1)
<1>1. Len(h) \in Nat /\ Len(h) >= 1 /\ h # <<>>
  BY DEF Shaped
<1>2. h[1] \in Messages
  BY <1>1 DEF Shaped
<1>3. CASE k >= 1
  BY <1>1, <1>2, <1>3, SystemMessages DEF Shaped, StartsSystem
<1>4. CASE k = 0
  BY <1>1, <1>2, <1>4, SystemMessages DEF Shaped, StartsSystem
<1> QED
  BY <1>1, <1>2, <1>3, <1>4

\* The end of a history, from behind what the system has put first.
LEMMA EndShaped ==
  ASSUME NEW h, NEW k \in 0..2, NEW s \in Nat, Shaped(h, k, s),
         NEW from \in k + 1 .. Len(h)
  PROVE  Shaped(SubSeq(h, from, Len(h)), 0, s)
<1> DEFINE e == SubSeq(h, from, Len(h))
<1>1. h \in Seq(Messages) /\ Len(h) \in Nat /\ from \in 1..Len(h)
  BY DEF Shaped
<1>2. /\ e \in Seq(Messages) /\ Len(e) = Len(h) - from + 1
      /\ \A i \in 1..Len(e) : e[i] = h[from + i - 1]
  BY <1>1
<1> HIDE DEF e
<1>3. ASSUME NEW i \in 1..Len(e)
      PROVE  e[i].kind \in SpokenKinds /\ e[i].n = s - (Len(e) - i)
  <2>1. from + i - 1 \in k + 1 .. Len(h)
    BY <1>1, <1>2, <1>3
  <2>2. h[from + i - 1].n = s - (Len(h) - (from + i - 1))
    BY <2>1 DEF Shaped
  <2>3. Len(h) - (from + i - 1) = Len(e) - i
    BY <1>1, <1>2, <1>3
  <2> QED
    BY <1>2, <1>3, <2>1, <2>2, <2>3 DEF Shaped
<1> QED
  BY <1>1, <1>2, <1>3 DEF Shaped, e

\* What the system puts in front of what was said.
LEMMA FrontShaped ==
  ASSUME NEW h, NEW s \in Nat, Shaped(h, 0, s)
  PROVE  Shaped(<<Prompt>> \o h, 1, s) /\ Shaped(<<Prompt>> \o <<Info>> \o h, 2, s)
<1>1. h \in Seq(Messages) /\ Len(h) \in Nat
  BY DEF Shaped
<1>2. ASSUME NEW f \in Seq(Messages), Len(f) \in {1, 2}, f[1] = Prompt,
             Len(f) = 2 => f[2] = Info
      PROVE  Shaped(f \o h, Len(f), s)
  <2> DEFINE g == f \o h
  <2>1. /\ g \in Seq(Messages) /\ Len(g) = Len(f) + Len(h)
        /\ \A i \in 1..Len(f) : g[i] = f[i]
        /\ \A i \in Len(f) + 1 .. Len(g) : g[i] = h[i - Len(f)]
    BY <1>1, <1>2
  <2> HIDE DEF g
  <2>2. ASSUME NEW i \in Len(f) + 1 .. Len(g)
        PROVE  g[i].kind \in SpokenKinds /\ g[i].n = s - (Len(g) - i)
    <3>1. i - Len(f) \in 1..Len(h) /\ Len(h) - (i - Len(f)) = Len(g) - i
      BY <1>1, <1>2, <2>1, <2>2
    <3>2. /\ h[i - Len(f)].kind \in SpokenKinds
          /\ h[i - Len(f)].n = s - (Len(h) - (i - Len(f)))
      BY <3>1 DEF Shaped
    <3> QED
      BY <2>1, <2>2, <3>1, <3>2
  <2>3. Len(g) > Len(f)
    BY <1>1, <1>2, <2>1 DEF Shaped
  <2> QED
    BY <1>2, <2>1, <2>2, <2>3 DEF Shaped, g
<1>3. Shaped(<<Prompt>> \o h, 1, s)
  <2> DEFINE f == <<Prompt>>
  <2>1. f \in Seq(Messages) /\ Len(f) = 1 /\ f[1] = Prompt
    BY SystemMessages
  <2> HIDE DEF f
  <2>2. Len(f) \in {1, 2} /\ (Len(f) = 2 => f[2] = Info)
    BY <2>1
  <2>3. Shaped(f \o h, Len(f), s)
    BY <1>2, <2>1, <2>2
  <2> QED
    BY <2>1, <2>3 DEF f
<1>4. Shaped(<<Prompt>> \o <<Info>> \o h, 2, s)
  <2> DEFINE f == <<Prompt>> \o <<Info>>
  <2>1. f \in Seq(Messages) /\ Len(f) = 2 /\ f[1] = Prompt /\ f[2] = Info
    BY SystemMessages
  <2> HIDE DEF f
  <2>2. Len(f) \in {1, 2} /\ (Len(f) = 2 => f[2] = Info)
    BY <2>1
  <2>3. Shaped(f \o h, Len(f), s)
    BY <1>2, <2>1, <2>2
  <2> QED
    BY <2>1, <2>3 DEF f
<1> QED
  BY <1>3, <1>4

\* A history a run or an event can find: a shaped one, with at least so many messages
\* of the system.
InShape(h, s, least) == \E k \in least..2 : Shaped(h, k, s)

\* Of the numbers in a set there is a smallest one.
LEMMA SmallestOf ==
  ASSUME NEW S \in SUBSET Nat, S # {}
  PROVE  \E i \in S : \A j \in S : i <= j
<1>1. PICK i \in S : \A j \in S : <<j, i>> \notin OpToRel(<, Nat)
  BY NatLessThanWellFounded, WFMin, Zenon
<1>2. \A j \in S : ~(j < i)
  BY <1>1 DEF OpToRel
<1> QED
  BY <1>2

\* Of the places in a history there is a last one.
LEMMA LargestOf ==
  ASSUME NEW n \in Nat, NEW S \in SUBSET (1..n), S # {}
  PROVE  \E i \in S : \A j \in S : j <= i
<1> DEFINE FromEnd == {n - j : j \in S}
<1>1. FromEnd \in SUBSET Nat /\ FromEnd # {}
  <2>1. \A j \in S : n - j \in Nat
    OBVIOUS
  <2>2. FromEnd \in SUBSET Nat
    BY <2>1
  <2>3. PICK j \in S : TRUE
    OBVIOUS
  <2>4. n - j \in FromEnd
    BY <2>3
  <2> QED
    BY <2>2, <2>4
<1>2. PICK d \in FromEnd : \A e \in FromEnd : d <= e
  BY <1>1, SmallestOf
<1>3. PICK i \in S : d = n - i
  BY <1>2
<1>4. \A j \in S : n - j \in FromEnd
  OBVIOUS
<1>5. \A j \in S : n - i <= n - j
  BY <1>2, <1>3, <1>4
<1> QED
  BY <1>5

\* trimHistory leaves the system's first message and the newest ones.
LEMMA TrimShaped ==
  ASSUME NEW h, NEW s \in Nat, NEW least \in 0..1, InShape(h, s, least)
  PROVE  InShape(TrimHistory(h), s, least)
<1>1. PICK k \in least..2 : Shaped(h, k, s)
  BY DEF InShape
<1>2. CASE Len(h) <= MaxHistoryMessages
  BY <1>2 DEF TrimHistory
<1>3. CASE ~(Len(h) <= MaxHistoryMessages)
  <2>1. Len(h) \in Nat /\ MaxHistoryMessages \in Nat /\ MaxHistoryMessages >= 2
    BY <1>1, ConversationAssumption DEF Shaped
  <2>2. StartsSystem(h) <=> k >= 1
    BY <1>1, SystemFirst
  <2>3. CASE k = 0
    <3> DEFINE from == Len(h) - MaxHistoryMessages + 1
    <3>1. from \in k + 1 .. Len(h)
      BY <1>3, <2>1, <2>3
    <3>a. ~StartsSystem(h)
      BY <2>2, <2>3
    <3>2. TrimHistory(h) = SubSeq(h, from, Len(h))
      BY <1>3, <3>a DEF TrimHistory, LastOf
    <3>3. Shaped(SubSeq(h, from, Len(h)), 0, s)
      BY <1>1, <3>1, EndShaped
    <3> QED
      BY <1>1, <2>3, <3>2, <3>3 DEF InShape
  <2>4. CASE k >= 1
    <3> DEFINE from == Len(h) - (MaxHistoryMessages - 1) + 1
    <3>1. from \in k + 1 .. Len(h)
      BY <1>1, <1>3, <2>1, <2>4
    <3>2. TrimHistory(h) = <<Prompt>> \o SubSeq(h, from, Len(h))
      BY <1>1, <1>3, <2>2, <2>4 DEF TrimHistory, LastOf, Shaped
    <3>3. Shaped(SubSeq(h, from, Len(h)), 0, s)
      BY <1>1, <3>1, EndShaped
    <3>4. Shaped(<<Prompt>> \o SubSeq(h, from, Len(h)), 1, s)
      BY <3>3, FrontShaped
    <3> QED
      BY <3>2, <3>4 DEF InShape
  <2> QED
    BY <2>3, <2>4
<1> QED
  BY <1>2, <1>3

\* refreshSystemPrompt puts the prompt first, in place of an older one if there is one.
LEMMA RefreshShaped ==
  ASSUME NEW h, NEW s \in Nat, InShape(h, s, 0)
  PROVE  InShape(RefreshPrompt(h), s, 1)
<1>1. PICK k \in 0..2 : Shaped(h, k, s)
  BY DEF InShape
<1>2. StartsSystem(h) <=> k >= 1
  BY <1>1, SystemFirst
<1>3. CASE k = 0
  <2>1. Shaped(<<Prompt>> \o h, 1, s)
    BY <1>1, <1>3, FrontShaped
  <2> QED
    BY <1>2, <1>3, <2>1 DEF RefreshPrompt, InShape
<1>4. CASE k >= 1
  <2>1. h \in Seq(Messages) /\ h[1] = Prompt /\ Len(h) \in Nat /\ Len(h) >= 1
    BY <1>1, <1>4 DEF Shaped
  <2>2. [h EXCEPT ![1] = Prompt] = h
    BY <2>1
  <2>3. RefreshPrompt(h) = h
    BY <1>2, <1>4, <2>2 DEF RefreshPrompt
  <2> QED
    BY <1>1, <1>4, <2>3 DEF InShape
<1> QED
  <2>1. k = 0 \/ k >= 1
    OBVIOUS
  <2> QED
    BY <1>3, <1>4, <2>1

\* manageContextWindow: the history, or its first message, a note and its end.
LEMMA ManageParts ==
  ASSUME NEW h \in Seq(Messages), ManageContext(h) # h
  PROVE  /\ StartsSystem(h)
         /\ \E from \in 1..Len(h) - 1 :
              ManageContext(h) = <<h[1]>> \o (IF from > 1 THEN <<Info>> ELSE <<>>)
                                         \o SubSeq(h, from + 1, Len(h))
<1> DEFINE rest == Tail(h)
           fits == {i \in 1..Len(rest) :
                      h[1].size + TotalChars(SubSeq(rest, i, Len(rest))) <= ContextLimit}
           from == IF fits = {} THEN Len(rest)
                   ELSE CHOOSE i \in fits : \A j \in fits : i <= j
<1>1. /\ ManageContext(h) = <<h[1]>> \o (IF from > 1 THEN <<Info>> ELSE <<>>)
                                   \o SubSeq(rest, from, Len(rest))
      /\ StartsSystem(h) /\ rest # <<>>
  BY DEF ManageContext
<1>2. h # <<>>
  BY <1>1 DEF StartsSystem
<1>3. /\ rest \in Seq(Messages) /\ Len(rest) = Len(h) - 1 /\ Len(h) \in Nat /\ Len(rest) >= 1
      /\ \A i \in 1..Len(rest) : rest[i] = h[i + 1]
  <2>1. /\ rest \in Seq(Messages) /\ Len(rest) = Len(h) - 1 /\ Len(h) \in Nat /\ Len(h) >= 1
        /\ \A i \in 1..Len(rest) : rest[i] = h[i + 1]
    BY <1>2, HeadTailProperties
  <2>2. rest # <<>>
    BY <1>1
  <2> HIDE DEF rest, fits, from
  <2>3. Len(rest) >= 1
    BY <2>1, <2>2
  <2> QED
    BY <2>1, <2>3, Zenon
<1>4. from \in 1..Len(rest)
  <2>1. CASE fits = {}
    BY <1>3, <2>1
  <2>2. CASE fits # {}
    <3>1. fits \in SUBSET Nat
      BY <1>3
    <3>2. \E i \in fits : \A j \in fits : i <= j
      BY <2>2, <3>1, SmallestOf
    <3> HIDE DEF fits
    <3>3. from \in fits
      BY <2>2, <3>2
    <3> QED
      BY <3>3 DEF fits
  <2> QED
    BY <2>1, <2>2
<1> HIDE DEF from, rest
<1>5. SubSeq(rest, from, Len(rest)) = SubSeq(h, from + 1, Len(h))
  BY <1>2, <1>3, <1>4, SubSeqProperties, SeqEqual
<1> QED
  BY <1>1, <1>3, <1>4, <1>5

\* manageContextWindow leaves the prompt, the last message and the newest that fit.
LEMMA ManageShaped ==
  ASSUME NEW h, NEW s \in Nat, NEW least \in 0..1, InShape(h, s, least)
  PROVE  InShape(ManageContext(h), s, least)
<1>1. PICK k \in least..2 : Shaped(h, k, s)
  BY DEF InShape
<1>a. k \in 0..2
  OBVIOUS
<1>2. CASE ManageContext(h) = h
  BY <1>2
<1>3. CASE ManageContext(h) # h
  <2>1. k >= 1 /\ h[1] = Prompt /\ h \in Seq(Messages) /\ h # <<>> /\ Len(h) > k
    <3>1. h \in Seq(Messages) /\ h # <<>> /\ Len(h) > k
      BY <1>1, <1>a, SystemFirst DEF Shaped
    <3>2. StartsSystem(h)
      BY <1>3, <3>1, ManageParts
    <3> QED
      BY <1>1, <1>a, <3>1, <3>2, SystemFirst DEF Shaped
  <2>2. PICK from \in 1..Len(h) - 1 :
           ManageContext(h) = <<Prompt>> \o (IF from > 1 THEN <<Info>> ELSE <<>>)
                                        \o SubSeq(h, from + 1, Len(h))
    BY <1>3, <2>1, ManageParts
  <2>3. Len(h) \in Nat
    BY <2>1
  <2>4. CASE from + 1 \in k + 1 .. Len(h)
    <3> DEFINE e == SubSeq(h, from + 1, Len(h))
    <3>1. Shaped(e, 0, s)
      BY <1>1, <2>4, EndShaped
    <3>2. e \in Seq(Messages)
      BY <3>1 DEF Shaped
    <3> HIDE DEF e
    <3>3. CASE from > 1
      <4>1. ManageContext(h) = <<Prompt>> \o <<Info>> \o e
        BY <2>2, <3>3 DEF e
      <4>2. Shaped(ManageContext(h), 2, s)
        BY <3>1, <4>1, FrontShaped
      <4> QED
        BY <4>2 DEF InShape
    <3>4. CASE ~(from > 1)
      <4>1. ManageContext(h) = <<Prompt>> \o <<>> \o e
        BY <2>2, <3>4 DEF e
      <4>2. <<Prompt>> \o <<>> = <<Prompt>>
        BY SystemMessages, ConcatEmptySeq
      <4> QED
        BY <3>1, <4>1, <4>2, FrontShaped DEF InShape
    <3> QED
      BY <3>3, <3>4
  <2>5. CASE from + 1 \notin k + 1 .. Len(h)
    <3>1. from = 1 /\ k = 2
      BY <2>1, <2>3, <2>5
    <3>2. ManageContext(h) = <<Prompt>> \o <<>> \o SubSeq(h, 2, Len(h))
      BY <2>2, <3>1
    <3>3. <<Prompt>> \o <<>> \o SubSeq(h, 2, Len(h)) = h
      BY <2>1, <2>3, SystemMessages, SubSeqProperties, ConcatProperties, ConcatEmptySeq, SeqEqual
    <3> QED
      BY <1>3, <3>2, <3>3
  <2> QED
    BY <2>4, <2>5
<1> QED
  BY <1>2, <1>3

\* What is said comes at the end, with the next numbers.
LEMMA SaidShaped ==
  ASSUME NEW h, NEW s \in Nat, NEW least \in 0..1,
         InShape(h, s, least) \/ (h = <<>> /\ s = 0 /\ least = 0),
         NEW e \in Seq(Messages), Len(e) >= 1,
         \A i \in 1..Len(e) : e[i].kind \in SpokenKinds /\ e[i].n = s + i
  PROVE  InShape(h \o e, s + Len(e), least)
<1>0. Len(e) \in Nat
  OBVIOUS
<1>1. CASE InShape(h, s, least)
  <2>1. PICK k \in least..2 : Shaped(h, k, s)
    BY <1>1 DEF InShape
  <2> DEFINE g == h \o e
  <2>2. h \in Seq(Messages) /\ Len(h) \in Nat /\ Len(h) > k
    BY <2>1 DEF Shaped
  <2>3. /\ g \in Seq(Messages) /\ Len(g) = Len(h) + Len(e)
        /\ \A i \in 1..Len(h) : g[i] = h[i]
        /\ \A i \in Len(h) + 1 .. Len(g) : g[i] = e[i - Len(h)]
    BY <1>0, <2>2
  <2> HIDE DEF g
  <2>4. Len(g) > k /\ (k >= 1 => g[1] = Prompt) /\ (k = 2 => g[2] = Info)
    <3>1. k >= 1 => g[1] = h[1]
      BY <2>2, <2>3
    <3>2. k = 2 => g[2] = h[2]
      BY <2>2, <2>3
    <3>3. Len(g) > k
      BY <1>0, <2>2, <2>3
    <3> QED
      BY <2>1, <3>1, <3>2, <3>3 DEF Shaped
  <2>5. ASSUME NEW i \in k + 1 .. Len(g)
        PROVE  g[i].kind \in SpokenKinds /\ g[i].n = s + Len(e) - (Len(g) - i)
    <3>1. CASE i <= Len(h)
      <4>1. h[i].kind \in SpokenKinds /\ h[i].n = s - (Len(h) - i)
        BY <2>1, <2>2, <2>5, <3>1 DEF Shaped
      <4>2. s - (Len(h) - i) = s + Len(e) - (Len(g) - i) /\ g[i] = h[i]
        BY <1>0, <2>2, <2>3, <2>5, <3>1
      <4> QED
        BY <4>1, <4>2
    <3>2. CASE ~(i <= Len(h))
      <4>1. i - Len(h) \in 1..Len(e) /\ g[i] = e[i - Len(h)]
        BY <1>0, <2>2, <2>3, <2>5, <3>2
      <4>2. s + (i - Len(h)) = s + Len(e) - (Len(g) - i)
        BY <1>0, <2>2, <2>3, <2>5
      <4> QED
        BY <4>1, <4>2
    <3> QED
      BY <3>1, <3>2
  <2>6. Shaped(g, k, s + Len(e))
    BY <2>3, <2>4, <2>5 DEF Shaped
  <2> QED
    BY <2>1, <2>6 DEF InShape, g
<1>2. CASE h = <<>> /\ s = 0 /\ least = 0
  <2>1. h \o e = e
    BY <1>2, ConcatEmptySeq
  <2>2. \A i \in 0 + 1 .. Len(e) : e[i].n = Len(e) - (Len(e) - i)
    BY <1>0, <1>2
  <2>3. Shaped(e, 0, Len(e))
    BY <1>0, <2>2 DEF Shaped
  <2> QED
    BY <1>0, <1>2, <2>1, <2>3 DEF InShape
<1> QED
  BY <1>1, <1>2

-----------------------------------------------------------------------------
(* The conversation                                                        *)

TalkPcs == {"new", "planned", "step", "shrunk", "asking", "tools", "order", "left"}

\* From its first step on a run has the prompt in its session.
Stepping == {"step", "shrunk", "asking", "tools", "order"}
Least    == IF \E t \in Talkers : talk[t].pc \in Stepping THEN 1 ELSE 0

\* Nothing is said before the first run.
Silent ==
  history = <<>> /\ said = 0 /\ \A t \in Talkers : talk[t].pc = "new"

TalkTyped ==
  /\ said \in 0..MaxSaid /\ joined \in BOOLEAN
  /\ talk \in [Talkers -> [pc : TalkPcs, first : BOOLEAN]]
  /\ event \in [Events -> {"new", "told", "done"}]

AskedShaped == asked = <<>> \/ \E s \in Nat : InShape(asked, s, 1)

TalkIInv ==
  TalkTyped /\ AskedShaped /\ (Silent \/ InShape(history, said, Least))

LEMMA TalkInitial == TalkInit => TalkIInv
<1> SUFFICES ASSUME TalkInit PROVE TalkIInv
  OBVIOUS
<1>1. MaxSaid \in Nat
  BY ConversationAssumption
<1>2. talk \in [Talkers -> [pc : TalkPcs, first : BOOLEAN]]
  BY DEF TalkInit, TalkPcs
<1>3. TalkTyped
  <2>1. said \in 0..MaxSaid
    BY <1>1 DEF TalkInit
  <2>2. event \in [Events -> {"new", "told", "done"}] /\ joined \in BOOLEAN
    BY DEF TalkInit
  <2> QED
    BY <1>2, <2>1, <2>2 DEF TalkTyped
<1>4. AskedShaped /\ Silent
  BY DEF TalkInit, AskedShaped, Silent
<1> QED
  BY <1>3, <1>4 DEF TalkIInv

\* A shaped history is one too where less is asked of it.
LEMMA ShapeWeakens ==
  ASSUME NEW h, NEW s, NEW p \in 0..1, NEW q \in 0..1, InShape(h, s, p), q <= p
  PROVE  InShape(h, s, q)
BY DEF InShape

\* Say, in a session that is shaped or silent.
LEMMA SayShaped ==
  ASSUME TalkIInv, NEW kinds \in Seq(SpokenKinds), NEW sizes \in Seq(Nat),
         Len(sizes) = Len(kinds), Len(kinds) >= 1, Say(kinds, sizes)
  PROVE  said' \in 0..MaxSaid /\ InShape(history', said', Least)
<1> DEFINE e == [i \in 1..Len(kinds) |-> Message(kinds[i], said + i, sizes[i])]
<1>1. said \in Nat /\ Len(kinds) \in Nat /\ MaxSaid \in Nat
  BY ConversationAssumption DEF TalkIInv, TalkTyped
<1>2. /\ said + Len(kinds) <= MaxSaid /\ said' = said + Len(kinds)
      /\ history' = TrimHistory(history \o e)
  BY DEF Say
<1>3. ASSUME NEW i \in 1..Len(kinds)
      PROVE  /\ e[i] \in Messages /\ e[i].kind \in SpokenKinds /\ e[i].n = said + i
  <2>1. kinds[i] \in SpokenKinds /\ sizes[i] \in Nat /\ said + i \in Nat
    BY <1>1, <1>3
  <2>2. e[i] = [kind |-> kinds[i], n |-> said + i, size |-> sizes[i]]
    BY DEF Message
  <2> QED
    BY <2>1, <2>2 DEF Messages, SpokenKinds, Kinds
<1>4. e \in Seq(Messages) /\ Len(e) = Len(kinds)
  BY <1>1, <1>3
<1> HIDE DEF e
<1>5. Least \in 0..1 /\ (Silent => history = <<>> /\ said = 0 /\ Least = 0)
  BY DEF Silent, Least, Stepping
<1>6. InShape(history \o e, said + Len(e), Least)
  <2>1. \/ InShape(history, said, Least)
        \/ history = <<>> /\ said = 0 /\ Least = 0
    BY <1>5 DEF TalkIInv
  <2>2. Len(e) >= 1 /\ \A i \in 1..Len(e) : e[i].kind \in SpokenKinds /\ e[i].n = said + i
    BY <1>3, <1>4
  <2>3. said \in Nat /\ Least \in 0..1 /\ e \in Seq(Messages)
    BY <1>1, <1>4, <1>5
  <2> QED
    BY <2>1, <2>2, <2>3, SaidShaped, Zenon
<1>7. InShape(history', said', Least)
  BY <1>1, <1>2, <1>4, <1>5, <1>6, TrimShaped
<1> QED
  BY <1>1, <1>2, <1>7

\* A run that goes on needs the prompt only if it did before, or has just put it.
LEMMA TurnTyped ==
  ASSUME TalkIInv, NEW t \in Talkers, NEW r \in [pc : TalkPcs, first : BOOLEAN],
         talk' = [talk EXCEPT ![t] = r], r.pc # "new"
  PROVE  /\ talk' \in [Talkers -> [pc : TalkPcs, first : BOOLEAN]]
         /\ talk[t].pc \in Stepping \/ r.pc \notin Stepping => Least' <= Least
<1>1. talk' \in [Talkers -> [pc : TalkPcs, first : BOOLEAN]]
      /\ talk'[t] = r /\ \A o \in Talkers \ {t} : talk'[o] = talk[o]
  BY DEF TalkIInv, TalkTyped
<1>2. ASSUME talk[t].pc \in Stepping \/ r.pc \notin Stepping
      PROVE  Least' <= Least
  <2>1. (\E o \in Talkers : talk'[o].pc \in Stepping) => \E o \in Talkers : talk[o].pc \in Stepping
    BY <1>1, <1>2
  <2> QED
    BY <2>1 DEF Least
<1> QED
  BY <1>1, <1>2

\* A step after which the history has a shape that is enough for every run.
LEMMA ShapeKept ==
  ASSUME TalkIInv, said' \in 0..MaxSaid, joined' \in BOOLEAN,
         talk' \in [Talkers -> [pc : TalkPcs, first : BOOLEAN]],
         event' \in [Events -> {"new", "told", "done"}], UNCHANGED asked,
         NEW least \in 0..1, InShape(history', said', least), Least' <= least
  PROVE  TalkIInv'
<1>1. Least' \in 0..1
  BY DEF Least
<1>2. InShape(history', said', Least')
  BY <1>1, ShapeWeakens
<1>3. InShape(history, said, Least)'
  BY <1>2 DEF InShape, Shaped
<1>4. AskedShaped'
  BY DEF TalkIInv, AskedShaped, InShape, Shaped
<1> QED
  BY <1>3, <1>4 DEF TalkIInv, TalkTyped

\* A session in which a run is has a history; it starts with the prompt if one is
\* in its steps.
LEMMA RunsHaveHistory ==
  ASSUME TalkIInv, NEW t \in Talkers, talk[t].pc # "new"
  PROVE  InShape(history, said, Least) /\ (talk[t].pc \in Stepping => Least = 1)
BY DEF TalkIInv, Silent, Least

\* Each step of a run keeps the shape.
LEMMA TalkStepKept ==
  ASSUME TalkIInv, NEW t \in Talkers, TalkStep(t)
  PROVE  TalkIInv'
<1>0. /\ TalkTyped /\ said \in Nat /\ Least \in 0..1 /\ Sizes \subseteq Nat
      /\ talk[t] \in [pc : TalkPcs, first : BOOLEAN]
  BY ConversationAssumption DEF TalkIInv, TalkTyped, Least
\* The run's record, of a run that takes a turn.
<1>a. ASSUME NEW pc \in TalkPcs \ {"new"}, Turning(t, pc),
             talk[t].pc \in Stepping \/ pc \notin Stepping
      PROVE  talk' \in [Talkers -> [pc : TalkPcs, first : BOOLEAN]] /\ Least' <= Least
  <2> DEFINE r == [talk[t] EXCEPT !.pc = pc]
  <2>1. r \in [pc : TalkPcs, first : BOOLEAN] /\ r.pc = pc
    BY <1>0
  <2>2. talk' = [talk EXCEPT ![t] = r]
    BY <1>a DEF Turning
  <2> HIDE DEF r
  <2> QED
    BY <1>a, <2>1, <2>2, TurnTyped
<1>b. ASSUME NEW pc \in TalkPcs \ {"new"}, talk' = [talk EXCEPT ![t] = [first |-> FALSE, pc |-> pc]],
             talk[t].pc \in Stepping
      PROVE  talk' \in [Talkers -> [pc : TalkPcs, first : BOOLEAN]] /\ Least' <= Least
  <2> DEFINE r == [first |-> FALSE, pc |-> pc]
  <2>1. r \in [pc : TalkPcs, first : BOOLEAN] /\ r.pc = pc
    OBVIOUS
  <2>2. talk' = [talk EXCEPT ![t] = r]
    BY <1>b
  <2> HIDE DEF r
  <2> QED
    BY <1>b, <2>1, <2>2, TurnTyped
\* What one message, or none but results, does to the history.
<1>c. ASSUME NEW kind \in SpokenKinds, NEW size \in Sizes, Say(<<kind>>, <<size>>)
      PROVE  said' \in 0..MaxSaid /\ InShape(history', said', Least)
  <2> DEFINE kinds == <<kind>>
             sizes == <<size>>
  <2>1. /\ kinds \in Seq(SpokenKinds) /\ sizes \in Seq(Nat)
        /\ Len(sizes) = Len(kinds) /\ Len(kinds) >= 1
    BY <1>0
  <2>2. Say(kinds, sizes)
    BY <1>c
  <2> HIDE DEF kinds, sizes
  <2> QED
    BY <2>1, <2>2, SayShaped
<1>d. ASSUME NEW sizes \in SeqOf(Sizes, 2) \ {<<>>},
             Say([i \in 1..Len(sizes) |-> "result"], sizes)
      PROVE  said' \in 0..MaxSaid /\ InShape(history', said', Least)
  <2> DEFINE kinds == [i \in 1..Len(sizes) |-> "result"]
  <2>1. PICK m \in 0..2 : sizes \in [1..m -> Sizes]
    BY DEF SeqOf
  <2>2. m # 0
    BY <2>1
  <2>3. sizes \in Seq(Nat) /\ Len(sizes) = m
    <3>1. sizes = [i \in 1..m |-> sizes[i]] /\ \A i \in 1..m : sizes[i] \in Nat
      BY <1>0, <2>1
    <3>2. m \in Nat
      BY <2>1
    <3> QED
      BY <3>1, <3>2
  <2>4. kinds \in Seq(SpokenKinds) /\ Len(kinds) = m
    BY <2>3 DEF SpokenKinds
  <2>5. Say(kinds, sizes)
    BY <1>d
  <2> HIDE DEF kinds
  <2>6. Len(sizes) = Len(kinds) /\ Len(kinds) >= 1
    BY <2>1, <2>2, <2>3, <2>4
  <2> QED
    BY <2>3, <2>4, <2>5, <2>6, SayShaped
<1>1. CASE SayInput(t)
  <2>1. said' \in 0..MaxSaid /\ InShape(history', said', Least)
    BY <1>1, <1>c DEF SayInput, SpokenKinds
  <2>2. talk' \in [Talkers -> [pc : TalkPcs, first : BOOLEAN]] /\ Least' <= Least
    BY <1>1, <1>a DEF SayInput, TalkPcs, Stepping
  <2> QED
    BY <1>0, <1>1, <2>1, <2>2, ShapeKept DEF SayInput, TalkTyped
<1>2. CASE PutPrompt(t)
  <2>1. InShape(history, said, Least) /\ talk[t].pc = "planned"
    BY <1>2, RunsHaveHistory DEF PutPrompt
  <2>2. InShape(history', said', 1)
    <3>1. InShape(history, said, 0)
      BY <1>0, <2>1, ShapeWeakens
    <3> QED
      BY <1>0, <1>2, <3>1, RefreshShaped DEF PutPrompt
  <2>3. talk' \in [Talkers -> [pc : TalkPcs, first : BOOLEAN]]
    BY <1>0, <1>2 DEF PutPrompt, Turning, TalkTyped, TalkPcs
  <2>4. Least' <= 1
    BY DEF Least
  <2> QED
    BY <1>0, <1>2, <2>2, <2>3, <2>4, ShapeKept DEF PutPrompt, TalkTyped
<1>3. CASE Leave(t)
  <2>1. InShape(history, said, Least)
    BY <1>3, RunsHaveHistory DEF Leave
  <2>2. talk' \in [Talkers -> [pc : TalkPcs, first : BOOLEAN]] /\ Least' <= Least
    BY <1>3, <1>a DEF Leave, TalkPcs, Stepping
  <2> QED
    BY <1>0, <1>3, <2>1, <2>2, ShapeKept DEF Leave, TalkTyped
<1>4. CASE ShrinkContext(t)
  <2>1. InShape(history, said, Least)
    BY <1>4, RunsHaveHistory DEF ShrinkContext
  <2>2. InShape(history', said', Least)
    BY <1>0, <1>4, <2>1, ManageShaped DEF ShrinkContext
  <2>3. talk' \in [Talkers -> [pc : TalkPcs, first : BOOLEAN]] /\ Least' <= Least
    BY <1>4, <1>a DEF ShrinkContext, TalkPcs, Stepping
  <2> QED
    BY <1>0, <1>4, <2>2, <2>3, ShapeKept DEF ShrinkContext, TalkTyped
<1>5. CASE AskBrain(t)
  <2>1. InShape(history, said, 1) /\ Least = 1
    BY <1>5, RunsHaveHistory DEF AskBrain, Stepping
  <2>2. talk' \in [Talkers -> [pc : TalkPcs, first : BOOLEAN]] /\ Least' <= Least
    BY <1>5, <1>a DEF AskBrain, TalkPcs, Stepping
  <2>3. asked' = history
    BY <1>5 DEF AskBrain
  <2>4. AskedShaped'
    BY <1>0, <2>1, <2>3 DEF AskedShaped, InShape, Shaped
  <2>5. InShape(history, said, Least)'
    <3>1. Least' \in 0..1
      BY DEF Least
    <3>2. InShape(history, said, Least')
      BY <1>0, <2>1, <2>2, <3>1, ShapeWeakens
    <3> QED
      BY <1>5, <3>2 DEF AskBrain, InShape, Shaped
  <2> QED
    BY <1>0, <1>5, <2>2, <2>4, <2>5 DEF AskBrain, TalkIInv, TalkTyped
<1>6. CASE AnswerCalls(t)
  <2>1. said' \in 0..MaxSaid /\ InShape(history', said', Least)
    BY <1>6, <1>c DEF AnswerCalls, SpokenKinds
  <2>2. talk' \in [Talkers -> [pc : TalkPcs, first : BOOLEAN]] /\ Least' <= Least
    BY <1>6, <1>a DEF AnswerCalls, TalkPcs, Stepping
  <2> QED
    BY <1>0, <1>6, <2>1, <2>2, ShapeKept DEF AnswerCalls, TalkTyped
<1>7. CASE AnswerText(t)
  <2>1. said' \in 0..MaxSaid /\ InShape(history', said', Least)
    BY <1>7, <1>c DEF AnswerText, SpokenKinds
  <2>2. talk' \in [Talkers -> [pc : TalkPcs, first : BOOLEAN]] /\ Least' <= Least
    <3>1. talk[t].pc \in Stepping
      BY <1>7 DEF AnswerText, Stepping
    <3>2. CASE Turning(t, "left")
      BY <3>1, <3>2, <1>a DEF TalkPcs
    <3>3. ASSUME NEW pc \in {"step", "order"},
                 talk' = [talk EXCEPT ![t] = [first |-> FALSE, pc |-> pc]]
          PROVE  talk' \in [Talkers -> [pc : TalkPcs, first : BOOLEAN]] /\ Least' <= Least
      BY <3>1, <3>3, <1>b DEF TalkPcs
    <3> QED
      BY <1>7, <3>2, <3>3 DEF AnswerText
  <2> QED
    BY <1>0, <1>7, <2>1, <2>2, ShapeKept DEF AnswerText, TalkTyped
<1>8. CASE GiveOrder(t)
  <2>1. said' \in 0..MaxSaid /\ InShape(history', said', Least)
    <3> DEFINE kinds == <<"user">>
               sizes == <<1>>
    <3>1. /\ kinds \in Seq(SpokenKinds) /\ sizes \in Seq(Nat)
          /\ Len(sizes) = Len(kinds) /\ Len(kinds) >= 1
      BY DEF SpokenKinds
    <3>2. Say(kinds, sizes)
      BY <1>8 DEF GiveOrder
    <3> HIDE DEF kinds, sizes
    <3> QED
      BY <3>1, <3>2, SayShaped
  <2>2. talk' \in [Talkers -> [pc : TalkPcs, first : BOOLEAN]] /\ Least' <= Least
    BY <1>8, <1>a DEF GiveOrder, TalkPcs, Stepping
  <2> QED
    BY <1>0, <1>8, <2>1, <2>2, ShapeKept DEF GiveOrder, TalkTyped
<1>9. CASE TakeResults(t)
  <2>1. talk[t].pc = "tools" /\ talk' = [talk EXCEPT ![t] = [first |-> FALSE, pc |-> "step"]]
    BY <1>9 DEF TakeResults
  <2>2. talk' \in [Talkers -> [pc : TalkPcs, first : BOOLEAN]] /\ Least' <= Least
    BY <2>1, <1>b DEF TalkPcs, Stepping
  <2>3. said' \in 0..MaxSaid /\ InShape(history', said', Least)
    <3>1. CASE UNCHANGED <<history, said>>
      BY <1>0, <2>1, <3>1, RunsHaveHistory DEF TalkTyped
    <3> QED
      BY <1>9, <1>d, <3>1 DEF TakeResults
  <2> QED
    BY <1>0, <1>9, <2>2, <2>3, ShapeKept DEF TakeResults, TalkTyped
<1> QED
  BY <1>1, <1>2, <1>3, <1>4, <1>5, <1>6, <1>7, <1>8, <1>9 DEF TalkStep

LEMMA TalkInductive == TalkIInv /\ [TalkNext]_talkVars => TalkIInv'
<1> SUFFICES ASSUME TalkIInv, [TalkNext]_talkVars
             PROVE  TalkIInv'
  OBVIOUS
<1>0. TalkTyped /\ said \in Nat /\ MaxSaid \in Nat /\ Least \in 0..1 /\ Sizes \subseteq Nat
  BY ConversationAssumption DEF TalkIInv, TalkTyped, Least
<1>1. ASSUME NEW e \in Events, TellEvent(e)
      PROVE  TalkIInv'
  <2>1. InShape(history, said, Least)
    BY <1>1, RunsHaveHistory DEF TellEvent
  <2>2. PICK size \in Sizes : history' = Append(history, Message("user", said + 1, size))
    BY <1>1 DEF TellEvent
  <2> DEFINE m == <<Message("user", said + 1, size)>>
  <2>3. /\ m \in Seq(Messages) /\ Len(m) = 1
        /\ m[1].kind \in SpokenKinds /\ m[1].n = said + 1
    BY <1>0 DEF Message, Messages, Kinds, SpokenKinds
  <2>4. history' = history \o m
    BY <2>1, <2>2 DEF InShape, Shaped
  <2> HIDE DEF m
  <2>5. InShape(history \o m, said + Len(m), Least)
    <3>1. Len(m) >= 1 /\ \A i \in 1..Len(m) : m[i].kind \in SpokenKinds /\ m[i].n = said + i
      BY <2>3
    <3>2. m \in Seq(Messages)
      BY <2>3
    <3> QED
      BY <1>0, <2>1, <3>1, <3>2, SaidShaped
  <2>6. InShape(history', said', Least) /\ said' \in 0..MaxSaid
    <3>1. said' = said + 1 /\ said < MaxSaid
      BY <1>1 DEF TellEvent
    <3>2. said' \in 0..MaxSaid
      BY <1>0, <3>1
    <3>3. said' = said + Len(m)
      BY <2>3, <3>1
    <3> QED
      BY <2>4, <2>5, <3>2, <3>3
  <2>7. Least' <= Least
    BY <1>1 DEF TellEvent, Least
  <2> QED
    BY <1>0, <1>1, <2>6, <2>7, ShapeKept DEF TellEvent, TalkTyped
<1>2. ASSUME NEW e \in Events, EventShrinks(e)
      PROVE  TalkIInv'
  <2>1. CASE Silent
    <3>1. history' = history
      BY <1>2, <2>1 DEF EventShrinks, Silent, ManageContext, StartsSystem
    <3> QED
      BY <1>0, <1>2, <2>1, <3>1 DEF EventShrinks, TalkIInv, TalkTyped, Silent, AskedShaped,
                                    InShape, Shaped
  <2>2. CASE InShape(history, said, Least)
    <3>1. InShape(history', said', Least)
      BY <1>0, <1>2, <2>2, ManageShaped DEF EventShrinks
    <3>2. Least' <= Least
      BY <1>2 DEF EventShrinks, Least
    <3> QED
      BY <1>0, <1>2, <3>1, <3>2, ShapeKept DEF EventShrinks, TalkTyped
  <2> QED
    BY <2>1, <2>2 DEF TalkIInv
<1>3. CASE UNCHANGED talkVars
  BY <1>3 DEF talkVars, TalkIInv, TalkTyped, AskedShaped, Silent, Least, InShape, Shaped
<1> QED
  BY <1>1, <1>2, <1>3, TalkStepKept DEF TalkNext

\* A shaped history with the prompt is one in order.
LEMMA ShapeInOrder == TalkIInv => HistoryInOrder
<1> SUFFICES ASSUME TalkIInv, asked # <<>>
             PROVE  LET spoken == {i \in 1..Len(asked) : ~IsSystem(asked[i])}
                    IN  /\ asked[1] = Prompt
                        /\ \A i \in 2..Len(asked) : asked[i].kind # "prompt"
                        /\ spoken # {}
                        /\ \A i, j \in spoken :
                             i < j /\ (\A k \in i + 1 .. j - 1 : k \notin spoken) =>
                               asked[j].n = asked[i].n + 1
  BY DEF HistoryInOrder
<1> DEFINE spoken == {i \in 1..Len(asked) : ~IsSystem(asked[i])}
<1>1. PICK s \in Nat, k \in 1..2 : Shaped(asked, k, s)
  BY DEF TalkIInv, AskedShaped, InShape
<1>2. /\ asked \in Seq(Messages) /\ Len(asked) \in Nat /\ Len(asked) > k /\ asked[1] = Prompt
      /\ k = 2 => asked[2] = Info
      /\ \A i \in k + 1 .. Len(asked) : asked[i].kind \in SpokenKinds
      /\ \A i \in k + 1 .. Len(asked) : asked[i].n = s - (Len(asked) - i)
  BY <1>1 DEF Shaped
<1>3. spoken = k + 1 .. Len(asked)
  <2>1. \A i \in 1..k : IsSystem(asked[i])
    BY <1>2, SystemMessages
  <2>2. \A i \in k + 1 .. Len(asked) : ~IsSystem(asked[i])
    BY <1>2, SystemMessages
  <2> QED
    BY <1>2, <2>1, <2>2
<1> HIDE DEF spoken
<1>4. ASSUME NEW i \in 2..Len(asked)
      PROVE  asked[i].kind # "prompt"
  <2>1. i \in k + 1 .. Len(asked) \/ (i = 2 /\ k = 2)
    BY <1>2
  <2>2. Info.kind # "prompt" /\ "prompt" \notin SpokenKinds
    BY DEF Info, Message, SpokenKinds
  <2> QED
    BY <1>2, <2>1, <2>2
<1>5. spoken # {}
  BY <1>2, <1>3
<1>6. ASSUME NEW i \in spoken, NEW j \in spoken, i < j, \A l \in i + 1 .. j - 1 : l \notin spoken
      PROVE  asked[j].n = asked[i].n + 1
  <2>1. j = i + 1
    <3>1. i \in Nat /\ j \in Nat /\ i >= k + 1 /\ j <= Len(asked)
      BY <1>2, <1>3
    <3>2. i + 1 \in spoken
      BY <1>2, <1>3, <1>6, <3>1
    <3> QED
      BY <1>6, <3>1, <3>2
  <2> QED
    BY <1>2, <1>3, <2>1
<1> QED
  BY <1>2, <1>4, <1>5, <1>6 DEF spoken

\* A shaped history that is not halved hands its prompt to Ollama, OpenAI and Qwen.
LEMMA ShapeHeard == TalkIInv => PromptReachesBrain
<1> SUFFICES ASSUME TalkIInv, asked # <<>>, Halved(asked) = asked
             PROVE  LET sent   == OllamaMessages(asked)
                        headed == {i \in DOMAIN sent : sent[i].header # {}}
                    IN  /\ \E i \in headed :
                             /\ headed = {i}
                             /\ \E p \in sent[i].header :
                                  asked[p] = Prompt /\ \A q \in sent[i].header : p <= q
                        /\ OpenAIMessages(asked)[1] = [role |-> "system", n |-> 0]
                        /\ QwenMessages(asked)[1].role = "system"
  BY DEF PromptReachesBrain
<1> DEFINE sent   == OllamaMessages(asked)
           headed == {i \in DOMAIN sent : sent[i].header # {}}
           others == 1..Len(asked) \ Systems(asked)
           Bare(i) == [n |-> asked[i].n,
                       header |-> IF Headed(asked, i) THEN Systems(asked) ELSE {}]
           bare   == [i \in others |-> Bare(i)]
<1>1. PICK s \in Nat, k \in 1..2 : Shaped(asked, k, s)
  BY DEF TalkIInv, AskedShaped, InShape
<1>2. asked \in Seq(Messages) /\ Len(asked) \in Nat /\ Len(asked) > k /\ asked[1] = Prompt
  BY <1>1 DEF Shaped
<1>3. 1 \in Systems(asked) /\ Systems(asked) \in SUBSET (1..Len(asked))
  BY <1>2, SystemMessages DEF Systems
<1>4. Users(asked) \in SUBSET others
  BY DEF Users, Systems, IsSystem
<1>5. sent = IF Users(asked) = {}
             THEN [i \in {0} \cup others |->
                     IF i = 0 THEN [n |-> 0, header |-> Systems(asked)] ELSE bare[i]]
             ELSE bare
  BY <1>3 DEF OllamaMessages
<1> HIDE DEF sent
<1>6. \E i \in headed : headed = {i} /\ sent[i].header = Systems(asked)
  <2>1. CASE Users(asked) = {}
    <3>1. \A i \in others : ~Headed(asked, i)
      BY <2>1 DEF Headed
    <3>2. DOMAIN sent = {0} \cup others /\ sent[0].header = Systems(asked)
      BY <1>5, <2>1
    <3>3. \A i \in others : sent[i].header = {}
      BY <1>5, <2>1, <3>1
    <3>4. headed = {0}
      BY <1>3, <3>2, <3>3
    <3> QED
      BY <3>2, <3>4
  <2>2. CASE Users(asked) # {}
    <3>1. Users(asked) \in SUBSET (1..Len(asked))
      BY DEF Users
    <3>2. PICK u \in Users(asked) : \A j \in Users(asked) : j <= u
      BY <1>2, <2>2, <3>1, LargestOf
    <3>3. u \in others /\ \A i \in others : Headed(asked, i) <=> i = u
      BY <1>2, <1>4, <3>1, <3>2 DEF Headed
    <3>4. DOMAIN sent = others
      BY <1>5, <2>2
    <3>5. \A i \in others : sent[i].header = IF i = u THEN Systems(asked) ELSE {}
      BY <1>5, <2>2, <3>3
    <3>6. headed = {u}
      BY <1>3, <3>3, <3>4, <3>5
    <3> QED
      BY <3>3, <3>5, <3>6
  <2> QED
    BY <2>1, <2>2
<1>7. \A q \in Systems(asked) : 1 <= q
  BY <1>2, <1>3
<1>8. OpenAIMessages(asked)[1] = [role |-> "system", n |-> 0]
  BY <1>2, SystemMessages DEF OpenAIMessages, IsSystem, Prompt, Message
<1>9. QwenMessages(asked)[1].role = "system"
  BY <1>2, SystemMessages DEF QwenMessages, IsSystem
<1> QED
  BY <1>2, <1>3, <1>6, <1>7, <1>8, <1>9 DEF sent

\* The types of a shaped history are those of the type invariant.
LEMMA ShapeTyped == TalkIInv => TalkTypeOK
<1> SUFFICES ASSUME TalkIInv
             PROVE  TalkTypeOK
  OBVIOUS
<1>1. ASSUME NEW i \in 1..Len(history)
      PROVE  history[i].kind \in Kinds /\ history[i].n \in 0..said
  <2>1. CASE Silent
    BY <1>1, <2>1 DEF Silent
  <2>2. CASE InShape(history, said, Least)
    <3>1. PICK k \in 0..2 : Shaped(history, k, said)
      BY <2>2 DEF InShape, Least
    <3>2. /\ history \in Seq(Messages) /\ Len(history) \in Nat /\ said \in Nat
          /\ history[i] \in Messages
      BY <1>1, <3>1 DEF Shaped, TalkIInv, TalkTyped
    <3>3. history[i].n <= said
      <4>1. CASE i \in k + 1 .. Len(history)
        BY <3>1, <3>2, <4>1 DEF Shaped
      <4>2. CASE i <= k
        <5>1. history[i] = Prompt \/ history[i] = Info
          BY <1>1, <3>1, <4>2 DEF Shaped
        <5> QED
          BY <3>2, <5>1 DEF Prompt, Info, Message
      <4> QED
        BY <1>1, <3>2, <4>1, <4>2
    <3> QED
      BY <3>2, <3>3 DEF Messages
  <2> QED
    BY <2>1, <2>2 DEF TalkIInv
<1> QED
  BY <1>1 DEF TalkIInv, TalkTyped, TalkTypeOK, TalkPcs

\* The type invariant of a session's history and of its runs.
THEOREM ConversationTyped == TalkSpec => []TalkTypeOK
BY TalkInitial, TalkInductive, ShapeTyped, PTL DEF TalkSpec

\* trimHistory, manageContextWindow, refreshSystemPrompt, handleSystemEvent: whatever
\* they do to a history, and however many runs and events meet in it, the brain is
\* asked with the prompt once, first, and the newest of what was said without a gap.
THEOREM HistoriesInOrder == TalkSpec => []HistoryInOrder
BY TalkInitial, TalkInductive, ShapeInOrder, PTL DEF TalkSpec

\* A history the brain is asked with keeps its system prompt on the way to Ollama,
\* OpenAI and Qwen unless the provider halves it: Ollama gets it once, in front of the
\* last message of the user or, when none is left, in one of its own.
THEOREM PromptsReachBrains == TalkSpec => []PromptReachesBrain
BY TalkInitial, TalkInductive, ShapeHeard, PTL DEF TalkSpec

-----------------------------------------------------------------------------
(* Functions that are defined step by step                                  *)

\* What holds of 0 and passes from each number to the next holds up to n.
LEMMA UpTo ==
  ASSUME NEW n \in Nat, NEW G, 0 \in G, \A i \in 1..n : i - 1 \in G => i \in G
  PROVE  \A i \in 0..n : i \in G
<1> DEFINE Missing == (0..n) \ G
<1> SUFFICES ASSUME Missing # {}
             PROVE  FALSE
  OBVIOUS
<1>0. Missing \in SUBSET Nat /\ \A i \in Missing : i \in 0..n /\ i \notin G
  OBVIOUS
<1>a. \A i \in 0..n : i \notin G => i \in Missing
  OBVIOUS
<1> HIDE DEF Missing
<1>1. PICK i \in Missing : \A j \in Missing : i <= j
  BY <1>0, SmallestOf
<1>2. i \in 1..n /\ i - 1 \in 0..n /\ i - 1 < i
  BY <1>0, <1>1
<1>3. i - 1 \in G
  <2>1. i - 1 \notin Missing
    BY <1>1, <1>2
  <2> QED
    BY <1>a, <1>2, <2>1
<1> QED
  BY <1>0, <1>1, <1>2, <1>3

\* A function is defined by its value at 0 and by how each value follows from
\* the one before.
LEMMA StepsDefine ==
  ASSUME NEW S, NEW base \in S, NEW n \in Nat, NEW step \in [1..n -> [S -> S]]
  PROVE  \E f \in [0..n -> S] : f[0] = base /\ \A i \in 1..n : f[i] = step[i][f[i - 1]]
<1> DEFINE Reaches(m, f) == f[0] = base /\ \A i \in 1..m : f[i] = step[i][f[i - 1]]
           G == {m \in 0..n : \E f \in [0..m -> S] : Reaches(m, f)}
<1>1. 0 \in G
  <2> DEFINE g == [i \in 0..0 |-> base]
  <2>1. g \in [0..0 -> S] /\ g[0] = base
    OBVIOUS
  <2>2. 1..0 = {}
    OBVIOUS
  <2> HIDE DEF g
  <2>3. Reaches(0, g)
    BY <2>1, <2>2
  <2> QED
    BY <2>1, <2>3
<1>2. ASSUME NEW m \in 1..n, m - 1 \in G
      PROVE  m \in G
  <2>1. PICK f \in [0..m - 1 -> S] : Reaches(m - 1, f)
    BY <1>2
  <2> DEFINE g == [i \in 0..m |-> IF i = m THEN step[m][f[m - 1]] ELSE f[i]]
  <2>2. f[m - 1] \in S /\ step[m][f[m - 1]] \in S
    BY <2>1
  <2>3. g \in [0..m -> S]
    BY <2>1, <2>2
  <2>4. g[0] = base
    BY <2>1
  <2>a. g[m] = step[m][f[m - 1]] /\ \A i \in 0..m - 1 : g[i] = f[i]
    OBVIOUS
  <2> HIDE DEF g
  <2>5. ASSUME NEW i \in 1..m
        PROVE  g[i] = step[i][g[i - 1]]
    <3>1. g[i - 1] = f[i - 1]
      BY <2>a, <2>5
    <3>2. CASE i = m
      BY <2>a, <3>1, <3>2
    <3>3. CASE i # m
      <4>1. i \in 1..m - 1
        BY <2>5, <3>3
      <4> QED
        BY <2>1, <2>a, <3>1, <4>1
    <3> QED
      BY <3>2, <3>3
  <2>6. Reaches(m, g)
    BY <2>4, <2>5
  <2> HIDE DEF Reaches
  <2> QED
    BY <2>3, <2>6
<1>3. \A m \in 0..n : m \in G
  <2> HIDE DEF G
  <2> QED
    BY <1>1, <1>2, UpTo
<1>4. n \in G
  BY <1>3
<1> QED
  BY <1>4

\* A function that takes these steps stays where they lead.
LEMMA StepsStay ==
  ASSUME NEW S, NEW base \in S, NEW n \in Nat, NEW step \in [1..n -> [S -> S]], NEW g,
         g[0] = base, \A i \in 1..n : g[i - 1] \in S => g[i] = step[i][g[i - 1]]
  PROVE  \A i \in 0..n : g[i] \in S
<1> DEFINE G == {i \in 0..n : g[i] \in S}
<1>1. 0 \in G
  OBVIOUS
<1>2. ASSUME NEW i \in 1..n, i - 1 \in G
      PROVE  i \in G
  <2>1. g[i - 1] \in S /\ g[i] = step[i][g[i - 1]]
    BY <1>2
  <2> QED
    BY <2>1
<1>3. \A i \in 0..n : i \in G
  <2> HIDE DEF G
  <2> QED
    BY <1>1, <1>2, UpTo
<1> QED
  BY <1>3

-----------------------------------------------------------------------------
(* The turns Gemini gets                                                   *)

Turns == [role : {"model", "user"}, call : BOOLEAN, response : BOOLEAN]

\* A message joins the last turn or begins one.
LEMMA TurnAdded ==
  ASSUME NEW turns \in Seq(Turns), NEW m \in Messages
  PROVE  AddTurn(turns, m) \in Seq(Turns)
<1>1. Turn(m) \in Turns
  BY DEF Turn, Turns
<1>2. CASE turns # <<>> /\ Last(turns).role = Turn(m).role /\ ~IsSystem(m)
  <2> DEFINE l == turns[Len(turns)]
             t == [role |-> Turn(m).role, call |-> l.call \/ Turn(m).call,
                   response |-> l.response \/ Turn(m).response]
  <2>1. l \in Turns
    BY <1>2
  <2>2. AddTurn(turns, m) = [turns EXCEPT ![Len(turns)] = t]
    BY <1>2 DEF AddTurn
  <2> HIDE DEF l
  <2>3. t \in Turns
    BY <1>1, <2>1 DEF Turns
  <2>4. Len(turns) \in 1..Len(turns)
    BY <1>2
  <2> HIDE DEF t
  <2> QED
    BY <2>2, <2>3, <2>4, ExceptSeq
<1>3. CASE ~(turns # <<>> /\ Last(turns).role = Turn(m).role /\ ~IsSystem(m))
  <2>1. AddTurn(turns, m) = turns \/ AddTurn(turns, m) = Append(turns, Turn(m))
    BY <1>3 DEF AddTurn
  <2>2. Append(turns, Turn(m)) \in Seq(Turns)
    BY <1>1
  <2>3. turns \in Seq(Turns)
    OBVIOUS
  <2> QED
    BY <2>1, <2>2, <2>3, Zenon
<1> QED
  BY <1>2, <1>3

\* The turns after each of n messages, as the function that RawTurns defines, and
\* what is kept of them, as the one that GeminiContents defines.
TurnsOf(empty, h, n) ==
  CHOOSE f : f = [i \in 0..n |-> IF i = 0 THEN empty ELSE AddTurn(f[i - 1], h[i])]
KeptOf(empty, raw, n) ==
  CHOOSE f : f = [i \in 0..n |-> IF i = 0 THEN empty ELSE KeepTurn(f[i - 1], raw, i)]

\* Such a function f, one step after the other in S.
AddsTurns(S, h, n)     == \A i \in 1..n, turns \in S : AddTurn(turns, h[i]) \in S
Adding(f, S, empty, h, n) ==
  /\ f[0] = empty /\ \A i \in 0..n : f[i] \in S
  /\ \A i \in 1..n : f[i] = AddTurn(f[i - 1], h[i])
KeepsTurns(S, raw, n)  == \A i \in 1..n, kept \in S : KeepTurn(kept, raw, i) \in S
Keeping(f, S, empty, raw, n) ==
  /\ f[0] = empty /\ \A i \in 0..n : f[i] \in S
  /\ \A i \in 1..n : f[i] = KeepTurn(f[i - 1], raw, i)

\* Each of them goes from one of its values to the next.
LEMMA TurnsOfSteps ==
  ASSUME NEW S, NEW empty \in S, NEW h, NEW n \in Nat, AddsTurns(S, h, n)
  PROVE  Adding(TurnsOf(empty, h, n), S, empty, h, n)
<1> DEFINE step == [i \in 1..n |-> [turns \in S |-> AddTurn(turns, h[i])]]
           F(g) == [i \in 0..n |-> IF i = 0 THEN empty ELSE AddTurn(g[i - 1], h[i])]
           f == TurnsOf(empty, h, n)
<1>1. /\ step \in [1..n -> [S -> S]]
      /\ \A i \in 1..n, turns \in S : step[i][turns] = AddTurn(turns, h[i])
  BY DEF AddsTurns
<1> HIDE DEF step
<1>2. PICK g \in [0..n -> S] : g[0] = empty /\ \A i \in 1..n : g[i] = step[i][g[i - 1]]
  BY <1>1, StepsDefine
<1>3. \A i \in 1..n : g[i] = AddTurn(g[i - 1], h[i])
  <2>1. \A i \in 1..n : i - 1 \in 0..n
    OBVIOUS
  <2> QED
    BY <1>1, <1>2, <2>1
<1>4. g = F(g)
  <2>1. \A i \in 0..n : i # 0 => i \in 1..n
    OBVIOUS
  <2>2. g = [i \in 0..n |-> g[i]]
    BY <1>2
  <2>3. \A i \in 0..n : g[i] = IF i = 0 THEN empty ELSE AddTurn(g[i - 1], h[i])
    BY <1>2, <1>3, <2>1
  <2> QED
    BY <2>2, <2>3
<1>5. f = F(f)
  <2>1. f = CHOOSE x : x = F(x)
    BY DEF TurnsOf
  <2> HIDE DEF F, f
  <2> QED
    BY <1>4, <2>1, Zenon
<1> HIDE DEF f
<1>6. f[0] = empty /\ \A i \in 1..n : f[i] = AddTurn(f[i - 1], h[i])
  BY <1>5
<1>7. \A i \in 0..n : f[i] \in S
  <2>1. \A i \in 1..n : f[i - 1] \in S => f[i] = step[i][f[i - 1]]
    BY <1>1, <1>6
  <2> QED
    BY <1>1, <1>6, <2>1, StepsStay
<1> QED
  BY <1>6, <1>7 DEF f, Adding

LEMMA KeptOfSteps ==
  ASSUME NEW S, NEW empty \in S, NEW raw, NEW n \in Nat, KeepsTurns(S, raw, n)
  PROVE  Keeping(KeptOf(empty, raw, n), S, empty, raw, n)
<1> DEFINE step == [i \in 1..n |-> [kept \in S |-> KeepTurn(kept, raw, i)]]
           F(g) == [i \in 0..n |-> IF i = 0 THEN empty ELSE KeepTurn(g[i - 1], raw, i)]
           f == KeptOf(empty, raw, n)
<1>1. /\ step \in [1..n -> [S -> S]]
      /\ \A i \in 1..n, kept \in S : step[i][kept] = KeepTurn(kept, raw, i)
  BY DEF KeepsTurns
<1> HIDE DEF step
<1>2. PICK g \in [0..n -> S] : g[0] = empty /\ \A i \in 1..n : g[i] = step[i][g[i - 1]]
  BY <1>1, StepsDefine
<1>3. \A i \in 1..n : g[i] = KeepTurn(g[i - 1], raw, i)
  <2>1. \A i \in 1..n : i - 1 \in 0..n
    OBVIOUS
  <2> QED
    BY <1>1, <1>2, <2>1
<1>4. g = F(g)
  <2>1. \A i \in 0..n : i # 0 => i \in 1..n
    OBVIOUS
  <2>2. g = [i \in 0..n |-> g[i]]
    BY <1>2
  <2>3. \A i \in 0..n : g[i] = IF i = 0 THEN empty ELSE KeepTurn(g[i - 1], raw, i)
    BY <1>2, <1>3, <2>1
  <2> QED
    BY <2>2, <2>3
<1>5. f = F(f)
  <2>1. f = CHOOSE x : x = F(x)
    BY DEF KeptOf
  <2> HIDE DEF F, f
  <2> QED
    BY <1>4, <2>1, Zenon
<1> HIDE DEF f
<1>6. f[0] = empty /\ \A i \in 1..n : f[i] = KeepTurn(f[i - 1], raw, i)
  BY <1>5
<1>7. \A i \in 0..n : f[i] \in S
  <2>1. \A i \in 1..n : f[i - 1] \in S => f[i] = step[i][f[i - 1]]
    BY <1>1, <1>6
  <2> QED
    BY <1>1, <1>6, <2>1, StepsStay
<1> QED
  BY <1>6, <1>7 DEF f, Keeping

\* RawTurns goes through the messages one by one, ...
LEMMA RawTurnsSteps ==
  ASSUME NEW h \in Seq(Messages)
  PROVE  \E f : Adding(f, Seq(Turns), <<>>, h, Len(h)) /\ RawTurns(h) = f[Len(h)]
<1>1. Len(h) \in Nat /\ <<>> \in Seq(Turns) /\ \A i \in 1..Len(h) : h[i] \in Messages
  OBVIOUS
<1>2. AddsTurns(Seq(Turns), h, Len(h))
  BY <1>1, TurnAdded DEF AddsTurns
<1>3. RawTurns(h) = TurnsOf(<<>>, h, Len(h))[Len(h)]
  BY DEF RawTurns, TurnsOf
<1>4. Adding(TurnsOf(<<>>, h, Len(h)), Seq(Turns), <<>>, h, Len(h))
  BY <1>1, <1>2, TurnsOfSteps
<1> QED
  BY <1>3, <1>4, Zenon

\* ... and GeminiContents through its turns.
LEMMA GeminiSteps ==
  ASSUME NEW h, NEW raw \in Seq(Turns), raw = RawTurns(Halved(h))
  PROVE  \E f : Keeping(f, Seq(Turns), <<>>, raw, Len(raw)) /\ GeminiContents(h) = f[Len(raw)]
<1>1. Len(raw) \in Nat /\ <<>> \in Seq(Turns) /\ \A i \in 1..Len(raw) : raw[i] \in Turns
  OBVIOUS
<1>2. KeepsTurns(Seq(Turns), raw, Len(raw))
  BY <1>1 DEF KeepTurn, KeepsTurns
<1>3. GeminiContents(h) = KeptOf(<<>>, raw, Len(raw))[Len(raw)]
  BY DEF GeminiContents, KeptOf
<1>4. Keeping(KeptOf(<<>>, raw, Len(raw)), Seq(Turns), <<>>, raw, Len(raw))
  BY <1>1, <1>2, KeptOfSteps
<1> QED
  BY <1>3, <1>4, Zenon

\* The last answer of the model among the first n messages, if there is one, is a call.
Assistant(m)  == m.kind \in {"text", "call"}
Settled(h, n) ==
  \A p \in 1..n : Assistant(h[p]) /\ (\A q \in p + 1 .. n : ~Assistant(h[q])) => h[p].kind = "call"

\* A result stands behind its call, unless that was trimmed away.
Replies(h) == \A p \in 1..Len(h) : h[p].kind = "result" => Settled(h, p - 1)

\* Turns of the model, which may call, and of the user, which may respond, alternate.
Alternating(turns) ==
  /\ \A j \in 1..Len(turns) : /\ turns[j].call => turns[j].role = "model"
                              /\ turns[j].response => turns[j].role = "user"
  /\ \A j \in 1..Len(turns) - 1 : turns[j].role # turns[j + 1].role

\* The last turn of the model, if there is one, is a call; a response behind a turn is
\* one to a call.
Calling(turns)   ==
  \A j \in 1..Len(turns) : j >= Len(turns) - 1 /\ turns[j].role = "model" => turns[j].call
Responding(turns) == \A j \in 1..Len(turns) - 1 : turns[j + 1].response => turns[j].call

\* The turn of a message.
LEMMA TurnOfMessage ==
  ASSUME NEW m \in Messages
  PROVE  /\ Turn(m) \in Turns
         /\ Turn(m).role = IF Assistant(m) THEN "model" ELSE "user"
         /\ Turn(m).call <=> m.kind = "call"
         /\ Turn(m).response <=> m.kind = "result"
         /\ IsSystem(m) => ~Assistant(m) /\ m.kind \notin {"call", "result"}
BY DEF Messages, Kinds, Turn, Turns, Assistant, IsSystem, Role

\* A message that is not the system's joins the last turn or begins one.
Joins(turns, m) == turns # <<>> /\ Last(turns).role = Turn(m).role

LEMMA TurnJoined ==
  ASSUME NEW turns \in Seq(Turns), NEW m \in Messages, ~IsSystem(m), Joins(turns, m)
  PROVE  LET r == AddTurn(turns, m)
             n == Len(turns)
         IN  /\ Len(r) = n /\ n >= 1 /\ \A j \in 1..n - 1 : r[j] = turns[j]
             /\ turns[n].role = Turn(m).role
             /\ r[n].role = Turn(m).role
             /\ r[n].call <=> turns[n].call \/ Turn(m).call
             /\ r[n].response <=> turns[n].response \/ Turn(m).response
<1>1. Len(turns) \in Nat /\ Len(turns) >= 1 /\ Last(turns) = turns[Len(turns)]
  BY DEF Joins, Last
<1>2. AddTurn(turns, m) =
        [turns EXCEPT ![Len(turns)] =
           [role |-> Turn(m).role, call |-> turns[Len(turns)].call \/ Turn(m).call,
            response |-> turns[Len(turns)].response \/ Turn(m).response]]
  BY DEF AddTurn, Joins
<1>3. turns[Len(turns)].role = Turn(m).role
  BY <1>1 DEF Joins
<1> DEFINE call     == turns[Len(turns)].call \/ Turn(m).call
           response == turns[Len(turns)].response \/ Turn(m).response
           t        == [role |-> Turn(m).role, call |-> call, response |-> response]
<1>4. AddTurn(turns, m) = [turns EXCEPT ![Len(turns)] = t]
  BY <1>2
<1> HIDE DEF call, response
<1>6. t.role = Turn(m).role /\ t.call = call /\ t.response = response
  OBVIOUS
<1> HIDE DEF t
<1>5. /\ Len([turns EXCEPT ![Len(turns)] = t]) = Len(turns)
      /\ [turns EXCEPT ![Len(turns)] = t][Len(turns)] = t
      /\ \A j \in 1..Len(turns) - 1 : [turns EXCEPT ![Len(turns)] = t][j] = turns[j]
  BY <1>1
<1>7. LET r == AddTurn(turns, m)
      IN  r[Len(turns)].role = Turn(m).role /\ r[Len(turns)].call = call
          /\ r[Len(turns)].response = response
  BY <1>4, <1>5, <1>6
<1>8. LET r == AddTurn(turns, m)
      IN  /\ Len(r) = Len(turns) /\ Len(turns) >= 1
          /\ \A j \in 1..Len(turns) - 1 : r[j] = turns[j]
  BY <1>1, <1>4, <1>5
<1> QED
  BY <1>3, <1>7, <1>8, Zenon DEF call, response

LEMMA TurnBegun ==
  ASSUME NEW turns \in Seq(Turns), NEW m \in Messages, ~IsSystem(m), ~Joins(turns, m)
  PROVE  LET r == AddTurn(turns, m)
             n == Len(turns)
         IN  /\ Len(r) = n + 1 /\ r[n + 1] = Turn(m) /\ \A j \in 1..n : r[j] = turns[j]
             /\ n >= 1 => turns[n].role # Turn(m).role
<1>1. AddTurn(turns, m) = Append(turns, Turn(m))
  BY DEF AddTurn, Joins
<1>2. Len(turns) >= 1 => turns[Len(turns)].role # Turn(m).role
  BY DEF Joins, Last
<1> QED
  BY <1>1, <1>2

\* What a message makes of turns that alternate.
LEMMA TurnsStayPaired ==
  ASSUME NEW turns \in Seq(Turns), NEW m \in Messages, Alternating(turns)
  PROVE  LET r == AddTurn(turns, m)
         IN  /\ Alternating(r)
             /\ m.kind = "call" \/ (~Assistant(m) /\ Calling(turns)) => Calling(r)
             /\ Responding(turns) /\ (m.kind = "result" => Calling(turns)) => Responding(r)
<1> DEFINE r == AddTurn(turns, m)
           t == Turn(m)
           n == Len(turns)
<1>0. /\ n \in Nat /\ t \in Turns /\ t.role = (IF Assistant(m) THEN "model" ELSE "user")
      /\ (t.call <=> m.kind = "call") /\ (t.response <=> m.kind = "result")
      /\ (IsSystem(m) => ~Assistant(m) /\ m.kind \notin {"call", "result"})
      /\ (m.kind = "call" => Assistant(m)) /\ (m.kind = "result" => ~Assistant(m))
      /\ \A j \in 1..n : turns[j].role \in {"model", "user"}
  <2>1. \A j \in 1..n : turns[j] \in Turns
    OBVIOUS
  <2>2. \A j \in 1..n : turns[j].role \in {"model", "user"}
    BY <2>1 DEF Turns
  <2>3. (m.kind = "call" => Assistant(m)) /\ (m.kind = "result" => ~Assistant(m)) /\ n \in Nat
    BY DEF Assistant
  <2> QED
    BY <2>2, <2>3, TurnOfMessage, Zenon
<1> HIDE DEF t
<1>1. CASE IsSystem(m)
  <2>1. r = turns
    BY <1>1 DEF AddTurn
  <2> QED
    BY <1>0, <1>1, <2>1
<1>2. CASE ~IsSystem(m) /\ Joins(turns, m)
  <2>1. /\ Len(r) = n /\ n >= 1 /\ (\A j \in 1..n - 1 : r[j] = turns[j])
        /\ turns[n].role = t.role
    BY <1>2, TurnJoined, Zenon DEF t
  <2>2. /\ r[n].role = t.role /\ (r[n].call <=> turns[n].call \/ t.call)
        /\ (r[n].response <=> turns[n].response \/ t.response)
    BY <1>2, TurnJoined, Zenon DEF t
  <2> HIDE DEF r
  <2>3. Alternating(r)
    <3>1. ASSUME NEW j \in 1..n
          PROVE  /\ r[j].call => r[j].role = "model"
                 /\ r[j].response => r[j].role = "user"
      <4>1. CASE j \in 1..n - 1
        BY <1>0, <2>1, <4>1 DEF Alternating
      <4>2. CASE j = n
        BY <1>0, <2>1, <2>2, <4>2 DEF Alternating
      <4> QED
        BY <1>0, <4>1, <4>2
    <3>2. ASSUME NEW j \in 1..n - 1
          PROVE  r[j].role # r[j + 1].role
      <4>1. r[j].role = turns[j].role /\ r[j + 1].role = turns[j + 1].role
        BY <1>0, <2>1, <2>2
      <4> QED
        BY <4>1 DEF Alternating
    <3> QED
      BY <1>0, <2>1, <3>1, <3>2 DEF Alternating
  <2>4. ASSUME m.kind = "call" \/ (~Assistant(m) /\ Calling(turns))
        PROVE  Calling(r)
    BY <1>0, <2>1, <2>2, <2>3, <2>4 DEF Alternating, Calling
  <2>5. ASSUME Responding(turns), m.kind = "result" => Calling(turns)
        PROVE  Responding(r)
    <3> SUFFICES ASSUME NEW j \in 1..n - 1, r[j + 1].response
                 PROVE  turns[j].call
      BY <2>1 DEF Responding
    <3>1. CASE turns[j + 1].response
      BY <2>5, <3>1 DEF Responding
    <3>2. CASE ~turns[j + 1].response
      <4>1. j + 1 = n /\ t.response
        BY <1>0, <2>1, <2>2, <3>2
      <4>2. turns[j].role = "model"
        <5>1. j \in 1..n /\ turns[j].role # turns[j + 1].role
          BY DEF Alternating
        <5>2. turns[j + 1].role = "user"
          BY <1>0, <2>1, <4>1
        <5> QED
          BY <1>0, <5>1, <5>2
      <4> QED
        BY <1>0, <2>5, <4>1, <4>2 DEF Calling
    <3> QED
      BY <3>1, <3>2
  <2> QED
    BY <2>3, <2>4, <2>5 DEF r
<1>3. CASE ~IsSystem(m) /\ ~Joins(turns, m)
  <2>1. /\ Len(r) = n + 1 /\ r[n + 1] = t /\ (\A j \in 1..n : r[j] = turns[j])
        /\ (n >= 1 => turns[n].role # t.role)
    BY <1>3, TurnBegun DEF t
  <2> HIDE DEF r
  <2>3. Alternating(r)
    <3>1. ASSUME NEW j \in 1..n + 1
          PROVE  /\ r[j].call => r[j].role = "model"
                 /\ r[j].response => r[j].role = "user"
      <4>1. CASE j \in 1..n
        BY <2>1, <4>1 DEF Alternating
      <4>2. CASE j = n + 1
        BY <1>0, <2>1, <4>2
      <4> QED
        BY <1>0, <4>1, <4>2
    <3>2. ASSUME NEW j \in 1..n
          PROVE  r[j].role # r[j + 1].role
      <4>1. CASE j \in 1..n - 1
        <5>1. r[j] = turns[j] /\ r[j + 1] = turns[j + 1]
          BY <1>0, <2>1, <4>1
        <5> QED
          BY <4>1, <5>1 DEF Alternating
      <4>2. CASE j = n
        BY <1>0, <2>1, <4>2
      <4> QED
        BY <1>0, <4>1, <4>2
    <3> QED
      BY <1>0, <2>1, <3>1, <3>2 DEF Alternating
  <2>4. ASSUME m.kind = "call" \/ (~Assistant(m) /\ Calling(turns))
        PROVE  Calling(r)
    BY <1>0, <2>1, <2>3, <2>4 DEF Alternating, Calling
  <2>5. ASSUME Responding(turns), m.kind = "result" => Calling(turns)
        PROVE  Responding(r)
    <3> SUFFICES ASSUME NEW j \in 1..n, r[j + 1].response
                 PROVE  turns[j].call
      BY <2>1 DEF Responding
    <3>1. CASE j < n
      <4>1. j \in 1..n - 1 /\ r[j + 1] = turns[j + 1]
        BY <1>0, <2>1, <3>1
      <4> QED
        BY <2>5, <4>1 DEF Responding
    <3>2. CASE j = n
      <4>1. t.response /\ turns[n].role = "model"
        BY <1>0, <2>1, <3>2
      <4> QED
        BY <1>0, <2>5, <3>2, <4>1 DEF Calling
    <3> QED
      BY <1>0, <3>1, <3>2
  <2> QED
    BY <2>3, <2>4, <2>5 DEF r
<1> QED
  BY <1>1, <1>2, <1>3

\* The turns of a history alternate; if its results stand behind their calls, its
\* responses do.
LEMMA RawTurnsPaired ==
  ASSUME NEW h \in Seq(Messages)
  PROVE  /\ RawTurns(h) \in Seq(Turns) /\ Alternating(RawTurns(h))
         /\ Replies(h) => Responding(RawTurns(h))
<1>1. PICK f : Adding(f, Seq(Turns), <<>>, h, Len(h)) /\ RawTurns(h) = f[Len(h)]
  BY RawTurnsSteps
<1>2. Len(h) \in Nat /\ \A i \in 1..Len(h) : h[i] \in Messages
  OBVIOUS
<1>3. /\ f[0] = <<>> /\ \A i \in 0..Len(h) : f[i] \in Seq(Turns)
      /\ \A i \in 1..Len(h) : f[i] = AddTurn(f[i - 1], h[i])
  BY <1>1 DEF Adding
<1> DEFINE G == {i \in 0..Len(h) : /\ Alternating(f[i]) /\ (Settled(h, i) => Calling(f[i]))
                                   /\ (Replies(h) => Responding(f[i]))}
<1>4. 0 \in G
  <2>1. f[0] = <<>> /\ Len(f[0]) = 0
    BY <1>3
  <2> QED
    BY <1>2, <2>1 DEF Alternating, Calling, Responding
<1>5. ASSUME NEW i \in 1..Len(h), i - 1 \in G
      PROVE  i \in G
  <2>1. /\ i \in 0..Len(h) /\ i - 1 \in 0..Len(h) /\ h[i] \in Messages
        /\ f[i - 1] \in Seq(Turns) /\ f[i] = AddTurn(f[i - 1], h[i])
        /\ Alternating(f[i - 1]) /\ (Settled(h, i - 1) => Calling(f[i - 1]))
        /\ (Replies(h) => Responding(f[i - 1]))
    BY <1>2, <1>3, <1>5
  <2>2. /\ Alternating(f[i])
        /\ h[i].kind = "call" \/ (~Assistant(h[i]) /\ Calling(f[i - 1])) => Calling(f[i])
        /\ Responding(f[i - 1]) /\ (h[i].kind = "result" => Calling(f[i - 1])) => Responding(f[i])
    BY <2>1, TurnsStayPaired
  <2>3. Settled(h, i) => h[i].kind = "call" \/ (~Assistant(h[i]) /\ Settled(h, i - 1))
    <3>1. CASE Assistant(h[i])
      BY <3>1 DEF Settled
    <3>2. CASE ~Assistant(h[i])
      BY <1>2, <3>2 DEF Settled
    <3> QED
      BY <3>1, <3>2
  <2>4. Replies(h) /\ h[i].kind = "result" => Settled(h, i - 1)
    BY DEF Replies
  <2> QED
    BY <2>1, <2>2, <2>3, <2>4
<1>6. \A i \in 0..Len(h) : i \in G
  <2> HIDE DEF G
  <2> QED
    BY <1>2, <1>4, <1>5, UpTo
<1>7. Len(h) \in G
  BY <1>2, <1>6
<1> QED
  BY <1>1, <1>2, <1>3, <1>7

\* A call before a turn with a response, a response behind a turn with a call.
CallsPaired(kept)     == \A j \in 1..Len(kept) - 1 : kept[j].call => kept[j + 1].response
ResponsesPaired(kept) == \A j \in 1..Len(kept) : kept[j].response => j > 1 /\ kept[j - 1].call

\* What is kept of the first i turns: its last turn calls if the last of them does and
\* will be answered.
KeptTurns(kept, raw, i) ==
  /\ CallsPaired(kept) /\ (Responding(raw) => ResponsesPaired(kept))
  /\ Len(kept) >= 1 /\ kept[Len(kept)].call =>
       i >= 1 /\ kept[Len(kept)] = raw[i] /\ i < Len(raw) /\ raw[i + 1].response
  /\ i >= 1 /\ i < Len(raw) /\ raw[i].call /\ raw[i + 1].response =>
       Len(kept) >= 1 /\ kept[Len(kept)] = raw[i]

LEMMA KeptStep ==
  ASSUME NEW raw \in Seq(Turns), Alternating(raw), NEW i \in 1..Len(raw),
         NEW kept \in Seq(Turns), KeptTurns(kept, raw, i - 1), i = 1 => kept = <<>>
  PROVE  KeptTurns(KeepTurn(kept, raw, i), raw, i)
<1> DEFINE k == Len(kept)
           r == KeepTurn(kept, raw, i)
<1>1. /\ Len(raw) \in Nat /\ k \in Nat /\ i \in Nat /\ i >= 1 /\ i <= Len(raw)
      /\ raw[i] \in Turns /\ (i = 1 => k = 0) /\ (i > 1 => i - 1 \in 1..Len(raw))
      /\ (kept = <<>> <=> k = 0) /\ (k >= 1 => Last(kept) = kept[k])
      /\ (i - 1) + 1 = i
  BY DEF Last
<1>2. /\ (raw[i].call => ~raw[i].response) /\ (raw[i].response => raw[i].role = "user")
      /\ (i > 1 /\ raw[i - 1].call => raw[i - 1].role = "model")
  BY <1>1 DEF Alternating
<1>3. CASE r = kept
  <2>1. \/ raw[i].response /\ (k = 0 \/ kept[k].role # "model")
        \/ raw[i].call /\ ~(i < Len(raw) /\ raw[i + 1].response)
    <3>1. kept # Append(kept, raw[i])
      <4>1. Len(Append(kept, raw[i])) = k + 1
        OBVIOUS
      <4> QED
        BY <1>1, <4>1
    <3> QED
      BY <1>1, <1>3, <3>1 DEF KeepTurn
  <2>2. ~(k >= 1 /\ kept[k].call)
    <3> SUFFICES ASSUME k >= 1, kept[k].call
                 PROVE  FALSE
      OBVIOUS
    <3>1. i > 1 /\ kept[k] = raw[i - 1] /\ raw[i].response
      BY <1>1 DEF KeptTurns
    <3> QED
      BY <1>1, <1>2, <2>1, <3>1
  <2>3. ~(i < Len(raw) /\ raw[i].call /\ raw[i + 1].response)
    BY <1>2, <2>1
  <2> QED
    BY <1>3, <2>2, <2>3 DEF KeptTurns
<1>4. CASE r # kept
  <2>1. /\ ~(raw[i].response /\ (k = 0 \/ kept[k].role # "model"))
        /\ ~(raw[i].call /\ ~(i < Len(raw) /\ raw[i + 1].response))
        /\ r = Append(kept, raw[i])
    BY <1>1, <1>4 DEF KeepTurn
  <2>2. Len(r) = k + 1 /\ r[k + 1] = raw[i] /\ \A j \in 1..k : r[j] = kept[j]
    BY <1>1, <2>1
  <2> HIDE DEF r
  <2>3. CallsPaired(r)
    <3> SUFFICES ASSUME NEW j \in 1..k, r[j].call
                 PROVE  r[j + 1].response
      BY <1>1, <2>2 DEF CallsPaired
    <3>1. CASE j < k
      BY <1>1, <2>2, <3>1 DEF KeptTurns, CallsPaired
    <3>2. CASE j = k
      BY <1>1, <2>2, <3>2 DEF KeptTurns
    <3> QED
      BY <1>1, <3>1, <3>2
  <2>4. ASSUME Responding(raw)
        PROVE  ResponsesPaired(r)
    <3> SUFFICES ASSUME NEW j \in 1..k + 1, r[j].response
                 PROVE  j > 1 /\ r[j - 1].call
      BY <1>1, <2>2 DEF ResponsesPaired
    <3>1. CASE j <= k
      <4>1. j \in 1..k /\ kept[j].response
        BY <1>1, <2>2, <3>1
      <4>2. ResponsesPaired(kept)
        BY <2>4 DEF KeptTurns
      <4>3. j > 1 /\ kept[j - 1].call
        BY <4>1, <4>2 DEF ResponsesPaired
      <4>4. r[j - 1] = kept[j - 1]
        BY <1>1, <2>2, <4>1, <4>3
      <4> QED
        BY <4>3, <4>4
    <3>2. CASE j = k + 1
      <4>1. raw[i].response /\ k >= 1 /\ i > 1
        BY <1>1, <2>1, <2>2, <3>2
      <4>2. raw[i - 1].call
        BY <1>1, <2>4, <4>1 DEF Responding
      <4>3. kept[k] = raw[i - 1]
        BY <1>1, <4>1, <4>2 DEF KeptTurns
      <4> QED
        BY <1>1, <2>2, <3>2, <4>1, <4>2, <4>3
    <3> QED
      BY <1>1, <3>1, <3>2
  <2>5. /\ Len(r) >= 1 /\ r[Len(r)].call => i < Len(raw) /\ raw[i + 1].response
        /\ Len(r) >= 1 /\ r[Len(r)] = raw[i]
    BY <1>1, <2>1, <2>2
  <2>6. KeptTurns(r, raw, i)
    BY <1>1, <2>3, <2>4, <2>5 DEF KeptTurns
  <2> QED
    BY <2>6 DEF r
<1> QED
  BY <1>3, <1>4

\* Gemini's contents keep the rule for tools.
LEMMA ContentsPaired ==
  ASSUME NEW h, Halved(h) \in Seq(Messages)
  PROVE  LET turns == GeminiContents(h)
         IN  \A i \in 1..Len(turns) :
               /\ turns[i].call => i < Len(turns) /\ turns[i + 1].response
               /\ turns[i].response /\ Replies(Halved(h)) => i > 1 /\ turns[i - 1].call
<1> DEFINE raw   == RawTurns(Halved(h))
           turns == GeminiContents(h)
<1>1. raw \in Seq(Turns) /\ Alternating(raw) /\ (Replies(Halved(h)) => Responding(raw))
  BY RawTurnsPaired
<1>2. PICK f : Keeping(f, Seq(Turns), <<>>, raw, Len(raw)) /\ turns = f[Len(raw)]
  BY <1>1, GeminiSteps
<1> HIDE DEF raw, turns
<1>3. /\ f[0] = <<>> /\ \A i \in 0..Len(raw) : f[i] \in Seq(Turns)
      /\ \A i \in 1..Len(raw) : f[i] = KeepTurn(f[i - 1], raw, i)
      /\ Len(raw) \in Nat
  BY <1>1, <1>2 DEF Keeping
<1> DEFINE G == {i \in 0..Len(raw) : KeptTurns(f[i], raw, i)}
<1>4. 0 \in G
  <2>1. Len(f[0]) = 0
    BY <1>3
  <2> QED
    BY <1>3, <2>1 DEF KeptTurns, CallsPaired, ResponsesPaired
<1>5. ASSUME NEW i \in 1..Len(raw), i - 1 \in G
      PROVE  i \in G
  <2>1. /\ f[i - 1] \in Seq(Turns) /\ f[i] = KeepTurn(f[i - 1], raw, i)
        /\ KeptTurns(f[i - 1], raw, i - 1) /\ (i = 1 => f[i - 1] = <<>>) /\ i \in 0..Len(raw)
    BY <1>3, <1>5
  <2>2. KeptTurns(f[i], raw, i)
    BY <1>1, <2>1, KeptStep
  <2> QED
    BY <2>1, <2>2
<1>6. \A i \in 0..Len(raw) : i \in G
  <2> HIDE DEF G
  <2> QED
    BY <1>3, <1>4, <1>5, UpTo
<1>7. turns \in Seq(Turns) /\ KeptTurns(turns, raw, Len(raw))
  BY <1>2, <1>3, <1>6
<1>8. ASSUME NEW i \in 1..Len(turns)
      PROVE  /\ turns[i].call => i < Len(turns) /\ turns[i + 1].response
             /\ turns[i].response /\ Replies(Halved(h)) => i > 1 /\ turns[i - 1].call
  <2>1. Len(turns) \in Nat /\ ~(Len(turns) >= 1 /\ turns[Len(turns)].call)
    BY <1>3, <1>7 DEF KeptTurns
  <2>2. CallsPaired(turns) /\ (Replies(Halved(h)) => ResponsesPaired(turns))
    BY <1>1, <1>7 DEF KeptTurns
  <2>3. turns[i].call => i < Len(turns) /\ turns[i + 1].response
    BY <1>8, <2>1, <2>2 DEF CallsPaired
  <2>4. turns[i].response /\ Replies(Halved(h)) => i > 1 /\ turns[i - 1].call
    BY <1>8, <2>1, <2>2 DEF ResponsesPaired
  <2> QED
    BY <2>3, <2>4
<1> QED
  BY <1>8 DEF turns

-----------------------------------------------------------------------------
(* Results behind their calls                                              *)

\* A history that is messages of the system and after them the end of another.
Ends(g, h) ==
  \E b \in 0..Len(g) :
    /\ \A i \in 1..b : IsSystem(g[i])
    /\ \A i \in b + 1 .. Len(g) : /\ i + (Len(h) - Len(g)) \in 1..Len(h)
                                  /\ g[i] = h[i + (Len(h) - Len(g))]

\* Its results stand behind their calls if those of the other do.
LEMMA EndReplies ==
  ASSUME NEW h \in Seq(Messages), NEW g \in Seq(Messages), Ends(g, h)
  PROVE  /\ Replies(h) => Replies(g)
         /\ Settled(h, Len(h)) => Settled(g, Len(g))
<1> DEFINE d == Len(h) - Len(g)
<1>1. PICK b \in 0..Len(g) :
         /\ \A i \in 1..b : IsSystem(g[i])
         /\ \A i \in b + 1 .. Len(g) : i + d \in 1..Len(h) /\ g[i] = h[i + d]
  BY DEF Ends
<1>2. Len(h) \in Nat /\ Len(g) \in Nat /\ d \in Int /\ b \in Nat /\ Len(g) + d = Len(h)
  OBVIOUS
<1> HIDE DEF d
<1>3. ASSUME NEW i \in 1..Len(g), i <= b
      PROVE  ~Assistant(g[i]) /\ g[i].kind # "result"
  <2>1. IsSystem(g[i])
    BY <1>1, <1>2, <1>3
  <2> QED
    BY <2>1 DEF IsSystem, Role, Assistant
<1>4. ASSUME NEW n \in 0..Len(g), Settled(h, n + d)
      PROVE  Settled(g, n)
  <2> SUFFICES ASSUME NEW p \in 1..n, Assistant(g[p]), \A q \in p + 1 .. n : ~Assistant(g[q])
               PROVE  g[p].kind = "call"
    BY DEF Settled
  <2>1. p \in b + 1 .. Len(g) /\ p \in 1..Len(g)
    BY <1>2, <1>3
  <2>2. p + d \in 1..Len(h) /\ g[p] = h[p + d] /\ p + d \in 1..n + d
    BY <1>1, <1>2, <2>1
  <2>3. ASSUME NEW q \in p + d + 1 .. n + d
        PROVE  ~Assistant(h[q])
    <3>1. q - d \in p + 1 .. n /\ q - d \in b + 1 .. Len(g) /\ (q - d) + d = q
      BY <1>2, <2>1
    <3> QED
      BY <1>1, <3>1
  <2> QED
    BY <1>4, <2>2, <2>3 DEF Settled
<1>5. ASSUME Replies(h)
      PROVE  Replies(g)
  <2> SUFFICES ASSUME NEW p \in 1..Len(g), g[p].kind = "result"
               PROVE  Settled(g, p - 1)
    BY DEF Replies
  <2>1. p \in b + 1 .. Len(g)
    BY <1>2, <1>3
  <2>2. p + d \in 1..Len(h) /\ g[p] = h[p + d]
    BY <1>1, <2>1
  <2>3. Settled(h, (p + d) - 1) /\ (p + d) - 1 = (p - 1) + d /\ p - 1 \in 0..Len(g)
    BY <1>2, <1>5, <2>2 DEF Replies
  <2> QED
    BY <1>4, <2>3
<1>6. ASSUME Settled(h, Len(h))
      PROVE  Settled(g, Len(g))
  <2>1. Len(g) \in 0..Len(g) /\ Settled(h, Len(g) + d)
    BY <1>2, <1>6
  <2> QED
    BY <1>4, <2>1
<1> QED
  BY <1>5, <1>6

\* The end of a history behind messages of the system is such a history.
LEMMA FrontEnds ==
  ASSUME NEW h \in Seq(Messages), NEW f \in Seq(Messages), \A i \in 1..Len(f) : IsSystem(f[i]),
         NEW from \in 1..Len(h)
  PROVE  /\ f \o SubSeq(h, from, Len(h)) \in Seq(Messages)
         /\ Ends(f \o SubSeq(h, from, Len(h)), h)
<1> DEFINE e == SubSeq(h, from, Len(h))
           g == f \o e
<1>1. /\ e \in Seq(Messages) /\ Len(e) = Len(h) - from + 1
      /\ \A i \in 1..Len(e) : e[i] = h[from + i - 1]
      /\ Len(h) \in Nat /\ Len(f) \in Nat
  OBVIOUS
<1> HIDE DEF e
<1>2. /\ g \in Seq(Messages) /\ Len(g) = Len(f) + Len(e)
      /\ \A i \in 1..Len(f) : g[i] = f[i]
      /\ \A i \in Len(f) + 1 .. Len(g) : g[i] = e[i - Len(f)]
  <2>1. /\ g \in Seq(Messages) /\ Len(g) = Len(f) + Len(e)
        /\ \A i \in 1 .. Len(f) + Len(e) : g[i] = IF i <= Len(f) THEN f[i] ELSE e[i - Len(f)]
    BY <1>1, ConcatProperties
  <2> HIDE DEF g
  <2>2. \A i \in 1..Len(f) : i \in 1 .. Len(f) + Len(e) /\ i <= Len(f)
    BY <1>1
  <2>3. \A i \in Len(f) + 1 .. Len(g) : i \in 1 .. Len(f) + Len(e) /\ ~(i <= Len(f))
    BY <1>1, <2>1
  <2> QED
    BY <2>1, <2>2, <2>3, Zenon
<1> HIDE DEF g
<1>3. ASSUME NEW i \in Len(f) + 1 .. Len(g)
      PROVE  i + (Len(h) - Len(g)) \in 1..Len(h) /\ g[i] = h[i + (Len(h) - Len(g))]
  <2>1. i - Len(f) \in 1..Len(e) /\ from + (i - Len(f)) - 1 = i + (Len(h) - Len(g))
    BY <1>1, <1>2, <1>3
  <2> QED
    BY <1>1, <1>2, <1>3, <2>1
<1>4. Len(f) \in 0..Len(g)
  BY <1>1, <1>2
<1>5. Ends(g, h)
  BY <1>2, <1>3, <1>4 DEF Ends
<1> QED
  BY <1>2, <1>5 DEF g, e

LEMMA SameEnds ==
  ASSUME NEW h \in Seq(Messages)
  PROVE  Ends(h, h)
BY DEF Ends

\* One message of the system in front, or none.
LEMMA ShortFronts ==
  ASSUME NEW h \in Seq(Messages), NEW m \in Messages, IsSystem(m), NEW from \in 1..Len(h)
  PROVE  /\ SubSeq(h, from, Len(h)) \in Seq(Messages) /\ Ends(SubSeq(h, from, Len(h)), h)
         /\ <<m>> \o SubSeq(h, from, Len(h)) \in Seq(Messages)
         /\ Ends(<<m>> \o SubSeq(h, from, Len(h)), h)
<1> DEFINE e == SubSeq(h, from, Len(h))
<1>1. e \in Seq(Messages) /\ <<>> \o e = e
  OBVIOUS
<1>2. Ends(<<>> \o e, h)
  <2> DEFINE f == <<>>
  <2>1. f \in Seq(Messages) /\ \A i \in 1..Len(f) : IsSystem(f[i])
    OBVIOUS
  <2> HIDE DEF f
  <2>2. Ends(f \o SubSeq(h, from, Len(h)), h)
    BY <2>1, FrontEnds
  <2> QED
    BY <2>2 DEF f
<1>3. <<m>> \o e \in Seq(Messages) /\ Ends(<<m>> \o e, h)
  <2> DEFINE f == <<m>>
  <2>1. f \in Seq(Messages) /\ \A i \in 1..Len(f) : IsSystem(f[i])
    OBVIOUS
  <2> HIDE DEF f
  <2>2. f \o SubSeq(h, from, Len(h)) \in Seq(Messages) /\ Ends(f \o SubSeq(h, from, Len(h)), h)
    BY <2>1, FrontEnds
  <2> QED
    BY <2>2 DEF f
<1> QED
  BY <1>1, <1>2, <1>3

\* What trimHistory, refreshSystemPrompt, manageContextWindow and the providers
\* leave of a history is its end.
LEMMA TrimEnds ==
  ASSUME NEW h \in Seq(Messages)
  PROVE  TrimHistory(h) \in Seq(Messages) /\ Ends(TrimHistory(h), h)
<1>1. CASE Len(h) <= MaxHistoryMessages
  BY <1>1, SameEnds DEF TrimHistory
<1>2. CASE ~(Len(h) <= MaxHistoryMessages)
  <2>1. Len(h) \in Nat /\ MaxHistoryMessages \in Nat /\ MaxHistoryMessages >= 2
    BY ConversationAssumption
  <2>2. CASE StartsSystem(h)
    <3>1. TrimHistory(h) = <<h[1]>> \o SubSeq(h, Len(h) - (MaxHistoryMessages - 1) + 1, Len(h))
      BY <1>2, <2>2 DEF TrimHistory, LastOf
    <3>2. Len(h) - (MaxHistoryMessages - 1) + 1 \in 1..Len(h) /\ h[1] \in Messages
      BY <1>2, <2>1
    <3>3. IsSystem(h[1])
      BY <2>2 DEF StartsSystem
    <3> QED
      BY <3>1, <3>2, <3>3, ShortFronts
  <2>3. CASE ~StartsSystem(h)
    <3>1. TrimHistory(h) = SubSeq(h, Len(h) - MaxHistoryMessages + 1, Len(h))
      BY <1>2, <2>3 DEF TrimHistory, LastOf
    <3>2. Len(h) - MaxHistoryMessages + 1 \in 1..Len(h)
      BY <1>2, <2>1
    <3> QED
      BY <3>1, <3>2, SystemMessages, ShortFronts
  <2> QED
    BY <2>2, <2>3
<1> QED
  BY <1>1, <1>2

LEMMA RefreshEnds ==
  ASSUME NEW h \in Seq(Messages)
  PROVE  RefreshPrompt(h) \in Seq(Messages) /\ Ends(RefreshPrompt(h), h)
<1>1. CASE StartsSystem(h)
  <2> DEFINE g == [h EXCEPT ![1] = Prompt]
  <2>1. Len(h) \in Nat /\ Len(h) >= 1
    BY <1>1 DEF StartsSystem
  <2>2. /\ g \in Seq(Messages) /\ Len(g) = Len(h) /\ g[1] = Prompt
        /\ \A i \in 2..Len(h) : g[i] = h[i]
    BY <2>1, SystemMessages
  <2>3. RefreshPrompt(h) = g
    BY <1>1 DEF RefreshPrompt
  <2> HIDE DEF g
  <2>4. Ends(g, h)
    <3>1. 1 \in 0..Len(g) /\ \A i \in 1..1 : IsSystem(g[i])
      BY <2>1, <2>2, SystemMessages
    <3>2. \A i \in 1 + 1 .. Len(g) : /\ i + (Len(h) - Len(g)) \in 1..Len(h)
                                     /\ g[i] = h[i + (Len(h) - Len(g))]
      BY <2>1, <2>2
    <3> QED
      BY <3>1, <3>2 DEF Ends
  <2> QED
    BY <2>2, <2>3, <2>4
<1>2. CASE ~StartsSystem(h)
  <2>1. RefreshPrompt(h) = <<Prompt>> \o h
    BY <1>2 DEF RefreshPrompt
  <2>2. CASE h = <<>>
    <3> DEFINE g == <<Prompt>>
    <3>1. RefreshPrompt(h) = g
      BY <2>1, <2>2, SystemMessages
    <3>2. g \in Seq(Messages) /\ Len(g) = 1 /\ g[1] = Prompt
      BY SystemMessages
    <3> HIDE DEF g
    <3> QED
      BY <3>1, <3>2, SystemMessages DEF Ends
  <2>3. CASE h # <<>>
    <3>1. SubSeq(h, 1, Len(h)) = h /\ 1 \in 1..Len(h)
      BY <2>3
    <3> QED
      BY <2>1, <3>1, SystemMessages, ShortFronts
  <2> QED
    BY <2>2, <2>3
<1> QED
  BY <1>1, <1>2

\* The providers' half of a history.
LEMMA HalvedEnds ==
  ASSUME NEW h \in Seq(Messages)
  PROVE  Halved(h) \in Seq(Messages) /\ Ends(Halved(h), h)
<1>1. CASE Halved(h) = h
  BY <1>1, SameEnds
<1>2. CASE Halved(h) # h
  <2>1. Halved(h) = SubSeq(h, (Len(h) \div 2) + 1, Len(h)) /\ Len(h) \in Nat
    BY <1>2 DEF Halved
  <2>2. CASE Len(h) = 0
    BY <1>2, <2>1, <2>2
  <2>3. CASE Len(h) >= 1
    <3>1. (Len(h) \div 2) + 1 \in 1..Len(h)
      BY <2>1, <2>3
    <3> QED
      BY <2>1, <3>1, SystemMessages, ShortFronts
  <2> QED
    BY <2>1, <2>2, <2>3
<1> QED
  BY <1>1, <1>2


LEMMA ManageEnds ==
  ASSUME NEW h \in Seq(Messages)
  PROVE  ManageContext(h) \in Seq(Messages) /\ Ends(ManageContext(h), h)
<1>1. CASE ManageContext(h) = h
  BY <1>1, SameEnds
<1>2. CASE ManageContext(h) # h
  <2>1. StartsSystem(h)
    BY <1>2, ManageParts
  <2>2. PICK from \in 1..Len(h) - 1 :
           ManageContext(h) = <<h[1]>> \o (IF from > 1 THEN <<Info>> ELSE <<>>)
                                      \o SubSeq(h, from + 1, Len(h))
    BY <1>2, ManageParts
  <2> DEFINE f == <<h[1]>> \o (IF from > 1 THEN <<Info>> ELSE <<>>)
  <2>3. h[1] \in Messages /\ IsSystem(h[1]) /\ from + 1 \in 1..Len(h)
    BY <2>1 DEF StartsSystem
  <2>4. f \in Seq(Messages) /\ \A i \in 1..Len(f) : IsSystem(f[i])
    <3>1. CASE from > 1
      <4>1. f = <<h[1]>> \o <<Info>>
        BY <3>1
      <4>2. f \in Seq(Messages) /\ Len(f) = 2 /\ f[1] = h[1] /\ f[2] = Info
        BY <2>3, <4>1, SystemMessages
      <4> HIDE DEF f
      <4>3. ASSUME NEW i \in 1..Len(f)
            PROVE  IsSystem(f[i])
        <5>1. i = 1 \/ i = 2
          BY <4>2, <4>3
        <5>2. f[i] = h[1] \/ f[i] = Info
          BY <4>2, <5>1, Zenon
        <5> QED
          BY <2>3, <5>2, SystemMessages, Zenon
      <4> QED
        BY <4>2, <4>3, Zenon
    <3>2. CASE ~(from > 1)
      <4>1. f \in Seq(Messages) /\ Len(f) = 1 /\ f[1] = h[1]
        BY <2>3, <3>2
      <4> HIDE DEF f
      <4>2. \A i \in 1..Len(f) : i = 1
        BY <4>1
      <4> QED
        BY <2>3, <4>1, <4>2, Zenon
    <3> QED
      BY <3>1, <3>2
  <2>5. ManageContext(h) = f \o SubSeq(h, from + 1, Len(h))
    BY <2>2
  <2> HIDE DEF f
  <2> QED
    BY <2>3, <2>4, <2>5, FrontEnds
<1> QED
  BY <1>1, <1>2

\* What is said leaves the results behind their calls if its own, if any, are.
LEMMA SaidReplies ==
  ASSUME NEW h \in Seq(Messages), Replies(h), NEW e \in Seq(Messages),
         Len(e) = 1 \/ \A i \in 1..Len(e) : e[i].kind = "result",
         \A i \in 1..Len(e) : e[i].kind = "result" => Settled(h, Len(h))
  PROVE  /\ h \o e \in Seq(Messages) /\ Replies(h \o e)
         /\ Len(e) = 1 /\ (e[1].kind = "call" \/ (e[1].kind = "user" /\ Settled(h, Len(h)))) =>
              Settled(h \o e, Len(h \o e))
<1> DEFINE g == h \o e
           n == Len(h)
<1>1. n \in Nat /\ Len(e) \in Nat
  OBVIOUS
<1>2. /\ g \in Seq(Messages) /\ Len(g) = n + Len(e)
      /\ \A i \in 1 .. n + Len(e) : g[i] = IF i <= n THEN h[i] ELSE e[i - n]
  BY ConcatProperties
<1> HIDE DEF g
<1>3. ASSUME NEW p \in n..Len(g), Settled(h, n), \A i \in n + 1 .. p : ~Assistant(g[i])
      PROVE  Settled(g, p)
  <2> SUFFICES ASSUME NEW c \in 1..p, Assistant(g[c]), \A q \in c + 1 .. p : ~Assistant(g[q])
               PROVE  g[c].kind = "call"
    BY DEF Settled
  <2>1. c \in 1..n /\ g[c] = h[c]
    BY <1>1, <1>2, <1>3
  <2>2. \A q \in c + 1 .. n : ~Assistant(h[q])
    BY <1>1, <1>2, <2>1
  <2> QED
    BY <1>3, <2>1, <2>2 DEF Settled
<1>4. ASSUME NEW p \in 1..Len(g), g[p].kind = "result"
      PROVE  Settled(g, p - 1)
  <2>1. CASE p <= n
    <3>1. p \in 1..n /\ h[p].kind = "result" /\ \A q \in 1..p : g[q] = h[q]
      <4>1. p \in 1..n /\ \A q \in 1..p : q \in 1 .. n + Len(e) /\ q <= n
        BY <1>1, <1>2, <1>4, <2>1
      <4>2. \A q \in 1..p : g[q] = h[q]
        BY <1>2, <4>1
      <4> QED
        BY <1>4, <4>1, <4>2
    <3>2. Settled(h, p - 1)
      BY <3>1 DEF Replies
    <3> QED
      BY <1>1, <3>1, <3>2 DEF Settled
  <2>2. CASE ~(p <= n)
    <3>1. p - n \in 1..Len(e) /\ g[p] = e[p - n] /\ p - 1 \in n..Len(g)
      BY <1>1, <1>2, <1>4, <2>2
    <3>2. Settled(h, n)
      BY <1>4, <3>1
    <3>3. ASSUME NEW i \in n + 1 .. p - 1
          PROVE  ~Assistant(g[i])
      <4>1. i - n \in 1..Len(e) /\ g[i] = e[i - n] /\ Len(e) # 1
        BY <1>1, <1>2, <3>1, <3>3
      <4> QED
        BY <4>1 DEF Assistant
    <3> QED
      BY <1>3, <3>1, <3>2, <3>3
  <2> QED
    BY <2>1, <2>2
<1>5. ASSUME Len(e) = 1, e[1].kind = "call" \/ (e[1].kind = "user" /\ Settled(h, n))
      PROVE  Settled(g, Len(g))
  <2>1. Len(g) = n + 1 /\ g[n + 1] = e[1]
    BY <1>1, <1>2, <1>5
  <2>2. CASE e[1].kind = "call"
    <3> SUFFICES ASSUME NEW c \in 1..n + 1, \A q \in c + 1 .. n + 1 : ~Assistant(g[q])
                 PROVE  g[c].kind = "call"
      BY <2>1 DEF Settled
    <3>1. Assistant(g[n + 1])
      BY <2>1, <2>2 DEF Assistant
    <3>2. c = n + 1
      BY <1>1, <3>1
    <3> QED
      BY <2>1, <2>2, <3>2
  <2>3. CASE e[1].kind = "user" /\ Settled(h, n)
    <3>1. \A i \in n + 1 .. Len(g) : ~Assistant(g[i])
      BY <1>1, <2>1, <2>3 DEF Assistant
    <3>2. Len(g) \in n..Len(g)
      BY <1>1, <2>1
    <3> QED
      BY <1>3, <2>3, <3>1, <3>2
  <2> QED
    BY <1>5, <2>2, <2>3
<1>6. Replies(g)
  BY <1>4 DEF Replies
<1> QED
  BY <1>2, <1>5, <1>6 DEF g

\* The runs that are not in the session.
Away == {"new", "left"}

\* As long as no run joined the session of another one, one run at most is in it; the
\* results stand behind their calls, and while the tools of a call run it is the last
\* answer in the history.
PairIInv ==
  ~joined =>
    /\ Replies(history) /\ Replies(asked)
    /\ \A t \in Talkers : talk[t].pc = "tools" => Settled(history, Len(history))
    /\ \A t \in Talkers : \A o \in Talkers \ {t} : talk[t].pc \in Away \/ talk[o].pc \in Away

LEMMA HistoriesTyped == TalkIInv => history \in Seq(Messages) /\ asked \in Seq(Messages)
<1> SUFFICES ASSUME TalkIInv
             PROVE  history \in Seq(Messages) /\ asked \in Seq(Messages)
  OBVIOUS
<1>a. <<>> \in Seq(Messages)
  OBVIOUS
<1>1. history \in Seq(Messages)
  BY <1>a, Zenon DEF TalkIInv, Silent, InShape, Shaped
<1>2. asked \in Seq(Messages)
  BY <1>a, Zenon DEF TalkIInv, AskedShaped, InShape, Shaped
<1> QED
  BY <1>1, <1>2

\* Say, of one message or of results.
LEMMA SayReplies ==
  ASSUME TalkIInv, Replies(history), NEW kinds \in Seq(SpokenKinds), NEW sizes \in Seq(Nat),
         Len(sizes) = Len(kinds), Len(kinds) >= 1, Say(kinds, sizes),
         Len(kinds) = 1 \/ \A i \in 1..Len(kinds) : kinds[i] = "result",
         \A i \in 1..Len(kinds) : kinds[i] = "result" => Settled(history, Len(history))
  PROVE  /\ Replies(history')
         /\ Len(kinds) = 1 /\ kinds[1] = "call" => Settled(history', Len(history'))
<1> DEFINE e == [i \in 1..Len(kinds) |-> Message(kinds[i], said + i, sizes[i])]
<1>1. said \in Nat /\ Len(kinds) \in Nat /\ history \in Seq(Messages)
  BY ConversationAssumption, HistoriesTyped DEF TalkIInv, TalkTyped
<1>2. history' = TrimHistory(history \o e)
  BY DEF Say
<1>3. ASSUME NEW i \in 1..Len(kinds)
      PROVE  e[i] \in Messages /\ e[i].kind = kinds[i]
  <2>1. kinds[i] \in SpokenKinds /\ sizes[i] \in Nat /\ said + i \in Nat
    BY <1>1, <1>3
  <2>2. e[i] = [kind |-> kinds[i], n |-> said + i, size |-> sizes[i]]
    BY DEF Message
  <2> QED
    BY <2>1, <2>2 DEF Messages, SpokenKinds, Kinds
<1>4. e \in Seq(Messages) /\ Len(e) = Len(kinds)
  BY <1>1, <1>3
<1> HIDE DEF e
<1>5. /\ Len(e) = 1 \/ \A i \in 1..Len(e) : e[i].kind = "result"
      /\ \A i \in 1..Len(e) : e[i].kind = "result" => Settled(history, Len(history))
  BY <1>3, <1>4
<1>6. /\ history \o e \in Seq(Messages) /\ Replies(history \o e)
      /\ Len(e) = 1 /\ e[1].kind = "call" => Settled(history \o e, Len(history \o e))
  BY <1>1, <1>4, <1>5, SaidReplies
<1>7. Ends(history', history \o e) /\ history' \in Seq(Messages)
  BY <1>2, <1>6, TrimEnds
<1>8. /\ Replies(history')
      /\ Settled(history \o e, Len(history \o e)) => Settled(history', Len(history'))
  BY <1>6, <1>7, EndReplies
<1>9. Len(kinds) = 1 /\ kinds[1] = "call" => Len(e) = 1 /\ e[1].kind = "call"
  BY <1>3, <1>4
<1> QED
  BY <1>6, <1>8, <1>9

\* A step of a run that is alone in the session.
LEMMA AloneKept ==
  ASSUME TalkIInv, PairIInv, NEW t \in Talkers,
         ~joined' => ~joined /\ \A o \in Talkers \ {t} : talk[o].pc \in Away,
         \A o \in Talkers \ {t} : talk'[o] = talk[o],
         ~joined => Replies(history') /\ Replies(asked'),
         ~joined /\ talk'[t].pc = "tools" => Settled(history', Len(history'))
  PROVE  PairIInv'
<1> SUFFICES ASSUME ~joined'
             PROVE  /\ Replies(history') /\ Replies(asked')
                    /\ \A o \in Talkers : talk'[o].pc = "tools" => Settled(history', Len(history'))
                    /\ \A o \in Talkers : \A p \in Talkers \ {o} :
                         talk'[o].pc \in Away \/ talk'[p].pc \in Away
  BY DEF PairIInv, Replies, Settled, Assistant
<1>1. ~joined /\ \A o \in Talkers \ {t} : talk'[o].pc \in Away
  OBVIOUS
<1>2. \A o \in Talkers \ {t} : talk'[o].pc # "tools"
  BY <1>1 DEF Away
<1> QED
  BY <1>1, <1>2

\* Each step of a run keeps the results behind their calls.
LEMMA PairStepKept ==
  ASSUME TalkIInv, PairIInv, NEW t \in Talkers, TalkStep(t)
  PROVE  PairIInv'
<1>0. /\ talk \in [Talkers -> [pc : TalkPcs, first : BOOLEAN]] /\ Sizes \subseteq Nat
      /\ history \in Seq(Messages) /\ joined \in BOOLEAN
  BY ConversationAssumption, HistoriesTyped DEF TalkIInv, TalkTyped
\* One message that is not a result.
<1>a. ASSUME NEW kind \in SpokenKinds \ {"result"}, NEW size \in Nat, Say(<<kind>>, <<size>>),
             ~joined
      PROVE  Replies(history') /\ (kind = "call" => Settled(history', Len(history')))
  <2> DEFINE kinds == <<kind>>
             sizes == <<size>>
  <2>1. /\ kinds \in Seq(SpokenKinds) /\ sizes \in Seq(Nat) /\ Len(kinds) = 1 /\ kinds[1] = kind
        /\ Len(sizes) = Len(kinds) /\ Len(kinds) >= 1
    OBVIOUS
  <2>2. Say(kinds, sizes)
    BY <1>a
  <2> HIDE DEF kinds, sizes
  <2>3. \A i \in 1..Len(kinds) : kinds[i] # "result"
    BY <2>1
  <2>4. Replies(history)
    BY <1>a DEF PairIInv
  <2> QED
    BY <2>1, <2>2, <2>3, <2>4, SayReplies
\* A step that leaves of the history its end.
<1>b. ASSUME history' \in Seq(Messages), Ends(history', history), ~joined
      PROVE  Replies(history')
  BY <1>0, <1>b, EndReplies DEF PairIInv
\* A run that is in the session goes on.
<1>c. ASSUME talk[t].pc \notin Away, \A o \in Talkers \ {t} : talk'[o] = talk[o],
             joined' = joined, ~joined => Replies(history') /\ Replies(asked'),
             ~joined /\ talk'[t].pc = "tools" => Settled(history', Len(history'))
      PROVE  PairIInv'
  <2>1. ~joined' => ~joined /\ \A o \in Talkers \ {t} : talk[o].pc \in Away
    BY <1>c DEF PairIInv
  <2> QED
    BY <1>c, <2>1, AloneKept
<1>d. asked' = asked => (~joined => Replies(asked'))
  BY DEF PairIInv
<1>1. CASE SayInput(t)
  <2>1. PICK size \in Sizes : Say(<<"user">>, <<size>>)
    BY <1>1 DEF SayInput
  <2>2. ~joined => Replies(history')
    BY <1>0, <1>a, <2>1 DEF SpokenKinds
  <2>3. talk'[t].pc = "planned" /\ \A o \in Talkers \ {t} : talk'[o] = talk[o]
    BY <1>0, <1>1 DEF SayInput, Turning
  <2>4. ~joined' => ~joined /\ \A o \in Talkers \ {t} : talk[o].pc \in Away
    BY <1>1 DEF SayInput, Away
  <2> QED
    BY <1>1, <1>d, <2>2, <2>3, <2>4, AloneKept DEF SayInput
<1>2. CASE PutPrompt(t)
  <2>1. ~joined => Replies(history')
    BY <1>0, <1>2, <1>b, RefreshEnds DEF PutPrompt
  <2>2. /\ talk[t].pc \notin Away /\ talk'[t].pc = "step"
        /\ \A o \in Talkers \ {t} : talk'[o] = talk[o]
    BY <1>0, <1>2 DEF PutPrompt, Turning, Away
  <2> QED
    BY <1>2, <1>c, <1>d, <2>1, <2>2 DEF PutPrompt
<1>3. CASE Leave(t)
  <2>1. ~joined => Replies(history')
    BY <1>3 DEF Leave, PairIInv
  <2>2. /\ talk[t].pc \notin Away /\ talk'[t].pc = "left"
        /\ \A o \in Talkers \ {t} : talk'[o] = talk[o]
    BY <1>0, <1>3 DEF Leave, Turning, Away
  <2> QED
    BY <1>3, <1>c, <1>d, <2>1, <2>2 DEF Leave
<1>4. CASE ShrinkContext(t)
  <2>1. ~joined => Replies(history')
    BY <1>0, <1>4, <1>b, ManageEnds DEF ShrinkContext
  <2>2. /\ talk[t].pc \notin Away /\ talk'[t].pc = "shrunk"
        /\ \A o \in Talkers \ {t} : talk'[o] = talk[o]
    BY <1>0, <1>4 DEF ShrinkContext, Turning, Away
  <2> QED
    BY <1>4, <1>c, <1>d, <2>1, <2>2 DEF ShrinkContext
<1>5. CASE AskBrain(t)
  <2>1. ~joined => Replies(history') /\ Replies(asked')
    BY <1>5 DEF AskBrain, PairIInv
  <2>2. /\ talk[t].pc \notin Away /\ talk'[t].pc = "asking"
        /\ \A o \in Talkers \ {t} : talk'[o] = talk[o]
    BY <1>0, <1>5 DEF AskBrain, Turning, Away
  <2> QED
    BY <1>5, <1>c, <2>1, <2>2 DEF AskBrain
<1>6. CASE AnswerCalls(t)
  <2>1. ~joined => Replies(history') /\ Settled(history', Len(history'))
    BY <1>0, <1>6, <1>a DEF AnswerCalls, SpokenKinds
  <2>2. /\ talk[t].pc \notin Away /\ talk'[t].pc = "tools"
        /\ \A o \in Talkers \ {t} : talk'[o] = talk[o]
    BY <1>0, <1>6 DEF AnswerCalls, Turning, Away
  <2> QED
    BY <1>6, <1>c, <1>d, <2>1, <2>2 DEF AnswerCalls
<1>7. CASE AnswerText(t)
  <2>1. ~joined => Replies(history')
    BY <1>0, <1>7, <1>a DEF AnswerText, SpokenKinds
  <2>2. /\ talk[t].pc \notin Away /\ talk'[t].pc # "tools"
        /\ \A o \in Talkers \ {t} : talk'[o] = talk[o]
    BY <1>0, <1>7 DEF AnswerText, Turning, Away
  <2> QED
    BY <1>7, <1>c, <1>d, <2>1, <2>2 DEF AnswerText
<1>8. CASE GiveOrder(t)
  <2>1. ~joined => Replies(history')
    BY <1>8, <1>a DEF GiveOrder, SpokenKinds
  <2>2. /\ talk[t].pc \notin Away /\ talk'[t].pc = "step"
        /\ \A o \in Talkers \ {t} : talk'[o] = talk[o]
    BY <1>0, <1>8 DEF GiveOrder, Turning, Away
  <2> QED
    BY <1>8, <1>c, <1>d, <2>1, <2>2 DEF GiveOrder
<1>9. CASE TakeResults(t)
  <2>1. ~joined => Replies(history) /\ Settled(history, Len(history))
    BY <1>9 DEF TakeResults, PairIInv
  <2>2. ASSUME NEW sizes \in SeqOf(Sizes, 2) \ {<<>>},
               Say([i \in 1..Len(sizes) |-> "result"], sizes), ~joined
        PROVE  Replies(history')
    <3> DEFINE kinds == [i \in 1..Len(sizes) |-> "result"]
    <3>1. PICK m \in 0..2 : sizes \in [1..m -> Sizes]
      BY DEF SeqOf
    <3>2. m # 0
      BY <3>1
    <3>3. sizes \in Seq(Nat) /\ Len(sizes) = m
      <4>1. sizes = [i \in 1..m |-> sizes[i]] /\ \A i \in 1..m : sizes[i] \in Nat
        BY <1>0, <3>1
      <4>2. m \in Nat
        BY <3>1
      <4> QED
        BY <4>1, <4>2
    <3>4. /\ kinds \in Seq(SpokenKinds) /\ Len(kinds) = m
          /\ \A i \in 1..Len(kinds) : kinds[i] = "result"
      BY <3>3 DEF SpokenKinds
    <3>5. Say(kinds, sizes)
      BY <2>2
    <3> HIDE DEF kinds
    <3>6. Len(sizes) = Len(kinds) /\ Len(kinds) >= 1
      BY <3>1, <3>2, <3>3, <3>4
    <3> QED
      BY <2>1, <2>2, <3>3, <3>4, <3>5, <3>6, SayReplies
  <2>3. ~joined => Replies(history')
    <3>1. CASE UNCHANGED <<history, said>>
      BY <2>1, <3>1
    <3> QED
      BY <1>9, <2>2, <3>1 DEF TakeResults
  <2>4. /\ talk[t].pc \notin Away /\ talk'[t].pc = "step"
        /\ \A o \in Talkers \ {t} : talk'[o] = talk[o]
    BY <1>0, <1>9 DEF TakeResults, Away
  <2> QED
    BY <1>9, <1>c, <1>d, <2>3, <2>4 DEF TakeResults
<1> QED
  BY <1>1, <1>2, <1>3, <1>4, <1>5, <1>6, <1>7, <1>8, <1>9 DEF TalkStep

\* Every step keeps the results behind their calls.
LEMMA PairInductive == TalkIInv /\ PairIInv /\ [TalkNext]_talkVars => PairIInv'
<1> SUFFICES ASSUME TalkIInv, PairIInv, [TalkNext]_talkVars
             PROVE  PairIInv'
  OBVIOUS
<1>0. history \in Seq(Messages) /\ said \in Nat /\ Sizes \subseteq Nat
  BY ConversationAssumption, HistoriesTyped DEF TalkIInv, TalkTyped
\* An event: the runs stay as they are.
<1>a. ASSUME UNCHANGED <<talk, asked, joined>>, ~joined => Replies(history'),
             ~joined /\ Settled(history, Len(history)) => Settled(history', Len(history'))
      PROVE  PairIInv'
  BY <1>a DEF PairIInv, Away
<1>1. ASSUME NEW e \in Events, TellEvent(e)
      PROVE  PairIInv'
  <2>1. PICK size \in Sizes : history' = Append(history, Message("user", said + 1, size))
    BY <1>1 DEF TellEvent
  <2> DEFINE m == <<Message("user", said + 1, size)>>
  <2>2. m \in Seq(Messages) /\ Len(m) = 1 /\ m[1].kind = "user"
    BY <1>0 DEF Message, Messages, Kinds
  <2>3. history' = history \o m
    BY <1>0, <2>1
  <2> HIDE DEF m
  <2>4. \A i \in 1..Len(m) : m[i].kind # "result"
    BY <2>2
  <2>5. ASSUME ~joined
        PROVE  /\ Replies(history \o m)
               /\ Settled(history, Len(history)) => Settled(history \o m, Len(history \o m))
    BY <1>0, <2>2, <2>4, <2>5, SaidReplies DEF PairIInv
  <2> QED
    BY <1>1, <1>a, <2>3, <2>5 DEF TellEvent
<1>2. ASSUME NEW e \in Events, EventShrinks(e)
      PROVE  PairIInv'
  <2>1. history' \in Seq(Messages) /\ Ends(history', history)
    BY <1>0, <1>2, ManageEnds DEF EventShrinks
  <2>2. /\ Replies(history) => Replies(history')
        /\ Settled(history, Len(history)) => Settled(history', Len(history'))
    BY <1>0, <2>1, EndReplies
  <2> QED
    BY <1>2, <1>a, <2>2 DEF EventShrinks, PairIInv
<1>3. CASE UNCHANGED talkVars
  BY <1>3, <1>a DEF talkVars, PairIInv
<1> QED
  BY <1>1, <1>2, <1>3, PairStepKept DEF TalkNext

LEMMA PairInitial == TalkInit => PairIInv
<1> SUFFICES ASSUME TalkInit PROVE PairIInv
  OBVIOUS
<1>1. history = <<>> /\ asked = <<>> /\ Len(<<>>) = 0
  BY DEF TalkInit
<1>2. Replies(history) /\ Replies(asked)
  BY <1>1 DEF Replies
<1>3. \A t \in Talkers : talk[t].pc = "new"
  BY DEF TalkInit
<1> QED
  BY <1>2, <1>3 DEF PairIInv, Away

\* A history with the results behind their calls gives turns in pairs.
LEMMA PairsSent == TalkIInv /\ PairIInv => ToolTurnsPaired
<1> SUFFICES ASSUME TalkIInv, PairIInv
             PROVE  ToolTurnsPaired
  OBVIOUS
<1>1. /\ asked \in Seq(Messages) /\ Halved(asked) \in Seq(Messages)
      /\ Replies(asked) => Replies(Halved(asked))
  BY HistoriesTyped, HalvedEnds, EndReplies
<1>2. ~joined => Replies(Halved(asked))
  BY <1>1 DEF PairIInv
<1> QED
  BY <1>1, <1>2, ContentsPaired DEF ToolTurnsPaired

\* Gemini's rule for tools: whatever a history lost to trimming, to the context window or
\* to the provider's own halving, each turn with a call it gets is followed by one with
\* a response and, where no run joined another one's session, each response follows a
\* turn with a call.
THEOREM TurnsPaired == TalkSpec => []ToolTurnsPaired
<1>1. TalkInit => TalkIInv /\ PairIInv
  BY TalkInitial, PairInitial
<1>2. TalkIInv /\ PairIInv /\ [TalkNext]_talkVars => (TalkIInv /\ PairIInv)'
  BY TalkInductive, PairInductive
<1> QED
  BY <1>1, <1>2, PairsSent, PTL DEF TalkSpec

-----------------------------------------------------------------------------
(* The parts together                                                      *)

ToolsIInv ==
  /\ SshIInv /\ DaemonTyped /\ PoolIInv /\ FileIInv /\ ScriptsIInv /\ TalkIInv
  /\ BrainIInv /\ ArchiveIInv /\ HookIInv

LEMMA ToolsIInvSuffices == ToolsIInv => ToolsTypeOK
<1>1. SshIInv /\ DaemonTyped /\ PoolIInv => SshTypeOK /\ DaemonTypeOK
  BY DEF SshIInv, DaemonTyped, DaemonTypeOK, PoolIInv
<1>2. FileIInv /\ ScriptsIInv /\ HookIInv => FileTypeOK /\ ScriptsTypeOK /\ WhatsAppTypeOK
  BY DEF FileIInv, ScriptsIInv, HookIInv
<1> QED
  BY <1>1, <1>2, ShapeTyped, BrainIInvSuffices, ArchiveIInvSuffices DEF ToolsIInv, ToolsTypeOK

\* A part that rests keeps what is known of it.
LEMMA PartsRest ==
  ASSUME ToolsIInv
  PROVE  /\ UNCHANGED sshVars => SshIInv'
         /\ UNCHANGED lifeVars => DaemonTyped' /\ PoolIInv'
         /\ UNCHANGED fileVars => FileIInv'
         /\ UNCHANGED toolVars => ScriptsIInv'
         /\ UNCHANGED talkVars => TalkIInv'
         /\ UNCHANGED brainVars => BrainIInv'
         /\ UNCHANGED archiveVars => ArchiveIInv'
         /\ UNCHANGED waVars => HookIInv'
<1> USE DEF ToolsIInv
<1>1. UNCHANGED sshVars => SshIInv'
  BY SshInductive
<1>2. UNCHANGED lifeVars => DaemonTyped' /\ PoolIInv'
  BY DaemonStaysTyped, PoolInductive
<1>3. UNCHANGED fileVars => FileIInv'
  BY FileInductive
<1>4. UNCHANGED toolVars => ScriptsIInv'
  BY ScriptsInductive
<1>5. UNCHANGED talkVars => TalkIInv'
  BY TalkInductive
<1>6. UNCHANGED brainVars => BrainIInv'
  BY BrainInductive
<1>7. UNCHANGED archiveVars => ArchiveIInv'
  BY ArchiveInductive
<1>8. UNCHANGED waVars => HookIInv'
  BY ListenerInductive
<1> QED
  BY <1>1, <1>2, <1>3, <1>4, <1>5, <1>6, <1>7, <1>8

LEMMA ToolsStep == ToolsIInv /\ [MCNext]_tools => ToolsIInv'
<1> SUFFICES ASSUME ToolsIInv, [MCNext]_tools
             PROVE  ToolsIInv'
  OBVIOUS
<1> USE DEF ToolsIInv
<1>1. CASE SshNext /\ UNCHANGED restButSsh
  BY <1>1, SshInductive, PartsRest DEF restButSsh
<1>2. CASE DaemonNext /\ UNCHANGED restButDaemon
  BY <1>2, DaemonStaysTyped, PoolInductive, PartsRest DEF restButDaemon
<1>3. CASE FileNext /\ UNCHANGED restButFiles
  BY <1>3, FileInductive, PartsRest DEF restButFiles
<1>4. CASE ToolsNext /\ UNCHANGED restButPython
  BY <1>4, ScriptsInductive, PartsRest DEF restButPython
<1>5. CASE TalkNext /\ UNCHANGED restButTalk
  BY <1>5, TalkInductive, PartsRest DEF restButTalk
<1>6. CASE BrainNext /\ UNCHANGED restButBrain
  BY <1>6, BrainInductive, PartsRest DEF restButBrain
<1>7. CASE ArchiveNext /\ UNCHANGED restButArchive
  BY <1>7, ArchiveInductive, PartsRest DEF restButArchive
<1>8. CASE WhatsAppNext /\ UNCHANGED restButWhatsApp
  BY <1>8, ListenerInductive, PartsRest DEF restButWhatsApp
<1>9. CASE UNCHANGED tools
  BY <1>9, PartsRest DEF tools
<1> QED
  BY <1>1, <1>2, <1>3, <1>4, <1>5, <1>6, <1>7, <1>8, <1>9 DEF MCNext

\* The type invariant of all the parts a run works with, whichever is looked at.
THEOREM ToolsTyped == MCSpec => []ToolsTypeOK
<1>1. MCInit => ToolsIInv
  BY SshInitial, DaemonInitial, FileInitial, ScriptsInitial, TalkInitial, BrainInitial,
     ArchiveInitial, WhatsAppInitial DEF MCInit, ToolsIInv
<1> QED
  BY <1>1, ToolsStep, ToolsIInvSuffices, PTL DEF MCSpec
=============================================================================
