-------------------------- MODULE LiveProxyProofs ---------------------------
(***************************************************************************)
(* For any number of pages, inputs, connections and failures: the tutor    *)
(* introduces itself once, and knows the student's page whenever it can    *)
(* hear them and nothing is on its way.                                    *)
(*                                                                         *)
(* The second result is about two queues, the rest of the message that is  *)
(* relayed and `pending' before it: the last page on its way is always the *)
(* page being taught, so whoever delivers everything ends on that page.    *)
(***************************************************************************)
EXTENDS LiveProxy, SequenceTheorems, TLAPS

\* Nothing in s is about a page; the last page in s, if there is one, is p.
NoPage(s) == \A i \in 1..Len(s) : s[i] = None
LastIs(s, p) ==
    \A i \in 1..Len(s) :
        s[i] # None /\ (\A j \in 1..Len(s) : j > i => s[j] = None) => s[i] = p

\* The coroutines agree on the connection.
Agreed ==
    /\ line = "open" <=> taking
    /\ alive => line \notin {"connecting", "over"}
    /\ up = "sending" => line \in {"open", "over", "connecting"}
    /\ up = "reading" => outs = <<>>
    /\ loop = "waiting" => failures < MaxFailures

\* The tutor greets on the first connection only, and before it listens.
Greeting ==
    /\ greeted \in {0, 1}
    /\ ~resuming /\ line \in {"connecting", "setup", "greeting", "kickoff"} => greeted = 0
    /\ line \in {"greeting", "kickoff"} => ~resuming
    /\ line = "flushing" => resuming
    /\ provider = "gemini" /\ (taking \/ resuming \/ handle) => greeted = 1

\* Where the page being taught is, while no turn was missed.
Following ==
    up # "over" /\ ~missed =>
        /\ LastIs(outs, current)
        /\ NoPage(outs) => LastIs(pending, current)
        /\ /\ line \in {"flushing", "open"} \/ (line = "setup" /\ resuming)
           /\ NoPage(outs) /\ NoPage(pending)
           => tutor = current
        /\ ~resuming /\ line \in {"connecting", "setup", "greeting", "kickoff"} =>
              current = first /\ NoPage(pending) /\ NoPage(outs)
        /\ line = "open" /\ alive => NoPage(pending)

IInv == TypeOK /\ Agreed /\ Greeting /\ Following

-----------------------------------------------------------------------------
(* Sequences of what is on its way *)

\* What is left when the first message is taken.
LEMMA TailFacts ==
    ASSUME NEW s \in Seq(Pages \cup {None}), s # <<>>, NEW p
    PROVE  /\ Head(s) \in Pages \cup {None}
           /\ Tail(s) \in Seq(Pages \cup {None})
           /\ Len(Tail(s)) = Len(s) - 1
           /\ Tail(s) = <<>> <=> Len(s) = 1
           /\ NoPage(s) <=> Head(s) = None /\ NoPage(Tail(s))
           /\ LastIs(s, p) => LastIs(Tail(s), p)
           /\ LastIs(s, p) /\ Head(s) # None /\ NoPage(Tail(s)) => Head(s) = p
<1>1. /\ Len(s) \in Nat \ {0}
      /\ Head(s) = s[1] /\ Head(s) \in Pages \cup {None}
      /\ Tail(s) \in Seq(Pages \cup {None})
      /\ Len(Tail(s)) = Len(s) - 1
      /\ \A i \in 1..Len(Tail(s)) : Tail(s)[i] = s[i + 1]
  BY HeadTailProperties, LenProperties, EmptySeq
<1>2. Tail(s) = <<>> <=> Len(s) = 1
  <2>1. Tail(s) = <<>> <=> Len(Tail(s)) = 0
    BY <1>1, EmptySeq
  <2> QED BY <1>1, <2>1
<1>3. \A i \in 1..Len(s) : i = 1 \/ (i - 1 \in 1..Len(Tail(s)) /\ s[i] = Tail(s)[i - 1])
  <2> TAKE i \in 1..Len(s)
  <2>1. CASE i = 1
    BY <2>1
  <2>2. CASE i # 1
    <3>1. i - 1 \in 1..Len(Tail(s)) /\ (i - 1) + 1 = i
      BY <1>1, <2>2
    <3> QED BY <1>1, <3>1
  <2> QED BY <2>1, <2>2
<1>4. NoPage(s) <=> Head(s) = None /\ NoPage(Tail(s))
  <2>1. ASSUME NoPage(s) PROVE Head(s) = None /\ NoPage(Tail(s))
    BY <1>1, <2>1 DEF NoPage
  <2>2. ASSUME Head(s) = None, NoPage(Tail(s)) PROVE NoPage(s)
    BY <1>1, <1>3, <2>2 DEF NoPage
  <2> QED BY <2>1, <2>2
<1>5. ASSUME LastIs(s, p) PROVE LastIs(Tail(s), p)
  <2> SUFFICES ASSUME NEW i \in 1..Len(Tail(s)), Tail(s)[i] # None,
                      \A j \in 1..Len(Tail(s)) : j > i => Tail(s)[j] = None
               PROVE  Tail(s)[i] = p
    BY DEF LastIs
  <2>1. i + 1 \in 1..Len(s) /\ s[i + 1] = Tail(s)[i]
    BY <1>1
  <2>2. ASSUME NEW j \in 1..Len(s), j > i + 1 PROVE s[j] = None
    <3>1. j # 1 /\ j - 1 > i
      BY <2>2
    <3> QED BY <1>3, <2>2, <3>1
  <2> QED BY <1>5, <2>1, <2>2 DEF LastIs
<1>6. ASSUME LastIs(s, p), Head(s) # None, NoPage(Tail(s)) PROVE Head(s) = p
  <2>1. 1 \in 1..Len(s) /\ s[1] # None
    BY <1>1, <1>6
  <2>2. ASSUME NEW j \in 1..Len(s), j > 1 PROVE s[j] = None
    BY <1>3, <1>6, <2>2 DEF NoPage
  <2> QED BY <1>1, <1>6, <2>1, <2>2 DEF LastIs
<1> QED BY <1>1, <1>2, <1>4, <1>5, <1>6

\* What one more message adds.
LEMMA AppendFacts ==
    ASSUME NEW s \in Seq(Pages \cup {None}), NEW e \in Pages \cup {None}, NEW p
    PROVE  /\ Append(s, e) \in Seq(Pages \cup {None})
           /\ Len(Append(s, e)) = Len(s) + 1
           /\ NoPage(Append(s, e)) <=> NoPage(s) /\ e = None
           /\ e = p /\ e # None => LastIs(Append(s, e), p)
           /\ e = None /\ LastIs(s, p) => LastIs(Append(s, e), p)
<1> DEFINE t == Append(s, e)
<1>1. /\ Len(s) \in Nat
      /\ t \in Seq(Pages \cup {None})
      /\ Len(t) = Len(s) + 1
      /\ \A i \in 1..Len(s) : t[i] = s[i]
      /\ t[Len(s) + 1] = e
  BY AppendProperties, LenProperties
<1> HIDE DEF t
<1>2. \A i \in 1..Len(t) : i \in 1..Len(s) \/ i = Len(s) + 1
  BY <1>1
<1>3. NoPage(t) <=> NoPage(s) /\ e = None
  <2>1. ASSUME NoPage(t) PROVE NoPage(s) /\ e = None
    BY <1>1, <2>1 DEF NoPage
  <2>2. ASSUME NoPage(s), e = None PROVE NoPage(t)
    BY <1>1, <1>2, <2>2 DEF NoPage
  <2> QED BY <2>1, <2>2
<1>4. ASSUME e = p, e # None PROVE LastIs(t, p)
  <2> SUFFICES ASSUME NEW i \in 1..Len(t), t[i] # None,
                      \A j \in 1..Len(t) : j > i => t[j] = None
               PROVE  t[i] = p
    BY DEF LastIs
  <2>1. CASE i = Len(s) + 1
    BY <1>1, <1>4, <2>1
  <2>2. CASE i \in 1..Len(s)
    <3>1. Len(s) + 1 \in 1..Len(t) /\ Len(s) + 1 > i
      BY <1>1, <2>2
    <3> QED BY <1>1, <1>4, <3>1
  <2> QED BY <1>2, <2>1, <2>2
<1>5. ASSUME e = None, LastIs(s, p) PROVE LastIs(t, p)
  <2> SUFFICES ASSUME NEW i \in 1..Len(t), t[i] # None,
                      \A j \in 1..Len(t) : j > i => t[j] = None
               PROVE  t[i] = p
    BY DEF LastIs
  <2>1. i \in 1..Len(s) /\ s[i] # None
    BY <1>1, <1>2, <1>5
  <2>2. ASSUME NEW j \in 1..Len(s), j > i PROVE s[j] = None
    BY <1>1, <2>2
  <2> QED BY <1>1, <1>5, <2>1, <2>2 DEF LastIs
<1> QED BY <1>1, <1>3, <1>4, <1>5 DEF t

\* What a page turn sends is about that page.
LEMMA PageTurnFacts ==
    ASSUME NEW p \in Pages
    PROVE  /\ PageTurn(p) \in Seq(Pages \cup {None})
           /\ PageTurn(p) # <<>>
           /\ LastIs(PageTurn(p), p)
           /\ ~NoPage(PageTurn(p))
<1>1. p # None
  BY NoneAssumption
<1>2. CASE provider = "openai"
  <2>1. PageTurn(p) = <<None, p, None>>
    BY <1>2 DEF PageTurn
  <2> QED BY <1>1, <2>1 DEF LastIs, NoPage
<1>3. CASE provider # "openai"
  <2>1. PageTurn(p) = <<p>>
    BY <1>3 DEF PageTurn
  <2> QED BY <1>1, <2>1 DEF LastIs, NoPage
<1> QED BY <1>2, <1>3

\* Nothing is about a page in nothing, nor in what is only said.
LEMMA SpokenFacts ==
    ASSUME NEW p
    PROVE  /\ <<>> \in Seq(Pages \cup {None})
           /\ NoPage(<<>>) /\ LastIs(<<>>, p)
           /\ <<None>> \in Seq(Pages \cup {None}) /\ <<None>> # <<>>
           /\ NoPage(<<None>>) /\ LastIs(<<None>>, p)
BY DEF NoPage, LastIs

\* Relaying takes the first message.
LEMMA RelayedFacts ==
    ASSUME TypeOK, up \in {"relaying", "sending"}, Relayed
    PROVE  /\ outs' \in Seq(Pages \cup {None})
           /\ up' \in {"reading", "relaying"}
           /\ up' = "relaying" => outs' # <<>>
           /\ up' = "reading" => outs' = <<>>
           /\ Head(outs) \in Pages \cup {None}
           /\ NoPage(outs) <=> Head(outs) = None /\ NoPage(outs')
           /\ LastIs(outs, current) => LastIs(outs', current)
           /\ LastIs(outs, current) /\ Head(outs) # None /\ NoPage(outs') => Head(outs) = current
BY TailFacts DEF TypeOK, Relayed

\* The full queue drops its oldest message, and only a page turn counts as missed.
LEMMA KeepFacts ==
    ASSUME TypeOK, NEW e \in Pages \cup {None}, Keep(e)
    PROVE  /\ pending' \in Seq(Pages \cup {None})
           /\ Len(pending') <= MaxPending
           /\ missed' \in BOOLEAN
           /\ missed => missed'
           /\ ~missed' => (NoPage(pending') <=> NoPage(pending) /\ e = None)
           /\ e = current /\ e # None => LastIs(pending', current)
           /\ e = None /\ LastIs(pending, current) => LastIs(pending', current)
<1>1. /\ pending \in Seq(Pages \cup {None}) /\ Len(pending) \in Nat
      /\ Len(pending) <= MaxPending /\ MaxPending \in Nat \ {0}
      /\ missed \in BOOLEAN
  BY LimitAssumption, LenProperties DEF TypeOK
<1>2. CASE Len(pending) = MaxPending
  <2>1. pending # <<>>
    BY <1>1, <1>2
  <2> DEFINE rest == Tail(pending)
  <2>2. /\ rest \in Seq(Pages \cup {None})
        /\ Len(rest) = Len(pending) - 1
        /\ NoPage(pending) <=> Head(pending) = None /\ NoPage(rest)
        /\ LastIs(pending, current) => LastIs(rest, current)
    BY <1>1, <2>1, TailFacts
  <2>3. pending' = Append(rest, e) /\ missed' = (missed \/ Head(pending) # None)
    BY <1>2 DEF Keep
  <2> HIDE DEF rest
  <2>4. /\ pending' \in Seq(Pages \cup {None})
        /\ Len(pending') = Len(rest) + 1
        /\ NoPage(pending') <=> NoPage(rest) /\ e = None
        /\ e = current /\ e # None => LastIs(pending', current)
        /\ e = None /\ LastIs(rest, current) => LastIs(pending', current)
    BY <2>2, <2>3, AppendFacts
  <2>5. Len(pending') <= MaxPending
    BY <1>1, <1>2, <2>2, <2>4
  <2>6. missed' \in BOOLEAN /\ (missed => missed') /\ (~missed' => Head(pending) = None)
    BY <1>1, <2>3, Zenon
  <2> QED BY <2>2, <2>4, <2>5, <2>6
<1>3. CASE Len(pending) # MaxPending
  <2>1. pending' = Append(pending, e) /\ missed' = missed
    BY <1>1, <1>3 DEF Keep
  <2>2. /\ pending' \in Seq(Pages \cup {None})
        /\ Len(pending') = Len(pending) + 1
        /\ NoPage(pending') <=> NoPage(pending) /\ e = None
        /\ e = current /\ e # None => LastIs(pending', current)
        /\ e = None /\ LastIs(pending, current) => LastIs(pending', current)
    BY <1>1, <2>1, AppendFacts
  <2> QED BY <1>1, <1>3, <2>1, <2>2
<1> QED BY <1>2, <1>3

-----------------------------------------------------------------------------
(* The invariant *)

\* The invariant holds initially.
LEMMA InitOK == Init => IInv
<1> SUFFICES ASSUME Init PROVE IInv
  OBVIOUS
<1>1. TypeOK
  <2>1. Len(pending) <= MaxPending
    BY LimitAssumption DEF Init
  <2>2. failures \in 0..MaxFailures /\ inputs \in 0..MaxInputs /\ connections \in 0..MaxConnections
    BY LimitAssumption DEF Init
  <2> QED BY <2>1, <2>2, SpokenFacts DEF Init, TypeOK
<1>2. Agreed /\ Greeting
  BY LimitAssumption DEF Init, Agreed, Greeting
<1>3. Following
  BY SpokenFacts DEF Init, Following
<1> QED BY <1>1, <1>2, <1>3 DEF IInv

\* Every step keeps the types, and the coroutines' agreement.
LEMMA TypeStep == TypeOK /\ Agreed /\ [Next]_vars => TypeOK' /\ Agreed'
<1> SUFFICES ASSUME TypeOK, Agreed, [Next]_vars PROVE TypeOK' /\ Agreed'
  OBVIOUS
<1> USE LimitAssumption, NoneAssumption
<1> USE DEF student, relay, queue, retry, conn, fixed, LineOver, Opens
<1>1. ASSUME Speak PROVE TypeOK' /\ Agreed'
  BY <1>1, SpokenFacts DEF Speak, Reads, TypeOK, Agreed
<1>2. ASSUME NEW p \in Pages, TurnPage(p) PROVE TypeOK' /\ Agreed'
  <2>1. missed' \in BOOLEAN
    BY <1>2, Zenon DEF TurnPage, TypeOK
  <2> QED BY <1>2, <2>1, PageTurnFacts DEF TurnPage, Reads, TypeOK, Agreed
<1>3. ASSUME Leave PROVE TypeOK' /\ Agreed'
  BY <1>3 DEF Leave, TypeOK, Agreed
<1>4. ASSUME StopReading PROVE TypeOK' /\ Agreed'
  BY <1>4 DEF StopReading, TypeOK, Agreed
<1>5. ASSUME Hold PROVE TypeOK' /\ Agreed'
  BY <1>5, RelayedFacts, KeepFacts DEF Hold, TypeOK, Agreed
<1>6. ASSUME Send PROVE TypeOK' /\ Agreed'
  BY <1>6 DEF Send, TypeOK, Agreed
<1>7. ASSUME Sent PROVE TypeOK' /\ Agreed'
  BY <1>7, RelayedFacts DEF Sent, Hears, TypeOK, Agreed
<1>8. ASSUME SendBroken PROVE TypeOK' /\ Agreed'
  BY <1>8, RelayedFacts, KeepFacts DEF SendBroken, TypeOK, Agreed
<1>9. ASSUME Connect PROVE TypeOK' /\ Agreed'
  BY <1>9 DEF Connect, Taught, TypeOK, Agreed
<1>10. ASSUME ConnectFails PROVE TypeOK' /\ Agreed'
  BY <1>10 DEF ConnectFails, TypeOK, Agreed
<1>11. ASSUME SetupComplete PROVE TypeOK' /\ Agreed'
  <2>1. /\ pending' \in Seq(Pages \cup {None})
        /\ Len(pending') <= MaxPending
        /\ line' \in {"flushing", "greeting"}
    <3>1. CASE resuming
      BY <1>11, <3>1 DEF SetupComplete, TypeOK
    <3>2. CASE ~resuming
      <4>1. pending' = <<>> /\ line' = "greeting"
        BY <1>11, <3>2 DEF SetupComplete
      <4> QED BY <4>1, SpokenFacts
    <3> QED BY <3>1, <3>2
  <2>2. TypeOK'
    BY <1>11, <2>1 DEF SetupComplete, TypeOK
  <2>3. Agreed'
    BY <1>11, <2>1 DEF SetupComplete, Agreed
  <2> QED BY <2>2, <2>3
<1>12. ASSUME Flush PROVE TypeOK' /\ Agreed'
  <2>1. /\ Head(pending) \in Pages \cup {None}
        /\ pending' \in Seq(Pages \cup {None})
        /\ Len(pending') <= MaxPending
    BY <1>12, TailFacts DEF Flush, TypeOK
  <2>2. CASE alive
    BY <1>12, <2>1, <2>2 DEF Flush, Hears, TypeOK, Agreed
  <2>3. CASE ~alive
    BY <1>12, <2>1, <2>3 DEF Flush, TypeOK, Agreed
  <2> QED BY <2>2, <2>3
<1>13. ASSUME Flushed PROVE TypeOK' /\ Agreed'
  BY <1>13 DEF Flushed, TypeOK, Agreed
<1>14. ASSUME TellReady PROVE TypeOK' /\ Agreed'
  BY <1>14 DEF TellReady, TypeOK, Agreed
<1>15. ASSUME Kickoff PROVE TypeOK' /\ Agreed'
  <2>1. CASE alive
    BY <1>15, <2>1 DEF Kickoff, TypeOK, Agreed
  <2>2. CASE ~alive
    BY <1>15, <2>2 DEF Kickoff, TypeOK, Agreed
  <2> QED BY <2>1, <2>2
<1>16. ASSUME GetHandle PROVE TypeOK' /\ Agreed'
  BY <1>16 DEF GetHandle, TypeOK, Agreed
<1>17. ASSUME GoAway PROVE TypeOK' /\ Agreed'
  BY <1>17 DEF GoAway, TypeOK, Agreed
<1>18. ASSUME Drop PROVE TypeOK' /\ Agreed'
  <2>1. TypeOK'
    <3>1. /\ UNCHANGED <<provider, first, current, left, up, outs, pending, missed>>
          /\ UNCHANGED <<loop, failures, resuming, handle, line, ready, taking, tutor, greeted>>
          /\ UNCHANGED <<inputs, connections>>
          /\ alive' \in BOOLEAN
      BY <1>18 DEF Drop
    <3> QED BY <3>1 DEF TypeOK
  <2>2. Agreed'
    BY <1>18 DEF Drop, Agreed
  <2> QED BY <2>1, <2>2
<1>19. ASSUME Notice PROVE TypeOK' /\ Agreed'
  BY <1>19 DEF Notice, TypeOK, Agreed
<1>20. ASSUME NobodyListens PROVE TypeOK' /\ Agreed'
  BY <1>20 DEF NobodyListens, TypeOK, Agreed
<1>21. ASSUME HangUp PROVE TypeOK' /\ Agreed'
  BY <1>21 DEF HangUp, TypeOK, Agreed
<1>22. ASSUME NextConnection PROVE TypeOK' /\ Agreed'
  <2>1. failures' \in 0..MaxFailures
    BY <1>22 DEF NextConnection, Failures, TypeOK, Agreed
  <2>2. loop' = "waiting" => failures' < MaxFailures
    BY <1>22, <2>1 DEF NextConnection, Hopeless
  <2> QED BY <1>22, <2>1, <2>2 DEF NextConnection, TypeOK, Agreed
<1>23. ASSUME Cut PROVE TypeOK' /\ Agreed'
  BY <1>23 DEF Cut, TypeOK, Agreed
<1>24. ASSUME UNCHANGED vars PROVE TypeOK' /\ Agreed'
  BY <1>24 DEF vars, TypeOK, Agreed
<1> QED
  BY <1>1, <1>2, <1>3, <1>4, <1>5, <1>6, <1>7, <1>8, <1>9, <1>10, <1>11, <1>12, <1>13, <1>14,
     <1>15, <1>16, <1>17, <1>18, <1>19, <1>20, <1>21, <1>22, <1>23, <1>24
  DEF Next, StudentStep, RelayStep, LineStep, LoopStep, Over

\* Every step keeps the order of the greeting.
LEMMA GreetingStep == IInv /\ [Next]_vars => Greeting'
<1> SUFFICES ASSUME IInv, [Next]_vars PROVE Greeting'
  OBVIOUS
<1> USE DEF IInv, Greeting, student, relay, queue, retry, conn, fixed, LineOver, Opens
<1>1. ASSUME Speak PROVE Greeting'
  BY <1>1 DEF Speak, Reads
<1>2. ASSUME NEW p \in Pages, TurnPage(p) PROVE Greeting'
  BY <1>2 DEF TurnPage, Reads
<1>3. ASSUME Leave PROVE Greeting'
  BY <1>3 DEF Leave
<1>4. ASSUME StopReading PROVE Greeting'
  BY <1>4 DEF StopReading
<1>5. ASSUME Hold PROVE Greeting'
  BY <1>5 DEF Hold
<1>6. ASSUME Send PROVE Greeting'
  BY <1>6 DEF Send
<1>7. ASSUME Sent PROVE Greeting'
  BY <1>7 DEF Sent
<1>8. ASSUME SendBroken PROVE Greeting'
  BY <1>8 DEF SendBroken
<1>9. ASSUME Connect PROVE Greeting'
  BY <1>9 DEF Connect
<1>10. ASSUME ConnectFails PROVE Greeting'
  BY <1>10 DEF ConnectFails
<1>11. ASSUME SetupComplete PROVE Greeting'
  BY <1>11 DEF SetupComplete
<1>12. ASSUME Flush PROVE Greeting'
  BY <1>12 DEF Flush
<1>13. ASSUME Flushed PROVE Greeting'
  BY <1>13 DEF Flushed, Agreed
<1>14. ASSUME TellReady PROVE Greeting'
  BY <1>14 DEF TellReady
<1>15. ASSUME Kickoff PROVE Greeting'
  BY <1>15 DEF Kickoff
<1>16. ASSUME GetHandle PROVE Greeting'
  BY <1>16 DEF GetHandle, Agreed
<1>17. ASSUME GoAway PROVE Greeting'
  BY <1>17 DEF GoAway
<1>18. ASSUME Drop PROVE Greeting'
  BY <1>18 DEF Drop
<1>19. ASSUME Notice PROVE Greeting'
  BY <1>19 DEF Notice
<1>20. ASSUME NobodyListens PROVE Greeting'
  BY <1>20 DEF NobodyListens
<1>21. ASSUME HangUp PROVE Greeting'
  BY <1>21 DEF HangUp
<1>22. ASSUME NextConnection PROVE Greeting'
  BY <1>22 DEF NextConnection, Hopeless, TypeOK
<1>23. ASSUME Cut PROVE Greeting'
  BY <1>23 DEF Cut
<1>24. ASSUME UNCHANGED vars PROVE Greeting'
  BY <1>24 DEF vars
<1> QED
  BY <1>1, <1>2, <1>3, <1>4, <1>5, <1>6, <1>7, <1>8, <1>9, <1>10, <1>11, <1>12, <1>13, <1>14,
     <1>15, <1>16, <1>17, <1>18, <1>19, <1>20, <1>21, <1>22, <1>23, <1>24
  DEF Next, StudentStep, RelayStep, LineStep, LoopStep, Over

\* Every step keeps the page on its way.
LEMMA FollowingStep == IInv /\ [Next]_vars => Following'
<1> SUFFICES ASSUME IInv, [Next]_vars, up' # "over", ~missed' PROVE Following'
  BY DEF Following
<1> USE NoneAssumption
<1> USE DEF IInv, student, relay, queue, retry, conn, fixed, LineOver, Opens
<1>1. ASSUME Speak PROVE Following'
  <2>1. outs = <<>> /\ outs' = <<None>>
    BY <1>1 DEF Speak, Reads, Agreed
  <2> QED BY <1>1, <2>1, SpokenFacts DEF Speak, Reads, Following
<1>2. ASSUME NEW p \in Pages, TurnPage(p) PROVE Following'
  <2>1. LastIs(outs', current') /\ ~NoPage(outs')
    BY <1>2, PageTurnFacts DEF TurnPage, Reads
  <2>2. ~Early
    BY <1>2, Zenon DEF TurnPage
  <2>3. ~(~resuming /\ line \in {"connecting", "setup", "greeting", "kickoff"})
    BY <2>2 DEF Early, Agreed
  <2>4. ~missed /\ up # "over"
    BY <1>2 DEF TurnPage, Reads
  <2> QED BY <1>2, <2>1, <2>3, <2>4 DEF TurnPage, Reads, Following
<1>3. ASSUME Leave PROVE Following'
  BY <1>3 DEF Leave, Following, Agreed, Greeting
<1>4. ASSUME StopReading PROVE Following'
  BY <1>4 DEF StopReading, Following, Agreed, Greeting
<1>5. ASSUME Hold PROVE Following'
  <2> DEFINE e == Head(outs)
  <2>1. /\ Relayed /\ up = "relaying" /\ e \in Pages \cup {None}
        /\ NoPage(outs) <=> e = None /\ NoPage(outs')
        /\ LastIs(outs, current) => LastIs(outs', current)
        /\ LastIs(outs, current) /\ e # None /\ NoPage(outs') => e = current
    BY <1>5, RelayedFacts DEF Hold
  <2>2. /\ missed => missed'
        /\ ~missed' => (NoPage(pending') <=> NoPage(pending) /\ e = None)
        /\ e = current /\ e # None => LastIs(pending', current)
        /\ e = None /\ LastIs(pending, current) => LastIs(pending', current)
    BY <1>5, <2>1, KeepFacts DEF Hold
  <2> HIDE DEF e
  <2>3. ~missed /\ up # "over" /\ line # "open"
    BY <1>5, <2>1, <2>2 DEF Hold, Agreed
  <2> QED BY <1>5, <2>1, <2>2, <2>3 DEF Hold, Following
<1>6. ASSUME Send PROVE Following'
  BY <1>6 DEF Send, Following, Agreed, Greeting
<1>7. ASSUME Sent PROVE Following'
  <2> DEFINE e == Head(outs)
  <2>1. /\ Relayed /\ up = "sending" /\ e \in Pages \cup {None}
        /\ NoPage(outs) <=> e = None /\ NoPage(outs')
        /\ LastIs(outs, current) => LastIs(outs', current)
        /\ LastIs(outs, current) /\ e # None /\ NoPage(outs') => e = current
    BY <1>7, RelayedFacts DEF Sent
  <2>2. tutor' = IF e = None THEN tutor ELSE e
    BY <1>7 DEF Sent, Hears
  <2> HIDE DEF e
  <2>3. line = "open" /\ alive
    BY <1>7 DEF Sent, Agreed
  <2>4. ~missed /\ up # "over" /\ NoPage(pending)
    BY <1>7, <2>1, <2>3 DEF Sent, Following
  <2>5. LastIs(outs, current) /\ (NoPage(outs) => tutor = current)
    BY <2>3, <2>4 DEF Following
  <2>6. NoPage(outs') => tutor' = current
    BY <2>1, <2>2, <2>5
  <2>7. /\ UNCHANGED <<current, pending, missed, line, alive, resuming, first>>
        /\ LastIs(outs', current) /\ LastIs(pending, current)
    <3>1. LastIs(pending, current)
      BY <2>4 DEF LastIs, NoPage
    <3> QED BY <1>7, <2>1, <2>5, <3>1 DEF Sent
  <2> QED BY <2>3, <2>4, <2>6, <2>7 DEF Following
<1>8. ASSUME SendBroken PROVE Following'
  <2> DEFINE e == Head(outs)
  <2>1. /\ Relayed /\ up = "sending" /\ e \in Pages \cup {None}
        /\ NoPage(outs) <=> e = None /\ NoPage(outs')
        /\ LastIs(outs, current) => LastIs(outs', current)
        /\ LastIs(outs, current) /\ e # None /\ NoPage(outs') => e = current
    BY <1>8, RelayedFacts DEF SendBroken
  <2>2. /\ missed => missed'
        /\ ~missed' => (NoPage(pending') <=> NoPage(pending) /\ e = None)
        /\ e = current /\ e # None => LastIs(pending', current)
        /\ e = None /\ LastIs(pending, current) => LastIs(pending', current)
    BY <1>8, <2>1, KeepFacts DEF SendBroken
  <2> HIDE DEF e
  <2>3. ~missed /\ up # "over" /\ ~alive
    BY <1>8, <2>1, <2>2 DEF SendBroken
  <2> QED BY <1>8, <2>1, <2>2, <2>3 DEF SendBroken, Following
<1>9. ASSUME Connect PROVE Following'
  BY <1>9 DEF Connect, Following, Agreed, Greeting, Taught
<1>10. ASSUME ConnectFails PROVE Following'
  BY <1>10 DEF ConnectFails, Following, Agreed, Greeting
<1>11. ASSUME SetupComplete PROVE Following'
  <2>1. CASE resuming
    BY <1>11, <2>1 DEF SetupComplete, Following
  <2>2. CASE ~resuming
    BY <1>11, <2>2, SpokenFacts DEF SetupComplete, Following
  <2> QED BY <2>1, <2>2
<1>12. ASSUME Flush PROVE Following'
  <2>1. /\ NoPage(pending) <=> Head(pending) = None /\ NoPage(pending')
        /\ LastIs(pending, current) => LastIs(pending', current)
        /\ LastIs(pending, current) /\ Head(pending) # None /\ NoPage(pending')
              => Head(pending) = current
    BY <1>12, TailFacts DEF Flush, TypeOK
  <2>2. CASE alive
    BY <1>12, <2>1, <2>2 DEF Flush, Hears, Following, Greeting
  <2>3. CASE ~alive
    BY <1>12, <2>1, <2>3 DEF Flush, Following, Greeting
  <2> QED BY <2>2, <2>3
<1>13. ASSUME Flushed PROVE Following'
  BY <1>13, SpokenFacts DEF Flushed, Following, Agreed, Greeting
<1>14. ASSUME TellReady PROVE Following'
  BY <1>14 DEF TellReady, Following, Agreed, Greeting
<1>15. ASSUME Kickoff PROVE Following'
  BY <1>15 DEF Kickoff, Following, Agreed, Greeting
<1>16. ASSUME GetHandle PROVE Following'
  BY <1>16 DEF GetHandle, Following, Agreed, Greeting
<1>17. ASSUME GoAway PROVE Following'
  BY <1>17 DEF GoAway, Following, Agreed, Greeting
<1>18. ASSUME Drop PROVE Following'
  BY <1>18 DEF Drop, Following, Agreed, Greeting
<1>19. ASSUME Notice PROVE Following'
  BY <1>19 DEF Notice, Following, Agreed, Greeting
<1>20. ASSUME NobodyListens PROVE Following'
  BY <1>20 DEF NobodyListens, Following, Agreed, Greeting
<1>21. ASSUME HangUp PROVE Following'
  BY <1>21 DEF HangUp, Following, Agreed, Greeting
<1>22. ASSUME NextConnection PROVE Following'
  BY <1>22 DEF NextConnection, Following, Agreed, Greeting
<1>23. ASSUME Cut PROVE Following'
  BY <1>23 DEF Cut, Following, Agreed, Greeting
<1>24. ASSUME UNCHANGED vars PROVE Following'
  BY <1>24 DEF vars, Following
<1> QED
  BY <1>1, <1>2, <1>3, <1>4, <1>5, <1>6, <1>7, <1>8, <1>9, <1>10, <1>11, <1>12, <1>13, <1>14,
     <1>15, <1>16, <1>17, <1>18, <1>19, <1>20, <1>21, <1>22, <1>23, <1>24
  DEF Next, StudentStep, RelayStep, LineStep, LoopStep, Over

-----------------------------------------------------------------------------
(* The results *)

\* IInv is an invariant of the specification.
LEMMA Invariance == Spec => []IInv
<1>1. IInv /\ [Next]_vars => IInv'
  BY TypeStep, GreetingStep, FollowingStep DEF IInv
<1> QED BY InitOK, <1>1, PTL DEF Spec

\* The variables of the proxy keep their types; pending holds at most MaxPending messages.
THEOREM TypeCorrect == Spec => []TypeOK
<1>1. IInv => TypeOK
  BY DEF IInv
<1> QED BY Invariance, <1>1, PTL

\* The tutor introduces itself at most once, and Gemini's before it listens.
THEOREM TutorSpeaksFirst == Spec => []GreetedFirst
<1>1. IInv => GreetedFirst
  BY DEF IInv, Greeting, GreetedFirst
<1> QED BY Invariance, <1>1, PTL

\* A connection that listens knows the student's page once everything is delivered, over
\* any number of reconnects, broken sends and lost flushes.
THEOREM PageIsFollowed == Spec => []TutorFollows
<1>1. IInv => TutorFollows
  <2> SUFFICES ASSUME IInv, taking, alive, up = "reading", ~missed PROVE tutor = current
    BY DEF TutorFollows
  <2>1. line = "open" /\ outs = <<>>
    BY DEF IInv, Agreed
  <2>2. NoPage(outs) /\ NoPage(pending)
    BY <2>1, SpokenFacts DEF IInv, Following
  <2> QED BY <2>1, <2>2 DEF IInv, Following
<1> QED BY Invariance, <1>1, PTL
=============================================================================
