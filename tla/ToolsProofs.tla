------------------------------- MODULE ToolsProofs ----------------------------
(***************************************************************************)
(* Proofs about the three parts of MCSoundsAndTools: the sounds of a       *)
(* program, for every number of contexts, buses, sounds and captures; the  *)
(* two tools of ToolParts, for every set of documents, texts and imports,  *)
(* any number of messages under way, compilers, members and versions.      *)
(*                                                                         *)
(* The session.  What the server will have of a document is decided by the *)
(* last message that gives it a text; what is shown for a document was     *)
(* made in some world of texts, and wherever that world differs from what  *)
(* the server has, an analysis of the document that differs is under way,  *)
(* which the dependencies carry on to those that read it.                  *)
(*                                                                         *)
(* The library.  A stamp that is not older than the archive tells the      *)
(* truth; the old files go before the first member is written.             *)
(*                                                                         *)
(* The sounds, at the end of the module, have a comment of their own.      *)
(***************************************************************************)
EXTENDS WavioEngine, ToolParts, Sequences, FiniteSetTheorems, TLAPS

-------------------------------------------------------------------------------
TextsOrNone == Texts \cup {NoText}
Worlds == [Documents -> TextsOrNone]

\* What is loaded is closed under imports, and the least such set.
LEMMA LoadedClosed ==
    ASSUME ToolConstants, NEW w \in Worlds, NEW t \in TextsOrNone
    PROVE  /\ S!Loaded(w, t) \in SUBSET Documents
           /\ S!Closed(w, t, S!Loaded(w, t))
           /\ \A s \in SUBSET Documents : S!Closed(w, t, s) => S!Loaded(w, t) \subseteq s
<1> DEFINE M == S!Loaded(w, t)
<1>1. M \in SUBSET Documents
  BY DEF S!Loaded
<1>2. \A d \in Documents : d \in M <=> \A s \in SUBSET Documents : S!Closed(w, t, s) => d \in s
  BY DEF S!Loaded
<1>3. \A x \in TextsOrNone : S!Imports(x) \subseteq Documents
  BY DEF S!Imports, TextsOrNone, ToolConstants, S!SessionAssumption
<1>4. \A d \in M : w[d] \in TextsOrNone
  BY <1>1 DEF Worlds
<1> HIDE DEF M
<1>5. S!Imports(t) \subseteq M
  BY <1>2, <1>3 DEF S!Closed
<1>6. ASSUME NEW d \in M PROVE S!Imports(w[d]) \subseteq M
  BY <1>1, <1>2, <1>3, <1>4 DEF S!Closed
<1>7. \A s \in SUBSET Documents : S!Closed(w, t, s) => M \subseteq s
  BY <1>1, <1>2
<1> QED
  BY <1>1, <1>5, <1>6, <1>7 DEF S!Closed, M

\* What is loaded depends on the texts that are loaded only.
LEMMA LoadedSame ==
    ASSUME ToolConstants, NEW v \in Worlds, NEW w \in Worlds, NEW t \in TextsOrNone,
           \A e \in S!Loaded(v, t) : v[e] = w[e]
    PROVE  S!Loaded(v, t) = S!Loaded(w, t)
<1> DEFINE V == S!Loaded(v, t)
           W == S!Loaded(w, t)
<1>1. /\ V \in SUBSET Documents /\ S!Closed(v, t, V)
      /\ \A s \in SUBSET Documents : S!Closed(v, t, s) => V \subseteq s
  BY LoadedClosed
<1>2. /\ W \in SUBSET Documents /\ S!Closed(w, t, W)
      /\ \A s \in SUBSET Documents : S!Closed(w, t, s) => W \subseteq s
  BY LoadedClosed
<1>3. \A e \in V : v[e] = w[e]
  OBVIOUS
<1> HIDE DEF V, W
<1>4. S!Closed(w, t, V)
  BY <1>1, <1>3 DEF S!Closed
<1>5. W \subseteq V
  BY <1>1, <1>2, <1>4
<1>6. S!Closed(v, t, W)
  BY <1>2, <1>3, <1>5 DEF S!Closed
<1> QED
  BY <1>1, <1>2, <1>5, <1>6 DEF V, W
-------------------------------------------------------------------------------
Kinds == {"open", "sync", "change", "close", "watched", "ask", "complete"}
Messages == [kind : Kinds, doc : Documents, text : TextsOrNone]

\* Types
SessionTypes ==
    /\ file \in Worlds /\ buffer \in Worlds /\ documents \in Worlds
    /\ timer \in [Documents -> {"no", "set"}] /\ status \in {"down", "starting", "up"}
    /\ queue \in Seq(Messages) /\ dependencies \in [Documents -> SUBSET Documents]
    /\ \A d \in Documents : /\ timer[d] = "set" => buffer[d] # NoText
                            /\ buffer[d] # NoText => file[d] # NoText
    /\ status = "down" => queue = << >> /\ documents = [d \in Documents |-> NoText]

\* A message that gives a text and asks for its analysis
Tells(m, e) == m.doc = e /\ m.kind \in {"open", "change"}
\* The last place where e is told: a message under way, or 0 for one that is handled
LastTold(e, i) == /\ i = 0 \/ Tells(queue[i], e)
                  /\ \A j \in i + 1 .. Len(queue) : ~Tells(queue[j], e)
Told(e, i) == IF i = 0 THEN documents[e] ELSE queue[i].text
Closes(e, i, k) == \E j \in i + 1 .. k : queue[j].doc = e /\ queue[j].kind = "close"

\* What is sent after the last place: the same text, or to a server that is not told yet
\* the one that the editor holds or, if the tab was closed since, the one of its file
Latest(e, i) == IF Told(e, i) # NoText THEN Told(e, i)
                ELSE IF Closes(e, i, Len(queue)) THEN file[e] ELSE buffer[e]

\* Without a timer the server is told, in the end, what the editor holds; texts that
\* are sent after that are the latest, and a tab is closed with the text of its file.
Knows(e, i) ==
    /\ \A j \in i + 1 .. Len(queue) : (queue[j].doc = e /\ queue[j].kind = "sync") =>
           queue[j].text = Latest(e, i) /\ ~Closes(e, i, j)
    /\ Closes(e, i, Len(queue)) => buffer[e] = NoText /\ Told(e, i) \in {file[e], NoText}
    /\ \/ Closes(e, i, Len(queue)) \/ Told(e, i) = buffer[e]
       \/ status # "up" /\ Told(e, i) = NoText
KnowsAt(e) == timer[e] = "no" => \A i \in 0 .. Len(queue) : LastTold(e, i) => Knows(e, i)
Knowing == \A e \in Documents : KnowsAt(e)

\* An analysis of e is to come; those that import e follow it.
Pending(e) == timer[e] # "no" \/ \E i \in 1 .. Len(queue) : Tells(queue[i], e)
Quiet(d) == ~Pending(d) /\ ~Closes(d, 0, Len(queue))

\* What is shown for d was made from its text and from texts that either are still
\* there or are about to be told, and d depends on all of them.
Made(w, t) == [text |-> t, read |-> [e \in S!Loaded(w, t) |-> w[e]]]
Current(d, e, text) == e \in dependencies[d] /\ (Pending(e) \/ text = S!OnDisk(documents)[e])
Shows(d) == \E w \in Worlds :
    /\ shown[d] = Made(w, documents[d])
    /\ S!Missed(d) \/ \A e \in S!Loaded(w, documents[d]) : Current(d, e, w[e])
AllShown == status = "up" => \A d \in Documents : Quiet(d) /\ buffer[d] # NoText =>
                analyses[d] = shown[d] /\ Shows(d)

SessionInv == SessionTypes /\ Knowing /\ AllShown

\* At the start the invariant holds.
LEMMA SessionInit == ASSUME ToolConstants, S!Init PROVE SessionInv
<1> USE DEF ToolConstants, S!SessionAssumption, S!Init, TextsOrNone, Worlds
<1>1. SessionTypes
  BY DEF SessionTypes
<1>2. Knowing
  BY DEF Knowing, KnowsAt, LastTold, Told, Latest, Knows, Closes
<1>3. AllShown
  BY DEF AllShown
<1> QED
  BY <1>1, <1>2, <1>3 DEF SessionInv
-------------------------------------------------------------------------------
\* The texts as imports find them are a world.
LEMMA OnDiskWorld == ASSUME ToolConstants, file \in Worlds, NEW texts \in Worlds
                     PROVE  S!OnDisk(texts) \in Worlds
BY DEF Worlds, S!OnDisk, S!World, TextsOrNone

\* When all is quiet, what was shown is what an analysis of now would show.
LEMMA QuietIsRight == ASSUME ToolConstants, SessionInv PROVE SettledIsRight
<1> SUFFICES ASSUME S!Settled
             PROVE  /\ documents = buffer
                    /\ \A d \in S!Open(buffer) : S!Right(d) /\ analyses[d] = shown[d]
  BY DEF SettledIsRight, S!SettledIsRight
<1>1. /\ status = "up" /\ queue = << >> /\ \A d \in Documents : timer[d] = "no"
      /\ file \in Worlds /\ buffer \in Worlds /\ documents \in Worlds
  BY DEF S!Settled, SessionInv, SessionTypes
<1>2. ASSUME NEW e \in Documents PROVE documents[e] = buffer[e] /\ ~Pending(e) /\ Quiet(e)
  <2>1. Len(queue) = 0
    BY <1>1
  <2>2. LastTold(e, 0) /\ ~Closes(e, 0, 0) /\ ~Pending(e)
    BY <1>1, <2>1 DEF LastTold, Closes, Pending
  <2>3. Knows(e, 0)
    BY <1>1, <2>1, <2>2 DEF SessionInv, Knowing, KnowsAt
  <2> QED
    BY <1>1, <2>1, <2>2, <2>3 DEF Knows, Told, Quiet
<1>3. documents = buffer
  BY <1>1, <1>2 DEF Worlds
<1>4. ASSUME NEW d \in S!Open(buffer) PROVE S!Right(d) /\ analyses[d] = shown[d]
  <2>1. d \in Documents /\ buffer[d] # NoText
    BY DEF S!Open
  <2>2. analyses[d] = shown[d] /\ Shows(d)
    BY <1>1, <1>2, <2>1 DEF SessionInv, AllShown
  <2>3. PICK w \in Worlds :
            /\ shown[d] = Made(w, documents[d])
            /\ S!Missed(d) \/ \A e \in S!Loaded(w, documents[d]) : Current(d, e, w[e])
    BY <2>2 DEF Shows
  <2>4. ASSUME ~S!Missed(d) PROVE shown[d] = S!Analysis(buffer, d)
    <3> DEFINE now == S!OnDisk(documents)
               t == documents[d]
    <3>1. now \in Worlds /\ t \in TextsOrNone
      BY <1>1, <2>1, OnDiskWorld DEF Worlds
    <3>2. \A e \in S!Loaded(w, t) : w[e] = now[e]
      BY <1>2, <2>3, <2>4 DEF Current, S!Loaded
    <3> HIDE DEF now, t
    <3>3. S!Loaded(w, t) = S!Loaded(now, t)
      BY <3>1, <3>2, LoadedSame
    <3>4. [e \in S!Loaded(w, t) |-> w[e]] = [e \in S!Loaded(now, t) |-> now[e]]
      BY <3>2, <3>3
    <3>5. S!Analysis(documents, d) = Made(now, t)
      BY DEF S!Analysis, S!Read, Made, now, t
    <3> QED
      BY <1>3, <2>3, <3>4, <3>5 DEF Made, t
  <2> QED
    BY <2>2, <2>4 DEF S!Right
<1> QED
  BY <1>3, <1>4
-------------------------------------------------------------------------------
\* What the editor sends
LEMMA MessageType == ASSUME NEW kind \in Kinds, NEW d \in Documents, NEW text \in TextsOrNone
                     PROVE  S!Message(kind, d, text) \in Messages
BY DEF S!Message, Messages

\* notify() keeps the queue a sequence of messages.
LEMMA SentType == ASSUME SessionTypes, NEW ms \in Seq(Messages), S!Sent(ms)
                  PROVE  /\ queue' \in Seq(Messages)
                         /\ status = "down" => queue' = << >>
                         /\ status # "down" => queue' = queue \o ms
BY DEF SessionTypes, S!Sent

\* The messages of Ready open every document that the editor has open.
Reopened(ms) ==
    /\ ms \in Seq(Messages)
    /\ \A i \in 1 .. Len(ms) : ms[i].kind = "open" /\ ms[i].doc \in S!Open(buffer)
                               /\ ms[i].text = buffer[ms[i].doc]
    /\ \A d \in S!Open(buffer) : \E i \in 1 .. Len(ms) :
          ms[i].doc = d /\ \A j \in i + 1 .. Len(ms) : ms[j].doc # d

\* A restarted client opens its documents on the empty queue.
LEMMA ReadySends == ASSUME ToolConstants, SessionTypes, S!Ready
                    PROVE  \E ms : Reopened(ms) /\ queue' = queue \o ms
<1> DEFINE O == S!Open(buffer)
           D == 1 .. Cardinality(O)
<1>1. IsFiniteSet(O)
  <2>1. IsFiniteSet(Documents) <=> S!IsFiniteSet(Documents)
    BY DEF IsFiniteSet, S!IsFiniteSet
  <2> QED
    BY <2>1, FS_Subset DEF ToolConstants, S!SessionAssumption, S!Open
<1>2. PICK order \in S!SetToSeqs(O) :
          queue' = queue \o [i \in DOMAIN order |-> S!Message("open", order[i], buffer[order[i]])]
  BY DEF S!Ready
<1>3. order \in [D -> O] /\ \A i, j \in D : i # j => order[i] # order[j]
  <2>1. Cardinality(O) = S!Cardinality(O)
    BY Zenon DEF Cardinality, S!Cardinality
  <2> QED
    BY <1>2, <2>1 DEF S!SetToSeqs
<1>4. D = 1 .. Cardinality(O) /\ Cardinality(O) \in Nat
  BY <1>1, FS_CardinalityType
<1>5. O \subseteq Documents /\ \A d \in O : buffer[d] \in TextsOrNone
  BY DEF S!Open, SessionTypes, Worlds
<1> HIDE DEF D, O
<1>6. \A d \in O : \E i \in D : order[i] = d
  <2>1. IsFiniteSet(D) /\ Cardinality(D) = Cardinality(O)
    BY <1>4, FS_Interval
  <2>2. order \in Surjection(D, O)
    <3>1. order \in Injection(D, O)
      BY <1>3 DEF Injection, IsInjective
    <3> QED
      BY <1>1, <2>1, <3>1, FS_Injection
  <2> QED
    BY <2>2 DEF Surjection
<1> DEFINE ms == [i \in D |-> S!Message("open", order[i], buffer[order[i]])]
<1>7. ms \in Seq(Messages) /\ Len(ms) = Cardinality(O)
  <2>1. \A i \in D : ms[i] \in Messages
    BY <1>3, <1>5, MessageType DEF Kinds
  <2> QED
    BY <1>4, <2>1
<1>8. \A i \in D : ms[i].kind = "open" /\ ms[i].doc = order[i] /\ ms[i].text = buffer[order[i]]
  BY DEF S!Message
<1>9. queue' = queue \o ms
  BY <1>2, <1>3
<1> HIDE DEF ms
<1>10. 1 .. Len(ms) = D
  BY <1>4, <1>7
<1>11. Reopened(ms)
  <2>1. \A i \in 1 .. Len(ms) : ms[i].kind = "open" /\ ms[i].doc \in O
                               /\ ms[i].text = buffer[ms[i].doc]
    BY <1>3, <1>8, <1>10
  <2>2. ASSUME NEW d \in O
        PROVE  \E i \in 1 .. Len(ms) : ms[i].doc = d /\ \A j \in i + 1 .. Len(ms) : ms[j].doc # d
    <3>1. PICK i \in D : order[i] = d
      BY <1>6
    <3>2. ASSUME NEW j \in i + 1 .. Len(ms) PROVE ms[j].doc # d
      <4>1. j \in D /\ j # i
        BY <1>4, <1>7, <3>1
      <4> QED
        BY <1>3, <1>8, <3>1, <4>1
    <3> QED
      BY <1>8, <1>10, <3>1, <3>2
  <2> QED
    BY <1>7, <2>1, <2>2 DEF Reopened, O
<1> QED
  BY <1>9, <1>11
-------------------------------------------------------------------------------
\* What each kind of step leaves alone.  A step of the editor sends messages, which a
\* server that is down loses.
Sends(ms) == /\ ms \in Seq(Messages) /\ queue' = (IF status = "down" THEN queue ELSE queue \o ms)
             /\ documents' = documents /\ analyses' = analyses /\ dependencies' = dependencies
             /\ shown' = shown

\* What each step of the editor sends, in the words of Sends: a tab opened, ...
LEMMA OpenTabSends ==
    ASSUME ToolConstants, SessionTypes, NEW d \in Documents, S!OpenTab(d)
    PROVE  /\ Sends(<<S!Message("open", d, file[d])>>) /\ UNCHANGED <<file, timer, status>>
           /\ buffer[d] = NoText /\ file[d] # NoText /\ timer[d] = "no"
           /\ buffer' = [buffer EXCEPT ![d] = file[d]]
<1>1. S!Message("open", d, file[d]) \in Messages
  BY MessageType DEF Kinds, SessionTypes, Worlds
<1> QED
  BY <1>1 DEF S!OpenTab, Sends, S!Sent, S!server

\* ... a file created, ...
LEMMA CreateSends ==
    ASSUME ToolConstants, SessionTypes, NEW d \in Documents, NEW text \in Texts, S!Create(d, text)
    PROVE  /\ Sends(<<S!Message("open", d, text)>>) /\ UNCHANGED <<timer, status>>
           /\ file[d] = NoText /\ buffer[d] = NoText /\ timer[d] = "no"
           /\ buffer' = [buffer EXCEPT ![d] = text] /\ file' = [file EXCEPT ![d] = text]
<1>1. S!Message("open", d, text) \in Messages
  BY MessageType DEF Kinds, TextsOrNone
<1> QED
  BY <1>1 DEF S!Create, Sends, S!Sent, S!server, SessionTypes

\* ... an edit, ...
LEMMA EditSends ==
    ASSUME ToolConstants, SessionTypes, NEW d \in Documents, NEW text \in Texts, S!Edit(d, text)
    PROVE  /\ Sends(<<S!Message("sync", d, text)>>) /\ UNCHANGED <<file, status>>
           /\ buffer[d] # NoText
           /\ buffer' = [buffer EXCEPT ![d] = text] /\ timer' = [timer EXCEPT ![d] = "set"]
<1>1. S!Message("sync", d, text) \in Messages
  BY MessageType DEF Kinds, TextsOrNone
<1> QED
  BY <1>1 DEF S!Edit, Sends, S!Sent, S!server, SessionTypes

\* ... a timer that fires, ...
LEMMA TimerFiresSends ==
    ASSUME ToolConstants, SessionTypes, NEW d \in Documents, S!TimerFires(d)
    PROVE  /\ Sends(<<S!Message("change", d, buffer[d])>>) /\ UNCHANGED <<file, buffer, status>>
           /\ timer[d] = "set" /\ timer' = [timer EXCEPT ![d] = "no"]
<1>1. S!Message("change", d, buffer[d]) \in Messages
  BY MessageType DEF Kinds, SessionTypes, Worlds
<1>2. timer[d] = "set"
  BY DEF S!TimerFires, SessionTypes
<1> QED
  BY <1>1, <1>2 DEF S!TimerFires, Sends, S!Sent, S!server

\* ... a file saved, ...
LEMMA SaveSends ==
    ASSUME ToolConstants, SessionTypes, NEW d \in Documents, S!Save(d)
    PROVE  /\ \E ms : Sends(ms) /\ \A i \in 1 .. Len(ms) : ms[i].kind = "watched"
           /\ UNCHANGED <<buffer, timer, status>>
           /\ buffer[d] # NoText /\ file' = [file EXCEPT ![d] = buffer[d]]
<1> DEFINE m == S!Message("watched", d, NoText)
           ms == IF d \in Libraries THEN <<m>> ELSE << >>
<1>1. m \in Messages /\ m.kind = "watched"
  <2>1. m.kind = "watched"
    BY DEF S!Message
  <2> QED
    BY <2>1, MessageType DEF Kinds, TextsOrNone
<1>2. S!Sent(ms)
  BY DEF S!Save
<1> HIDE DEF m
<1>3. ms \in Seq(Messages) /\ \A i \in 1 .. Len(ms) : ms[i].kind = "watched"
  BY <1>1
<1>4. Sends(ms)
  BY <1>2, <1>3 DEF S!Save, Sends, S!Sent, S!server
<1> HIDE DEF ms
<1> QED
  BY <1>3, <1>4 DEF S!Save

\* ... a tab closed, ...
LEMMA CloseTabSends ==
    ASSUME ToolConstants, SessionTypes, NEW d \in Documents, S!CloseTab(d)
    PROVE  /\ Sends(<<S!Message("close", d, NoText)>>) /\ UNCHANGED <<file, timer, status>>
           /\ timer[d] = "no" /\ buffer[d] # NoText /\ buffer[d] = file[d]
           /\ buffer' = [buffer EXCEPT ![d] = NoText]
<1>1. S!Message("close", d, NoText) \in Messages
  BY MessageType DEF Kinds, TextsOrNone
<1>2. timer[d] = "no" /\ buffer[d] = file[d]
  BY DEF S!CloseTab
<1>3. UNCHANGED timer
  BY <1>2 DEF S!CloseTab, SessionTypes
<1> QED
  BY <1>1, <1>2, <1>3 DEF S!CloseTab, Sends, S!Sent, S!server

\* ... and a request.
LEMMA AskSends ==
    ASSUME ToolConstants, SessionTypes, NEW d \in Documents, NEW kind \in {"ask", "complete"},
           S!Ask(d, kind)
    PROVE  /\ \/ Sends(<<S!Message("ask", d, buffer[d])>>)
              \/ Sends(<<S!Message("sync", d, buffer[d]), S!Message("complete", d, buffer[d])>>)
           /\ UNCHANGED <<file, buffer, timer, status>> /\ status # "down" /\ buffer[d] # NoText
<1>1. \A k \in Kinds : S!Message(k, d, buffer[d]) \in Messages
  BY MessageType DEF SessionTypes, Worlds
<1>2. {"sync", "ask", "complete"} \subseteq Kinds
  BY DEF Kinds
<1> QED
  BY <1>1, <1>2 DEF S!Ask, Sends, S!Sent, S!server, S!editor
\* A step of the server handles the first message, and sets the text of its document.
Treats(m) ==
    /\ queue # << >> /\ queue' = Tail(queue) /\ m = Head(queue) /\ status # "down"
    /\ UNCHANGED <<file, buffer, timer, status>>
    /\ documents' = IF m.kind \in {"open", "change", "sync"} THEN [documents EXCEPT ![m.doc] = m.text]
                    ELSE IF m.kind = "close" THEN [documents EXCEPT ![m.doc] = NoText]
                    ELSE documents

\* Whatever the server serves, it handles the message at the head.
LEMMA ServeHandles == ASSUME S!Serve PROVE Treats(Head(queue))
<1> DEFINE m == Head(queue)
<1>1. ASSUME NEW kind, S!Receives(kind)
      PROVE  /\ queue # << >> /\ queue' = Tail(queue) /\ m.kind = kind /\ status # "down"
             /\ UNCHANGED <<file, buffer, timer, status>>
  BY <1>1 DEF S!Receives, S!editor
<1> HIDE DEF m
<1> USE DEF S!Analysed, Treats, S!server
<1>2. CASE S!DidChange
  BY <1>1, <1>2 DEF S!DidChange, m
<1>3. CASE S!DidSync
  BY <1>1, <1>3 DEF S!DidSync, m
<1>4. CASE S!DidClose
  BY <1>1, <1>4 DEF S!DidClose, m
<1>5. CASE S!DidChangeWatchedFiles
  BY <1>1, <1>5 DEF S!DidChangeWatchedFiles, m
<1>6. CASE S!Answer
  BY <1>1, <1>6 DEF S!Answer, m
<1>7. CASE S!AnswerCompletion
  BY <1>1, <1>7 DEF S!AnswerCompletion, m
<1> QED
  BY <1>2, <1>3, <1>4, <1>5, <1>6, <1>7 DEF S!Serve, m

\* The server's steps keep the types.
LEMMA ServeTypes == ASSUME ToolConstants, SessionTypes, S!Serve
                    PROVE  /\ Head(queue) \in Messages /\ documents' \in Worlds
                           /\ dependencies' \in [Documents -> SUBSET Documents]
<1>1. Head(queue) \in Messages /\ Treats(Head(queue))
  BY ServeHandles DEF SessionTypes, Treats
<1>2. documents' \in Worlds
  BY <1>1 DEF Treats, Messages, SessionTypes, Worlds, TextsOrNone
<1>3. ASSUME NEW texts, NEW D, S!Analysed(texts, D)
      PROVE  dependencies' \in [Documents -> SUBSET Documents]
  <2>1. \A d \in Documents : S!Found(S!Analysis(texts, d)) \subseteq Documents
    BY DEF S!Found, S!Analysis, S!Read, S!Loaded
  <2> QED
    BY <1>3, <2>1 DEF S!Analysed, SessionTypes
<1> QED
  BY <1>1, <1>2, <1>3
  DEF S!Serve, S!DidChange, S!DidSync, S!DidClose, S!DidChangeWatchedFiles, S!Answer,
      S!AnswerCompletion, S!server, SessionTypes

\* The editor's sends keep the types.
LEMMA SendsTypes == ASSUME SessionTypes, NEW ms, Sends(ms) PROVE queue' \in Seq(Messages)
BY DEF SessionTypes, Sends

\* Every step keeps the types.
LEMMA TypesStep == ASSUME ToolConstants, SessionTypes, [S!Next]_session PROVE SessionTypes'
<1> USE DEF SessionTypes
<1>1. CASE UNCHANGED session
  BY <1>1 DEF session
<1>2. ASSUME NEW ms, Sends(ms), UNCHANGED status,
             file' \in Worlds, buffer' \in Worlds, timer' \in [Documents -> {"no", "set"}],
             \A d \in Documents : /\ timer'[d] = "set" => buffer'[d] # NoText
                                  /\ buffer'[d] # NoText => file'[d] # NoText
      PROVE  SessionTypes'
  BY <1>2, SendsTypes DEF Sends
<1>3. file \in Worlds /\ buffer \in Worlds /\ timer \in [Documents -> {"no", "set"}]
  OBVIOUS
<1>4. \A d \in Documents : /\ timer[d] = "set" => buffer[d] # NoText
                           /\ buffer[d] # NoText => file[d] # NoText
  OBVIOUS
<1>5. NoText \notin Texts
  BY DEF ToolConstants, S!SessionAssumption
<1>6. ASSUME NEW d \in Documents, S!OpenTab(d) PROVE SessionTypes'
  <2>1. /\ UNCHANGED <<file, timer, status>> /\ file[d] # NoText
        /\ buffer' = [buffer EXCEPT ![d] = file[d]]
        /\ \E ms : Sends(ms)
    BY <1>6, OpenTabSends
  <2>2. buffer' \in Worlds
    BY <1>3, <2>1 DEF Worlds
  <2>3. \A e \in Documents : /\ timer'[e] = "set" => buffer'[e] # NoText
                             /\ buffer'[e] # NoText => file'[e] # NoText
    BY <1>3, <1>4, <2>1 DEF Worlds
  <2> QED
    BY ONLY <1>2, <1>3, <2>1, <2>2, <2>3
<1>7. ASSUME NEW d \in Documents, NEW text \in Texts, S!Create(d, text) PROVE SessionTypes'
  <2>1. /\ UNCHANGED <<timer, status>> /\ \E ms : Sends(ms)
        /\ buffer' = [buffer EXCEPT ![d] = text] /\ file' = [file EXCEPT ![d] = text]
    BY <1>7, CreateSends
  <2>2. buffer' \in Worlds /\ file' \in Worlds
    BY <1>3, <2>1 DEF Worlds, TextsOrNone
  <2>3. \A e \in Documents : /\ timer'[e] = "set" => buffer'[e] # NoText
                             /\ buffer'[e] # NoText => file'[e] # NoText
    BY <1>3, <1>4, <1>5, <2>1 DEF Worlds
  <2> QED
    BY ONLY <1>2, <1>3, <2>1, <2>2, <2>3
<1>8. ASSUME NEW d \in Documents, NEW text \in Texts, S!Edit(d, text) PROVE SessionTypes'
  <2>1. /\ UNCHANGED <<file, status>> /\ \E ms : Sends(ms)
        /\ buffer[d] # NoText
        /\ buffer' = [buffer EXCEPT ![d] = text] /\ timer' = [timer EXCEPT ![d] = "set"]
    BY <1>8, EditSends
  <2>2. buffer' \in Worlds /\ timer' \in [Documents -> {"no", "set"}]
    BY <1>3, <2>1 DEF Worlds, TextsOrNone
  <2>3. \A e \in Documents : /\ timer'[e] = "set" => buffer'[e] # NoText
                             /\ buffer'[e] # NoText => file'[e] # NoText
    BY <1>3, <1>4, <1>5, <2>1 DEF Worlds
  <2> QED
    BY ONLY <1>2, <1>3, <2>1, <2>2, <2>3
<1>9. ASSUME NEW d \in Documents, S!TimerFires(d) PROVE SessionTypes'
  <2>1. /\ UNCHANGED <<file, buffer, status>> /\ \E ms : Sends(ms)
        /\ timer' = [timer EXCEPT ![d] = "no"]
    BY <1>9, TimerFiresSends
  <2>2. /\ timer' \in [Documents -> {"no", "set"}]
        /\ \A e \in Documents : timer'[e] = "set" => timer[e] = "set"
    BY <1>3, <2>1
  <2> QED
    BY ONLY <1>2, <1>3, <1>4, <2>1, <2>2
<1>10. ASSUME NEW d \in Documents, S!Save(d) PROVE SessionTypes'
  <2>1. /\ UNCHANGED <<buffer, timer, status>> /\ \E ms : Sends(ms)
        /\ buffer[d] # NoText /\ file' = [file EXCEPT ![d] = buffer[d]]
    BY <1>10, SaveSends
  <2>2. file' \in Worlds /\ \A e \in Documents : buffer[e] # NoText => file'[e] # NoText
    BY <1>3, <1>4, <2>1 DEF Worlds
  <2> QED
    BY ONLY <1>2, <1>3, <1>4, <2>1, <2>2
<1>11. ASSUME NEW d \in Documents, S!CloseTab(d) PROVE SessionTypes'
  <2>1. /\ UNCHANGED <<file, timer, status>> /\ \E ms : Sends(ms)
        /\ timer[d] = "no" /\ buffer' = [buffer EXCEPT ![d] = NoText]
    BY <1>11, CloseTabSends
  <2>2. buffer' \in Worlds
    BY <1>3, <2>1 DEF Worlds, TextsOrNone
  <2>3. \A e \in Documents : /\ timer'[e] = "set" => buffer'[e] # NoText
                             /\ buffer'[e] # NoText => file'[e] # NoText
    BY <1>3, <1>4, <2>1 DEF Worlds
  <2> QED
    BY ONLY <1>2, <1>3, <2>1, <2>2, <2>3
<1>12. ASSUME NEW d \in Documents, NEW kind \in {"ask", "complete"}, S!Ask(d, kind)
       PROVE  SessionTypes'
  <2>1. UNCHANGED <<file, buffer, timer, status>> /\ \E ms : Sends(ms)
    BY <1>12, AskSends
  <2> QED
    BY ONLY <1>2, <1>3, <1>4, <2>1
<1>13. CASE S!Crash
  <2>1. documents' \in Worlds
    BY <1>13 DEF S!Crash, Worlds, TextsOrNone
  <2> QED
    BY <1>13, <2>1 DEF S!Crash, S!editor
<1>14. CASE S!Start
  BY <1>14 DEF S!Start, S!editor, S!server
<1>15. CASE S!Ready
  <2>1. PICK ms : Reopened(ms) /\ queue' = queue \o ms
    BY <1>15, ReadySends
  <2>2. queue' \in Seq(Messages)
    BY <2>1 DEF Reopened
  <2> QED
    BY <1>15, <2>2 DEF S!Ready, S!editor, S!server
<1>16. CASE S!Serve
  <2>1. Treats(Head(queue))
    BY <1>16, ServeHandles
  <2>2. queue' \in Seq(Messages) /\ UNCHANGED <<file, buffer, timer, status>> /\ status # "down"
    BY <2>1 DEF Treats
  <2> QED
    BY <1>16, <2>2, ServeTypes
<1> QED
  BY <1>1, <1>6, <1>7, <1>8, <1>9, <1>10, <1>11, <1>12, <1>13, <1>14, <1>15, <1>16
  DEF S!Next, session, S!vars, S!editor, S!server
-------------------------------------------------------------------------------
\* Places in the queue after messages were sent, and after one was handled
LEMMA Appended ==
    ASSUME NEW q \in Seq(Messages), NEW ms \in Seq(Messages), NEW r, r = q \o ms
    PROVE  /\ Len(q) \in Nat /\ Len(ms) \in Nat /\ Len(r) = Len(q) + Len(ms)
           /\ \A i \in 1 .. Len(q) : r[i] = q[i]
           /\ \A i \in Len(q) + 1 .. Len(r) : i - Len(q) \in 1 .. Len(ms) /\ r[i] = ms[i - Len(q)]
OBVIOUS

\* A message behind the head is one place nearer once the head is taken.
LEMMA Shifted ==
    ASSUME NEW q \in Seq(Messages), q # << >>, NEW r, r = Tail(q)
    PROVE  /\ Len(q) \in Nat /\ Len(r) \in Nat /\ Len(q) = Len(r) + 1 /\ Head(q) = q[1]
           /\ \A i \in 1 .. Len(r) : r[i] = q[i + 1]
OBVIOUS

\* Messages that are not about e, or tell it what is known already
Harmless(m, e) == m.doc = e =>
    \/ m.kind \in {"watched", "ask", "complete"}
    \/ m.kind = "sync" /\ m.text = buffer[e] /\ buffer[e] # NoText

\* Harmless, spelled out.
LEMMA HarmlessMeans ==
    ASSUME NEW m, NEW e, Harmless(m, e)
    PROVE  /\ ~Tells(m, e) /\ ~(m.doc = e /\ m.kind = "close")
           /\ m.doc = e /\ m.kind = "sync" => m.text = buffer[e] /\ buffer[e] # NoText
BY DEF Harmless, Tells

\* A step that tells nothing new about a document keeps what is known of it.
LEMMA HarmlessKnows ==
    ASSUME NEW e \in Documents, NEW n \in Nat, NEW p \in Nat, n = Len(queue), p = Len(queue'), n <= p,
           \A k \in 1 .. n : queue'[k] = queue[k], \A k \in n + 1 .. p : Harmless(queue'[k], e),
           documents' = documents, timer'[e] = timer[e], buffer'[e] = buffer[e],
           file'[e] = file[e] \/ buffer[e] # NoText, status' = status \/ buffer[e] = NoText, KnowsAt(e)
    PROVE  KnowsAt(e)'
<1> SUFFICES ASSUME timer'[e] = "no", NEW i \in 0 .. Len(queue'), LastTold(e, i)'
             PROVE  Knows(e, i)'
  BY DEF KnowsAt
<1>1. /\ n \in Nat /\ p \in Nat /\ n <= p /\ i \in 0 .. p
      /\ \A k \in 1 .. n : queue'[k] = queue[k]
      /\ \A k \in n + 1 .. p : Harmless(queue'[k], e)
  OBVIOUS
<1>2. n = Len(queue) /\ p = Len(queue')
  OBVIOUS
<1>3. i \in 0 .. n
  <2>1. \A k \in n + 1 .. p : ~Tells(queue'[k], e) /\ k # 0
    BY ONLY <1>1, HarmlessMeans
  <2>2. i \notin n + 1 .. p
    BY <2>1 DEF LastTold, Tells
  <2> QED
    BY ONLY <1>1, <2>2
<1>4. LastTold(e, i)
  BY <1>1, <1>2, <1>3 DEF LastTold, Tells
<1>5. Told(e, i)' = Told(e, i)
  BY <1>1, <1>3 DEF Told
<1>6. Knows(e, i)
  BY <1>2, <1>3, <1>4 DEF KnowsAt
<1>7. \A k \in 0 .. n : Closes(e, i, k)' => Closes(e, i, k)
  BY <1>1, <1>3 DEF Closes
<1>8. \A k \in 0 .. p : Closes(e, i, k)' => Closes(e, i, n)
  BY <1>1, <1>3, HarmlessMeans DEF Closes
<1>9. Closes(e, i, n) => Closes(e, i, p)'
  BY <1>1, <1>3 DEF Closes
<1>10. \/ Closes(e, i, n) /\ buffer[e] = NoText /\ Told(e, i) \in {file[e], NoText}
       \/ ~Closes(e, i, n) /\ (Told(e, i) = buffer[e] \/ (status # "up" /\ Told(e, i) = NoText))
  BY <1>2, <1>6 DEF Knows
<1>l. Latest(e, i)' = Latest(e, i)
  <2>1. Closes(e, i, p)' <=> Closes(e, i, n)
    BY <1>1, <1>8, <1>9
  <2>2. buffer[e] # NoText => ~Closes(e, i, n)
    BY <1>10
  <2> QED
    BY <1>2, <1>5, <2>1, <2>2 DEF Latest
<1>11. ASSUME NEW j \in i + 1 .. p, queue'[j].doc = e, queue'[j].kind = "sync"
       PROVE  queue'[j].text = Latest(e, i) /\ ~Closes(e, i, j)'
  <2>1. CASE j <= n
    BY <1>1, <1>2, <1>3, <1>6, <1>7, <1>11, <2>1 DEF Knows
  <2>2. CASE j > n
    <3>1. queue'[j].text = buffer[e] /\ buffer[e] # NoText
      BY <1>1, <1>3, <1>11, <2>2, HarmlessMeans
    <3>2. ~Closes(e, i, n) /\ ~Closes(e, i, j)'
      BY <1>1, <1>3, <1>8, <1>10, <3>1
    <3>3. Latest(e, i) = buffer[e]
      BY <1>2, <1>10, <3>2 DEF Latest
    <3> QED
      BY <3>1, <3>2, <3>3
  <2> QED
    BY <1>1, <1>3, <2>1, <2>2
<1>12. Closes(e, i, p)' => buffer'[e] = NoText /\ Told(e, i)' \in {file'[e], NoText}
  BY <1>1, <1>5, <1>8, <1>10
<1>13. ~Closes(e, i, p)' => Told(e, i)' = buffer'[e] \/ (status' # "up" /\ Told(e, i)' = NoText)
  BY <1>5, <1>9, <1>10
<1> QED
  BY <1>2, <1>5, <1>l, <1>11, <1>12, <1>13 DEF Knows

\* What is told last is what the editor holds.
LEMMA ToldKnows ==
    ASSUME NEW e \in Documents, NEW p \in Nat, p = Len(queue'), NEW n \in 1 .. p,
           Tells(queue'[n], e), queue'[n].text = buffer'[e], \A j \in n + 1 .. p : queue'[j].doc # e
    PROVE  KnowsAt(e)'
<1> SUFFICES ASSUME NEW i \in 0 .. Len(queue'), LastTold(e, i)'
             PROVE  Knows(e, i)'
  BY DEF KnowsAt
<1>1. i \in 0 .. p
  OBVIOUS
<1>2. \A j \in i + 1 .. p : ~Tells(queue'[j], e)
  BY DEF LastTold, Tells
<1>3. n \notin i + 1 .. p
  BY <1>2
<1>4. i \notin n + 1 .. p
  BY DEF LastTold, Tells
<1>5. i = n
  BY ONLY <1>1, <1>3, <1>4, p \in Nat, n \in 1 .. p
<1>6. Told(e, i)' = buffer'[e] /\ ~Closes(e, i, p)'
  BY <1>5 DEF Told, Closes
<1> QED
  BY <1>5, <1>6 DEF Knows

\* A server that is down knows nothing.
LEMMA DownKnows ==
    ASSUME NEW e \in Documents, queue' = << >>, status' # "up", documents'[e] = NoText
    PROVE  KnowsAt(e)'
BY DEF KnowsAt, LastTold, Told, Knows, Closes

\* Handling the head leaves the server with the text that was told last.
LEMMA ServeKnows ==
    ASSUME ToolConstants, SessionTypes, NEW e \in Documents, NEW m, Treats(m), KnowsAt(e)
    PROVE  KnowsAt(e)'
<1> SUFFICES ASSUME timer'[e] = "no", NEW i \in 0 .. Len(queue'), LastTold(e, i)'
             PROVE  Knows(e, i)'
  BY DEF KnowsAt
<1>0. PICK n : n = Len(queue')
  OBVIOUS
<1>1. /\ n \in Nat /\ Len(queue) = n + 1 /\ m = queue[1] /\ i \in 0 .. n
      /\ \A k \in 1 .. n : queue'[k] = queue[k + 1]
  BY <1>0, Shifted DEF SessionTypes, Treats
<1>2. n = Len(queue') /\ m \in Messages
  BY <1>0, <1>1 DEF SessionTypes
<1>3. UNCHANGED <<file, buffer, timer, status>>
  BY DEF Treats
<1>4. CASE i # 0
  <2>1. i + 1 \in 1 .. n + 1 /\ i \in 1 .. n
    BY <1>1, <1>4
  <2>2. LastTold(e, i + 1)
    <3>1. ASSUME NEW j \in i + 1 + 1 .. n + 1 PROVE ~Tells(queue[j], e)
      <4>1. j - 1 \in i + 1 .. n /\ j - 1 \in 1 .. n /\ queue[j] = queue'[j - 1]
        BY <1>1, <2>1
      <4> QED
        BY <1>2, <4>1 DEF LastTold, Tells
    <3>2. Tells(queue[i + 1], e)
      BY <1>1, <1>4, <2>1 DEF LastTold, Tells
    <3> QED
      BY <1>1, <3>1, <3>2 DEF LastTold
  <2>3. Knows(e, i + 1)
    BY <1>1, <1>3, <2>1, <2>2 DEF KnowsAt
  <2>4. Told(e, i)' = Told(e, i + 1)
    BY <1>1, <1>4, <2>1 DEF Told
  <2>5. \A k \in 0 .. n : Closes(e, i, k)' <=> Closes(e, i + 1, k + 1)
    <3> TAKE k \in 0 .. n
    <3>1. ASSUME Closes(e, i, k)' PROVE Closes(e, i + 1, k + 1)
      <4>1. PICK j \in i + 1 .. k : queue'[j].doc = e /\ queue'[j].kind = "close"
        BY <3>1 DEF Closes
      <4>2. j \in 1 .. n /\ j + 1 \in i + 1 + 1 .. k + 1
        BY <1>1, <2>1, <4>1
      <4> QED
        BY <1>1, <4>1, <4>2 DEF Closes
    <3>2. ASSUME Closes(e, i + 1, k + 1) PROVE Closes(e, i, k)'
      <4>1. PICK j \in i + 1 + 1 .. k + 1 : queue[j].doc = e /\ queue[j].kind = "close"
        BY <3>2 DEF Closes
      <4>2. j - 1 \in 1 .. n /\ j - 1 \in i + 1 .. k /\ queue'[j - 1] = queue[j]
        BY <1>1, <2>1, <4>1
      <4> QED
        BY <1>1, <4>1, <4>2 DEF Closes
    <3> QED
      BY <3>1, <3>2
  <2>l. Latest(e, i)' = Latest(e, i + 1)
    BY <1>1, <1>2, <1>3, <2>4, <2>5 DEF Latest
  <2>6. ASSUME NEW j \in i + 1 .. n, queue'[j].doc = e, queue'[j].kind = "sync"
        PROVE  queue'[j].text = Latest(e, i)' /\ ~Closes(e, i, j)'
    <3>1. j \in 1 .. n /\ j \in 0 .. n /\ j + 1 \in i + 1 + 1 .. Len(queue)
      BY <1>1, <2>1
    <3> QED
      BY <1>1, <2>3, <2>l, <2>5, <2>6, <3>1 DEF Knows
  <2>7. Closes(e, i, n)' <=> Closes(e, i + 1, Len(queue))
    BY <1>1, <2>5
  <2> QED
    BY <1>2, <1>3, <2>3, <2>4, <2>6, <2>7 DEF Knows
<1>5. CASE i = 0
  <2>1. \A k \in 2 .. n + 1 : queue[k] = queue'[k - 1] /\ k - 1 \in 1 .. n
    BY <1>1
  <2>2. \A k \in 2 .. n + 1 : ~Tells(queue[k], e)
    BY <1>1, <1>2, <1>5, <2>1 DEF LastTold, Tells
  <2>3. CASE Tells(m, e)
    <3>1. LastTold(e, 1)
      BY <1>1, <2>2, <2>3 DEF LastTold
    <3>2. Knows(e, 1) /\ Told(e, 1) = m.text
      BY <1>1, <1>3, <3>1 DEF KnowsAt, Told
    <3>3. documents'[e] = m.text
      BY <2>3 DEF Treats, Tells, SessionTypes, Worlds
    <3>4. \A k \in 0 .. n : Closes(e, 0, k)' <=> Closes(e, 1, k + 1)
      <4> TAKE k \in 0 .. n
      <4>1. ASSUME Closes(e, 0, k)' PROVE Closes(e, 1, k + 1)
        <5>1. PICK j \in 1 .. k : queue'[j].doc = e /\ queue'[j].kind = "close"
          BY <4>1 DEF Closes
        <5>2. j \in 1 .. n /\ j + 1 \in 1 + 1 .. k + 1
          BY <1>1, <5>1
        <5> QED
          BY <1>1, <5>1, <5>2 DEF Closes
      <4>2. ASSUME Closes(e, 1, k + 1) PROVE Closes(e, 0, k)'
        <5>1. PICK j \in 1 + 1 .. k + 1 : queue[j].doc = e /\ queue[j].kind = "close"
          BY <4>2 DEF Closes
        <5>2. j - 1 \in 0 + 1 .. k /\ queue'[j - 1] = queue[j]
          BY <1>1, <5>1
        <5> QED
          BY <1>1, <5>1, <5>2 DEF Closes
      <4> QED
        BY <4>1, <4>2
    <3>6. Closes(e, 0, n)' <=> Closes(e, 1, Len(queue))
      BY <1>1, <3>4
    <3>l. Latest(e, 0)' = Latest(e, 1)
      BY <1>2, <1>3, <3>2, <3>3, <3>6 DEF Latest, Told
    <3>5. ASSUME NEW j \in 1 .. n, queue'[j].doc = e, queue'[j].kind = "sync"
          PROVE  queue'[j].text = Latest(e, 0)' /\ ~Closes(e, 0, j)'
      <4>1. j \in 0 .. n /\ j + 1 \in 1 + 1 .. Len(queue)
        BY <1>1
      <4> QED
        BY <1>1, <3>2, <3>4, <3>l, <3>5, <4>1 DEF Knows
    <3> QED
      BY <1>2, <1>3, <1>5, <3>2, <3>3, <3>5, <3>6 DEF Knows, Told
  <2>4. CASE ~Tells(m, e)
    <3>1. LastTold(e, 0)
      BY <1>1, <2>2, <2>4 DEF LastTold
    <3>2. Knows(e, 0) /\ Told(e, 0) = documents[e]
      BY <1>1, <1>3, <3>1 DEF KnowsAt, Told
    <3>3. \A k \in 0 .. n : Closes(e, 0, k)' => Closes(e, 0, k + 1)
      <4> TAKE k \in 0 .. n
      <4>1. HAVE Closes(e, 0, k)'
      <4>2. PICK j \in 1 .. k : queue'[j].doc = e /\ queue'[j].kind = "close"
        BY <4>1 DEF Closes
      <4>3. j \in 1 .. n /\ j + 1 \in 0 + 1 .. k + 1
        BY <1>1, <4>2
      <4> QED
        BY <1>1, <4>2, <4>3 DEF Closes
    <3>4. \A j \in 1 .. n : queue'[j].doc = e /\ queue'[j].kind = "sync" =>
              queue'[j].text = Latest(e, 0) /\ ~Closes(e, 0, j + 1)
      <4> TAKE j \in 1 .. n
      <4>1. j + 1 \in 0 + 1 .. Len(queue)
        BY <1>1
      <4> QED
        BY <1>1, <3>2, <4>1 DEF Knows
    <3>5. CASE m.doc = e /\ m.kind = "close"
      <4>1. documents'[e] = NoText
        BY <3>5 DEF Treats, SessionTypes, Worlds
      <4>2. \A k \in 1 .. n + 1 : Closes(e, 0, k)
        BY <1>1, <3>5 DEF Closes
      <4>3. buffer[e] = NoText
        BY <1>1, <3>2, <4>2 DEF Knows
      <4>4. \A j \in 1 .. n : ~(queue'[j].doc = e /\ queue'[j].kind = "sync")
        BY <1>1, <3>4, <4>2
      <4> QED
        BY <1>2, <1>3, <1>5, <4>1, <4>3, <4>4 DEF Knows, Told
    <3>6. CASE ~(m.doc = e /\ m.kind = "close")
      <4>1. documents'[e] = IF m.doc = e /\ m.kind = "sync" THEN Latest(e, 0) ELSE documents[e]
        <5>1. CASE m.doc = e /\ m.kind = "sync"
          <6>1. m.text = Latest(e, 0)
            BY <1>1, <3>2, <5>1 DEF Knows
          <6> QED
            BY <5>1, <6>1 DEF Treats, SessionTypes, Worlds
        <5>2. CASE ~(m.doc = e /\ m.kind = "sync")
          BY <2>4, <3>6, <5>2 DEF Treats, Tells, SessionTypes, Worlds
        <5> QED
          BY <5>1, <5>2
      <4>2. Closes(e, 0, n + 1) => Closes(e, 0, n)'
        <5>1. HAVE Closes(e, 0, n + 1)
        <5>2. PICK j \in 1 .. n + 1 : queue[j].doc = e /\ queue[j].kind = "close"
          BY <5>1 DEF Closes
        <5>3. j # 1
          BY <1>1, <3>6, <5>2
        <5>4. j - 1 \in 0 + 1 .. n /\ queue'[j - 1] = queue[j]
          BY <1>1, <5>2, <5>3
        <5> QED
          BY <5>2, <5>4 DEF Closes
      <4>3. Closes(e, 0, n + 1) <=> Closes(e, 0, n)'
        BY <1>1, <3>3, <4>2
      <4>4. Latest(e, 0)' = Latest(e, 0)
        BY <1>1, <1>2, <1>3, <4>1, <4>3 DEF Latest, Told
      <4>5. \A j \in 1 .. n : queue'[j].doc = e /\ queue'[j].kind = "sync" =>
                queue'[j].text = Latest(e, 0)' /\ ~Closes(e, 0, j)'
        <5> TAKE j \in 1 .. n
        <5>1. j \in 0 .. n
          BY <1>1
        <5> QED
          BY <3>3, <3>4, <4>4, <5>1
      <4>6. Closes(e, 0, n)' => buffer'[e] = NoText /\ documents'[e] \in {file'[e], NoText}
        BY <1>1, <1>3, <3>2, <4>1, <4>3 DEF Knows, Latest
      <4>7. ~Closes(e, 0, n)' => documents'[e] = buffer'[e] \/ (status' # "up" /\ documents'[e] = NoText)
        BY <1>1, <1>3, <3>2, <4>1, <4>3 DEF Knows, Latest
      <4> QED
        BY <1>2, <1>5, <4>5, <4>6, <4>7 DEF Knows, Told
    <3> QED
      BY <3>5, <3>6
  <2> QED
    BY <2>3, <2>4
<1> QED
  BY <1>4, <1>5

\* A send tells the server what the editor then holds.
LEMMA KnowingSends ==
    ASSUME SessionTypes, NEW e \in Documents, NEW ms, Sends(ms), SessionTypes', KnowsAt(e),
           \/ /\ \A i \in 1 .. Len(ms) : Harmless(ms[i], e)
              /\ timer'[e] = timer[e] /\ buffer'[e] = buffer[e]
              /\ file'[e] = file[e] \/ buffer[e] # NoText
           \/ Len(ms) > 0 /\ Tells(ms[Len(ms)], e) /\ ms[Len(ms)].text = buffer'[e]
           \/ timer'[e] # "no",
           status' = status
    PROVE  KnowsAt(e)'
<1>0. /\ queue \in Seq(Messages) /\ ms \in Seq(Messages) /\ documents' = documents
      /\ queue' = IF status = "down" THEN queue ELSE queue \o ms
      /\ status = "down" => queue = << >> /\ documents[e] = NoText
  BY DEF SessionTypes, Sends
<1>1. CASE status = "down"
  BY <1>0, <1>1, DownKnows
<1>2. CASE status # "down"
  <2>1. /\ Len(queue) \in Nat /\ Len(ms) \in Nat /\ Len(queue') = Len(queue) + Len(ms)
        /\ \A i \in 1 .. Len(queue) : queue'[i] = queue[i]
        /\ \A i \in Len(queue) + 1 .. Len(queue') :
               i - Len(queue) \in 1 .. Len(ms) /\ queue'[i] = ms[i - Len(queue)]
    BY <1>0, <1>2, Appended
  <2>2. Len(queue') \in Nat /\ Len(queue) <= Len(queue')
    BY <2>1
  <2>3. CASE /\ \A i \in 1 .. Len(ms) : Harmless(ms[i], e)
             /\ timer'[e] = timer[e] /\ buffer'[e] = buffer[e]
             /\ file'[e] = file[e] \/ buffer[e] # NoText
    <3>1. \A k \in Len(queue) + 1 .. Len(queue') : Harmless(queue'[k], e)
      BY <2>1, <2>3
    <3> QED
      BY <1>0, <2>1, <2>2, <2>3, <3>1, HarmlessKnows
  <2>4. CASE Len(ms) > 0 /\ Tells(ms[Len(ms)], e) /\ ms[Len(ms)].text = buffer'[e]
    <3>1. Len(queue') \in 1 .. Len(queue') /\ queue'[Len(queue')] = ms[Len(ms)]
      <4>1. Len(queue') \in Len(queue) + 1 .. Len(queue') /\ Len(queue') - Len(queue) = Len(ms)
        BY ONLY <2>1, <2>2, <2>4
      <4> QED
        BY <2>1, <2>2, <4>1
    <3>2. \A j \in Len(queue') + 1 .. Len(queue') : queue'[j].doc # e
      BY ONLY <2>2
    <3> QED
      BY <2>2, <2>4, <3>1, <3>2, ToldKnows
  <2>5. CASE timer'[e] # "no"
    BY <2>5 DEF KnowsAt
  <2> QED
    BY <2>3, <2>4, <2>5
<1> QED
  BY <1>1, <1>2

\* The documents that a restarted client opens tell the server every text.
LEMMA ReadyKnows ==
    ASSUME ToolConstants, SessionTypes, S!Ready, NEW e \in Documents, KnowsAt(e)
    PROVE  KnowsAt(e)'
<1>1. PICK ms : Reopened(ms) /\ queue' = queue \o ms
  BY ReadySends
<1>2. ms \in Seq(Messages) /\ queue \in Seq(Messages)
  BY <1>1 DEF Reopened, SessionTypes
<1>3. UNCHANGED <<file, buffer, timer, documents>>
  BY DEF S!Ready, S!editor, S!server
<1>4. /\ Len(queue) \in Nat /\ Len(ms) \in Nat /\ Len(queue') = Len(queue) + Len(ms)
      /\ \A i \in 1 .. Len(queue) : queue'[i] = queue[i]
      /\ \A i \in Len(queue) + 1 .. Len(queue') :
             i - Len(queue) \in 1 .. Len(ms) /\ queue'[i] = ms[i - Len(queue)]
  BY <1>1, <1>2, Appended
<1>5. Len(queue') \in Nat /\ Len(queue) <= Len(queue')
  BY <1>4
<1>6. CASE buffer[e] = NoText
  <2>1. \A k \in 1 .. Len(ms) : Harmless(ms[k], e)
    BY <1>1, <1>6 DEF Reopened, Harmless, S!Open
  <2>2. \A k \in Len(queue) + 1 .. Len(queue') : Harmless(queue'[k], e)
    BY <1>4, <2>1
  <2> QED
    BY <1>3, <1>4, <1>5, <1>6, <2>2, HarmlessKnows
<1>7. CASE buffer[e] # NoText
  <2>1. PICK n \in 1 .. Len(ms) : ms[n].doc = e /\ \A j \in n + 1 .. Len(ms) : ms[j].doc # e
    BY <1>1, <1>7 DEF Reopened, S!Open
  <2>2. Tells(ms[n], e) /\ ms[n].text = buffer'[e]
    BY <1>1, <1>3, <2>1 DEF Reopened, Tells
  <2>3. /\ Len(queue) + n \in Len(queue) + 1 .. Len(queue') /\ (Len(queue) + n) - Len(queue) = n
        /\ Len(queue) + n \in 1 .. Len(queue')
    BY ONLY <1>4, <2>1
  <2>4. queue'[Len(queue) + n] = ms[n]
    BY <1>4, <2>3
  <2>5. ASSUME NEW j \in Len(queue) + n + 1 .. Len(queue') PROVE queue'[j].doc # e
    <3>1. j \in Len(queue) + 1 .. Len(queue') /\ j - Len(queue) \in n + 1 .. Len(ms)
      BY ONLY <1>4, <2>1, <2>5
    <3> QED
      BY <1>4, <2>1, <3>1
  <2> QED
    BY <1>5, <2>2, <2>3, <2>4, <2>5, ToldKnows
<1> QED
  BY <1>6, <1>7

\* A closed tab tells the server that the file counts again.
LEMMA CloseKnows ==
    ASSUME ToolConstants, SessionTypes, NEW d \in Documents, S!CloseTab(d), NEW e \in Documents,
           KnowsAt(e), SessionTypes'
    PROVE  KnowsAt(e)'
<1> DEFINE m == S!Message("close", d, NoText)
<1>1. /\ Sends(<<m>>) /\ UNCHANGED <<file, timer, status>>
      /\ timer[d] = "no" /\ buffer[d] # NoText /\ buffer[d] = file[d]
      /\ buffer' = [buffer EXCEPT ![d] = NoText]
  BY CloseTabSends
<1>2. m.kind = "close" /\ m.doc = d /\ m.text = NoText
  BY DEF S!Message
<1> HIDE DEF m
<1>3. queue \in Seq(Messages) /\ buffer \in Worlds
  BY DEF SessionTypes
<1>4. CASE d # e
  <2>1. buffer'[e] = buffer[e] /\ \A i \in 1 .. Len(<<m>>) : Harmless(<<m>>[i], e)
    BY <1>1, <1>2, <1>3, <1>4 DEF Harmless, Worlds
  <2> QED
    BY <1>1, <2>1, KnowingSends
<1>5. CASE d = e /\ status = "down"
  BY <1>1, <1>5, DownKnows DEF Sends, SessionTypes
<1>6. CASE d = e /\ status # "down"
  <2> SUFFICES ASSUME NEW i \in 0 .. Len(queue'), LastTold(e, i)' PROVE Knows(e, i)'
    BY DEF KnowsAt
  <2>0. PICK n, p : n = Len(queue) /\ p = Len(queue')
    OBVIOUS
  <2>1. /\ n \in Nat /\ p = n + 1 /\ i \in 0 .. p /\ queue'[p] = m
        /\ \A k \in 1 .. n : queue'[k] = queue[k]
    <3>1. queue' = Append(queue, m)
      BY <1>1, <1>3, <1>6 DEF Sends
    <3>2. m \in Messages
      BY <1>1 DEF Sends
    <3> QED
      BY <1>3, <2>0, <3>1, <3>2
  <2>2. ~Tells(m, e)
    BY <1>2 DEF Tells
  <2>3. i \in 0 .. n
    BY <2>1, <2>2 DEF LastTold, Tells
  <2>4. LastTold(e, i)
    BY <2>0, <2>1, <2>3 DEF LastTold, Tells
  <2>5. Told(e, i)' = Told(e, i)
    BY <1>1, <2>1, <2>3 DEF Told, Sends
  <2>6. Knows(e, i)
    BY <1>1, <1>6, <2>0, <2>3, <2>4 DEF KnowsAt
  <2>7. ~Closes(e, i, n) /\ Told(e, i) \in {file[e], NoText}
    BY <1>1, <1>6, <2>0, <2>6 DEF Knows
  <2>8. \A k \in 0 .. n : ~Closes(e, i, k)'
    BY <2>1, <2>3, <2>7 DEF Closes
  <2>10. Closes(e, i, p)'
    BY <1>2, <1>6, <2>1, <2>3 DEF Closes
  <2>l. Latest(e, i)' = Latest(e, i)
    BY <1>1, <1>6, <2>0, <2>5, <2>7, <2>10 DEF Latest
  <2>9. ASSUME NEW j \in i + 1 .. p, queue'[j].doc = e, queue'[j].kind = "sync"
        PROVE  queue'[j].text = Latest(e, i) /\ ~Closes(e, i, j)'
    <3>1. j \in i + 1 .. n /\ j \in 0 .. n /\ queue'[j] = queue[j]
      BY <1>2, <2>1, <2>3, <2>9
    <3>2. queue[j].text = Latest(e, i)
      BY <2>0, <2>6, <2>9, <3>1 DEF Knows
    <3> QED
      BY <2>8, <3>1, <3>2
  <2>11. buffer'[e] = NoText
    BY <1>1, <1>3, <1>6 DEF Worlds
  <2> QED
    BY <1>1, <2>0, <2>5, <2>l, <2>7, <2>9, <2>10, <2>11 DEF Knows
<1> QED
  BY <1>4, <1>5, <1>6

\* Every step keeps the server (or its queue) informed.
LEMMA KnowingStep == ASSUME ToolConstants, SessionTypes, Knowing, [S!Next]_session PROVE Knowing'
<1> SUFFICES ASSUME NEW e \in Documents PROVE KnowsAt(e)'
  BY DEF Knowing
<1>0. KnowsAt(e) /\ SessionTypes'
  BY TypesStep DEF Knowing
<1>t. timer \in [Documents -> {"no", "set"}] /\ buffer \in Worlds /\ file \in Worlds
  BY DEF SessionTypes
<1>1. CASE UNCHANGED session
  BY <1>0, <1>1 DEF session, KnowsAt, LastTold, Told, Latest, Knows, Closes
<1>2. ASSUME NEW m \in Messages, m.doc # e \/ m.kind = "watched" \/ m.kind = "ask"
      PROVE  \A i \in 1 .. Len(<<m>>) : Harmless(<<m>>[i], e)
  BY <1>2 DEF Harmless
<1>3. ASSUME NEW kind, NEW d, NEW text
      PROVE  LET m == S!Message(kind, d, text) IN m.kind = kind /\ m.doc = d /\ m.text = text
  BY DEF S!Message
<1>4. ASSUME NEW d \in Documents, S!OpenTab(d) PROVE KnowsAt(e)'
  <2> DEFINE m == S!Message("open", d, file[d])
  <2>1. /\ Sends(<<m>>) /\ UNCHANGED <<file, timer, status>>
        /\ buffer' = [buffer EXCEPT ![d] = file[d]]
    BY <1>4, OpenTabSends
  <2>2. m.kind = "open" /\ m.doc = d /\ m.text = file[d]
    BY <1>3
  <2> HIDE DEF m
  <2>3. CASE d = e
    <3>1. Len(<<m>>) > 0 /\ Tells(<<m>>[Len(<<m>>)], e) /\ <<m>>[Len(<<m>>)].text = buffer'[e]
      BY <1>t, <2>1, <2>2, <2>3 DEF Tells, Worlds
    <3> QED
      BY <1>0, <2>1, <3>1, KnowingSends
  <2>4. CASE d # e
    <3>1. buffer'[e] = buffer[e] /\ \A i \in 1 .. Len(<<m>>) : Harmless(<<m>>[i], e)
      BY <1>t, <2>1, <2>2, <2>4 DEF Harmless, Worlds
    <3> QED
      BY <1>0, <2>1, <3>1, KnowingSends
  <2> QED
    BY <2>3, <2>4
<1>5. ASSUME NEW d \in Documents, NEW text \in Texts, S!Create(d, text) PROVE KnowsAt(e)'
  <2> DEFINE m == S!Message("open", d, text)
  <2>1. /\ Sends(<<m>>) /\ UNCHANGED <<timer, status>>
        /\ buffer' = [buffer EXCEPT ![d] = text] /\ file' = [file EXCEPT ![d] = text]
    BY <1>5, CreateSends
  <2>2. m.kind = "open" /\ m.doc = d /\ m.text = text
    BY <1>3
  <2> HIDE DEF m
  <2>3. CASE d = e
    <3>1. Len(<<m>>) > 0 /\ Tells(<<m>>[Len(<<m>>)], e) /\ <<m>>[Len(<<m>>)].text = buffer'[e]
      BY <1>t, <2>1, <2>2, <2>3 DEF Tells, Worlds
    <3> QED
      BY <1>0, <2>1, <3>1, KnowingSends
  <2>4. CASE d # e
    <3>1. /\ buffer'[e] = buffer[e] /\ file'[e] = file[e]
          /\ \A i \in 1 .. Len(<<m>>) : Harmless(<<m>>[i], e)
      BY <1>t, <2>1, <2>2, <2>4 DEF Harmless, Worlds
    <3> QED
      BY <1>0, <2>1, <3>1, KnowingSends
  <2> QED
    BY <2>3, <2>4
<1>6. ASSUME NEW d \in Documents, NEW text \in Texts, S!Edit(d, text) PROVE KnowsAt(e)'
  <2> DEFINE m == S!Message("sync", d, text)
  <2>1. /\ Sends(<<m>>) /\ UNCHANGED <<file, status>>
        /\ buffer' = [buffer EXCEPT ![d] = text] /\ timer' = [timer EXCEPT ![d] = "set"]
    BY <1>6, EditSends
  <2>2. m.doc = d
    BY <1>3
  <2> HIDE DEF m
  <2>3. CASE d = e
    <3>1. timer'[e] # "no"
      BY <1>t, <2>1, <2>3
    <3> QED
      BY <3>1 DEF KnowsAt
  <2>4. CASE d # e
    <3>1. /\ buffer'[e] = buffer[e] /\ timer'[e] = timer[e]
          /\ \A i \in 1 .. Len(<<m>>) : Harmless(<<m>>[i], e)
      BY <1>t, <2>1, <2>2, <2>4 DEF Harmless, Worlds
    <3> QED
      BY <1>0, <2>1, <3>1, KnowingSends
  <2> QED
    BY <2>3, <2>4
<1>7. ASSUME NEW d \in Documents, S!TimerFires(d) PROVE KnowsAt(e)'
  <2> DEFINE m == S!Message("change", d, buffer[d])
  <2>1. /\ Sends(<<m>>) /\ UNCHANGED <<file, buffer, status>> /\ timer' = [timer EXCEPT ![d] = "no"]
    BY <1>7, TimerFiresSends
  <2>2. m.kind = "change" /\ m.doc = d /\ m.text = buffer[d]
    BY <1>3
  <2> HIDE DEF m
  <2>3. CASE d = e
    <3>1. Len(<<m>>) > 0 /\ Tells(<<m>>[Len(<<m>>)], e) /\ <<m>>[Len(<<m>>)].text = buffer'[e]
      BY <1>t, <2>1, <2>2, <2>3 DEF Tells, Worlds
    <3> QED
      BY <1>0, <2>1, <3>1, KnowingSends
  <2>4. CASE d # e
    <3>1. timer'[e] = timer[e] /\ \A i \in 1 .. Len(<<m>>) : Harmless(<<m>>[i], e)
      BY <1>t, <2>1, <2>2, <2>4 DEF Harmless, Worlds
    <3> QED
      BY <1>0, <2>1, <3>1, KnowingSends
  <2> QED
    BY <2>3, <2>4
<1>8. ASSUME NEW d \in Documents, S!Save(d) PROVE KnowsAt(e)'
  <2>1. /\ UNCHANGED <<buffer, timer, status>> /\ buffer[d] # NoText
        /\ file' = [file EXCEPT ![d] = buffer[d]]
    BY <1>8, SaveSends
  <2>2. PICK ms : Sends(ms) /\ \A i \in 1 .. Len(ms) : ms[i].kind = "watched"
    BY <1>8, SaveSends
  <2>3. \A i \in 1 .. Len(ms) : Harmless(ms[i], e)
    BY <2>2 DEF Harmless
  <2>4. file'[e] = file[e] \/ buffer[e] # NoText
    BY <1>t, <2>1 DEF Worlds
  <2> QED
    BY <1>0, <2>1, <2>2, <2>3, <2>4, KnowingSends
<1>9. ASSUME NEW d \in Documents, NEW kind \in {"ask", "complete"}, S!Ask(d, kind) PROVE KnowsAt(e)'
  <2>1. UNCHANGED <<file, buffer, timer, status>> /\ buffer[d] # NoText
    BY <1>9, AskSends
  <2>2. CASE Sends(<<S!Message("ask", d, buffer[d])>>)
    <3> DEFINE m == S!Message("ask", d, buffer[d])
    <3>1. m.kind = "ask"
      BY <1>3
    <3> HIDE DEF m
    <3>2. \A i \in 1 .. Len(<<m>>) : Harmless(<<m>>[i], e)
      BY <3>1 DEF Harmless
    <3> QED
      BY <1>0, <2>1, <2>2, <3>2, KnowingSends DEF m
  <2>3. CASE Sends(<<S!Message("sync", d, buffer[d]), S!Message("complete", d, buffer[d])>>)
    <3> DEFINE m == S!Message("sync", d, buffer[d])
               c == S!Message("complete", d, buffer[d])
    <3>1. m.kind = "sync" /\ m.doc = d /\ m.text = buffer[d] /\ c.kind = "complete"
      BY <1>3
    <3> HIDE DEF m, c
    <3>2. \A i \in 1 .. Len(<<m, c>>) : Harmless(<<m, c>>[i], e)
      <4>1. Harmless(m, e) /\ Harmless(c, e)
        BY <2>1, <3>1 DEF Harmless
      <4> QED
        BY <4>1
    <3> QED
      BY <1>0, <2>1, <2>3, <3>2, KnowingSends DEF m, c
  <2> QED
    BY <1>9, <2>2, <2>3, AskSends
<1>10. CASE S!Crash
  BY <1>10, DownKnows DEF S!Crash
<1>11. CASE S!Start
  <2>1. UNCHANGED <<file, buffer, timer, queue, documents>> /\ status = "down" /\ status' = "starting"
    BY <1>11 DEF S!Start, S!editor, S!server
  <2> QED
    BY <1>0, <2>1 DEF KnowsAt, LastTold, Told, Latest, Knows, Closes
<1>12. CASE S!Ready
  BY <1>0, <1>12, ReadyKnows
<1>13. CASE S!Serve
  BY <1>0, <1>13, ServeHandles, ServeKnows
<1>14. ASSUME NEW d \in Documents, S!CloseTab(d) PROVE KnowsAt(e)'
  BY <1>0, <1>14, CloseKnows
<1> QED
  BY <1>1, <1>4, <1>5, <1>6, <1>7, <1>8, <1>9, <1>10, <1>11, <1>12, <1>13, <1>14
  DEF S!Next, session, S!vars, S!editor, S!server
-------------------------------------------------------------------------------
\* Of a document without pending analysis the server has the editor's text.
LEMMA QuietKnows ==
    ASSUME Knowing, status = "up", NEW d \in Documents, ~Pending(d), buffer[d] # NoText,
           queue \in Seq(Messages)
    PROVE  documents[d] = buffer[d] /\ ~Closes(d, 0, Len(queue))
<1>1. Len(queue) \in Nat /\ LastTold(d, 0) /\ timer[d] = "no"
  BY DEF Pending, LastTold
<1>2. Knows(d, 0)
  BY <1>1 DEF Knowing, KnowsAt
<1> QED
  BY <1>2 DEF Knows, Told

\* Of a document about which nothing is under way, the server has the editor's text.
LEMMA QuietKnowsThen ==
    ASSUME Knowing', status' = "up", NEW d \in Documents, ~Pending(d)', buffer'[d] # NoText,
           queue' \in Seq(Messages)
    PROVE  documents'[d] = buffer'[d]
<1>1. Len(queue') \in Nat /\ LastTold(d, 0)' /\ timer'[d] = "no"
  BY DEF Pending, LastTold
<1>2. Knows(d, 0)'
  BY <1>1 DEF Knowing, KnowsAt
<1> QED
  BY <1>2 DEF Knows, Told

\* What is shown stays right for other texts when e is not among those it was made of,
\* or its text stays, or an analysis of e is to come.
LEMMA StillShows ==
    ASSUME NEW d \in Documents, Shows(d), shown'[d] = shown[d], documents'[d] = documents[d],
           dependencies'[d] = dependencies[d],
           \A e \in Documents : e \in dependencies[d] =>
               /\ Pending(e) => Pending(e)'
               /\ Pending(e) \/ Pending(e)' \/ S!OnDisk(documents)'[e] = S!OnDisk(documents)[e]
    PROVE  Shows(d)'
<1>1. PICK w \in Worlds :
          /\ shown[d] = Made(w, documents[d])
          /\ S!Missed(d) \/ \A e \in S!Loaded(w, documents[d]) : Current(d, e, w[e])
  BY DEF Shows
<1>2. shown'[d] = Made(w, documents'[d])
  BY <1>1
<1>3. CASE S!Missed(d)
  <2>1. S!Missed(d)'
    BY <1>3 DEF S!Missed
  <2> QED
    BY <1>2, <2>1 DEF Shows
<1>4. CASE \A e \in S!Loaded(w, documents[d]) : Current(d, e, w[e])
  <2>1. ASSUME NEW e \in S!Loaded(w, documents[d]) PROVE Current(d, e, w[e])'
    <3>1. e \in Documents /\ Current(d, e, w[e])
      BY <1>4 DEF S!Loaded
    <3> QED
      BY <3>1 DEF Current
  <2> QED
    BY <1>2, <2>1 DEF Shows
<1> QED
  BY <1>1, <1>3, <1>4

\* What has just been analysed is right.
LEMMA FreshShows ==
    ASSUME ToolConstants, SessionTypes', file' = file, NEW d \in Documents,
           shown'[d] = S!Analysis(documents', d),
           dependencies'[d] = S!Found(S!Analysis(documents', d))
    PROVE  Shows(d)'
<1> PICK texts : texts = documents'
  OBVIOUS
<1>1. file \in Worlds /\ texts \in Worlds
  BY DEF SessionTypes
<1> DEFINE w == S!OnDisk(texts)
<1>2. w \in Worlds
  BY <1>1, OnDiskWorld
<1>3. S!Analysis(texts, d) = Made(w, texts[d])
  BY DEF S!Analysis, S!Read, Made
<1>4. S!OnDisk(documents)' = w
  BY DEF S!OnDisk, S!World
<1> HIDE DEF w
<1>5. PICK v : v = w
  OBVIOUS
<1>6. shown'[d] = Made(v, texts[d]) /\ v \in Worlds /\ S!OnDisk(documents)' = v
  BY <1>2, <1>3, <1>4, <1>5
<1>7. DOMAIN shown'[d].read = S!Loaded(v, texts[d]) /\ \A e \in S!Loaded(v, texts[d]) : shown'[d].read[e] = v[e]
  BY <1>6 DEF Made
<1>8. ASSUME ~S!Missed(d)', NEW e \in S!Loaded(v, texts[d]) PROVE Current(d, e, v[e])'
  <2>1. v[e] # NoText
    BY <1>7, <1>8 DEF S!Missed
  <2>2. e \in dependencies'[d]
    BY <1>3, <1>5, <1>7, <1>6, <2>1 DEF S!Found
  <2> QED
    BY <1>6, <2>2 DEF Current
<1> QED
  BY <1>6, <1>8 DEF Shows

\* Steps of the editor
LEMMA ShownSends ==
    ASSUME ToolConstants, SessionTypes, SessionTypes', AllShown, NEW ms, Sends(ms), status' = status,
           \A e \in Documents : timer[e] # "no" =>
               timer'[e] # "no" \/ \E i \in 1 .. Len(ms) : Tells(ms[i], e),
           \A e \in Documents : status = "up" =>
               \/ Pending(e) \/ \E i \in 1 .. Len(ms) : Tells(ms[i], e)
               \/ S!OnDisk(documents)'[e] = S!OnDisk(documents)[e],
           \A d \in Documents : timer'[d] = "no" /\ buffer'[d] # NoText =>
               \/ timer[d] = "no" /\ buffer[d] # NoText
               \/ \E i \in 1 .. Len(ms) : Tells(ms[i], d)
    PROVE  AllShown'
<1> SUFFICES ASSUME status = "up", NEW d \in Documents, Quiet(d)', buffer'[d] # NoText
             PROVE  analyses'[d] = shown'[d] /\ Shows(d)'
  BY DEF AllShown
<1>1. /\ queue \in Seq(Messages) /\ ms \in Seq(Messages) /\ queue' = queue \o ms
      /\ UNCHANGED <<documents, analyses, dependencies, shown>>
  BY DEF Sends, SessionTypes
<1>2. /\ Len(queue) \in Nat /\ Len(ms) \in Nat /\ Len(queue') = Len(queue) + Len(ms)
      /\ \A i \in 1 .. Len(queue) : queue'[i] = queue[i]
      /\ \A i \in Len(queue) + 1 .. Len(queue') :
             i - Len(queue) \in 1 .. Len(ms) /\ queue'[i] = ms[i - Len(queue)]
  BY <1>1, Appended
<1>3. \A e \in Documents : (\E i \in 1 .. Len(queue) : Tells(queue[i], e)) =>
                               \E i \in 1 .. Len(queue') : Tells(queue'[i], e)
  <2> TAKE e \in Documents
  <2> SUFFICES ASSUME NEW i \in 1 .. Len(queue), Tells(queue[i], e)
               PROVE  \E j \in 1 .. Len(queue') : Tells(queue'[j], e)
    OBVIOUS
  <2>1. i \in 1 .. Len(queue')
    BY ONLY <1>2
  <2> QED
    BY <1>2, <2>1
<1>4. \A e \in Documents : (\E i \in 1 .. Len(ms) : Tells(ms[i], e)) =>
                               \E i \in 1 .. Len(queue') : Tells(queue'[i], e)
  <2> TAKE e \in Documents
  <2> SUFFICES ASSUME NEW i \in 1 .. Len(ms), Tells(ms[i], e)
               PROVE  \E j \in 1 .. Len(queue') : Tells(queue'[j], e)
    OBVIOUS
  <2>1. /\ Len(queue) + i \in Len(queue) + 1 .. Len(queue') /\ (Len(queue) + i) - Len(queue) = i
        /\ Len(queue) + i \in 1 .. Len(queue')
    BY ONLY <1>2, i \in 1 .. Len(ms)
  <2> QED
    BY <1>2, <2>1
<1>5. Closes(d, 0, Len(queue)) => Closes(d, 0, Len(queue))'
  <2> SUFFICES ASSUME NEW i \in 1 .. Len(queue), queue[i].doc = d /\ queue[i].kind = "close"
               PROVE  Closes(d, 0, Len(queue))'
    BY DEF Closes
  <2>1. i \in 1 .. Len(queue') /\ queue'[i] = queue[i]
    BY <1>2
  <2> QED
    BY <2>1 DEF Closes
<1>6. \A e \in Documents : Pending(e) => Pending(e)'
  BY <1>3, <1>4 DEF Pending
<1>7. Quiet(d) /\ buffer[d] # NoText
  <2>1. timer'[d] = "no" /\ ~(\E i \in 1 .. Len(ms) : Tells(ms[i], d)) /\ ~Closes(d, 0, Len(queue))
    BY <1>4, <1>5 DEF Quiet, Pending, Closes
  <2>2. timer[d] = "no" /\ buffer[d] # NoText
    BY <2>1
  <2> QED
    BY <1>6, <2>1, <2>2 DEF Quiet
<1>8. analyses[d] = shown[d] /\ Shows(d)
  BY <1>7 DEF AllShown
<1>9. \A e \in Documents : Pending(e) \/ Pending(e)' \/ S!OnDisk(documents)'[e] = S!OnDisk(documents)[e]
  BY <1>4 DEF Pending
<1> QED
  BY <1>1, <1>6, <1>8, <1>9, StillShows

\* Steps of the server, as far as d was not analysed
LEMMA ShownHandled ==
    ASSUME SessionTypes, Knowing, Knowing', SessionTypes', AllShown, status = "up", NEW m, Treats(m),
           NEW d \in Documents, Quiet(d)', buffer'[d] # NoText
    PROVE  /\ documents'[d] = buffer[d] /\ buffer[d] # NoText
           /\ \A e \in Documents : Pending(e) /\ ~Tells(m, e) => Pending(e)'
           /\ m.doc = d => m.kind # "close"
           /\ Tells(m, d) \/ (Quiet(d) /\ documents[d] = buffer[d])
<1>1. /\ UNCHANGED <<file, buffer, timer, status>> /\ m = Head(queue) /\ queue # << >>
      /\ queue' = Tail(queue) /\ queue \in Seq(Messages) /\ queue' \in Seq(Messages)
  BY DEF Treats, SessionTypes
<1>2. /\ Len(queue) \in Nat /\ Len(queue') \in Nat /\ Len(queue) = Len(queue') + 1 /\ m = queue[1]
      /\ \A i \in 1 .. Len(queue') : queue'[i] = queue[i + 1]
  BY <1>1, Shifted
<1>3. documents'[d] = buffer[d] /\ buffer[d] # NoText
  BY <1>1, QuietKnowsThen DEF Quiet
<1>4. \A i \in 1 .. Len(queue) : i = 1 \/ (i - 1 \in 1 .. Len(queue') /\ queue'[i - 1] = queue[i])
  BY ONLY <1>2
<1>5. \A e \in Documents : Pending(e) /\ ~Tells(m, e) => Pending(e)'
  <2> TAKE e \in Documents
  <2> HAVE Pending(e) /\ ~Tells(m, e)
  <2>1. CASE timer[e] # "no"
    BY <1>1, <2>1 DEF Pending
  <2>2. ASSUME NEW i \in 1 .. Len(queue), Tells(queue[i], e) PROVE Pending(e)'
    <3>1. i # 1
      BY <1>2, <2>2
    <3>2. i - 1 \in 1 .. Len(queue') /\ Tells(queue'[i - 1], e)
      BY <1>4, <2>2, <3>1
    <3> QED
      BY <3>2 DEF Pending, Tells
  <2> QED
    BY <2>1, <2>2 DEF Pending
<1>6. m.doc = d => m.kind # "close"
  BY <1>3 DEF Treats, SessionTypes, Worlds
<1>7. ASSUME ~Tells(m, d) PROVE Quiet(d) /\ documents[d] = buffer[d]
  <2>1. ~Pending(d)
    BY <1>5, <1>7 DEF Quiet
  <2>2. documents[d] = buffer[d] /\ ~Closes(d, 0, Len(queue))
    BY <1>1, <1>3, <2>1, QuietKnows
  <2> QED
    BY <2>1, <2>2 DEF Quiet
<1> QED
  BY <1>3, <1>5, <1>6, <1>7

\* What the first message does to the text of a document of which nothing is pending
LEMMA HandledText ==
    ASSUME ToolConstants, SessionTypes, Knowing, status = "up", NEW m, Treats(m),
           NEW e \in Documents, ~Pending(e)
    PROVE  S!OnDisk(documents)'[e] = S!OnDisk(documents)[e]
<1>1. /\ UNCHANGED file /\ m = queue[1] /\ Len(queue) \in Nat /\ Len(queue) > 0 /\ m \in Messages
  <2>1. queue \in Seq(Messages) /\ queue # << >> /\ m = Head(queue)
    BY DEF Treats, SessionTypes
  <2> QED
    BY <2>1 DEF Treats
<1>2. LastTold(e, 0) /\ timer[e] = "no" /\ ~Tells(m, e)
  BY <1>1 DEF Pending, LastTold
<1>3. Knows(e, 0) /\ Told(e, 0) = documents[e]
  BY <1>1, <1>2 DEF Knowing, KnowsAt, Told
<1>4. documents \in Worlds /\ documents' \in Worlds /\ file \in Worlds
  BY <1>1 DEF Treats, SessionTypes, Worlds, Messages, TextsOrNone
<1>5. documents'[e] = documents[e] \/ {documents[e], documents'[e]} \subseteq {file[e], NoText}
  <2>1. CASE m.doc = e /\ m.kind = "sync"
    <3>1. m.text = Latest(e, 0)
      BY <1>1, <1>3, <2>1 DEF Knows
    <3>2. documents'[e] = Latest(e, 0)
      BY <1>4, <2>1, <3>1 DEF Treats, Worlds
    <3>3. CASE Closes(e, 0, Len(queue))
      BY <1>3, <3>2, <3>3 DEF Latest, Knows
    <3>4. CASE ~Closes(e, 0, Len(queue))
      BY <1>3, <3>2, <3>4 DEF Latest, Knows
    <3> QED
      BY <3>3, <3>4
  <2>2. CASE m.doc = e /\ m.kind = "close"
    <3>1. Closes(e, 0, Len(queue))
      BY <1>1, <2>2 DEF Closes
    <3>2. documents[e] \in {file[e], NoText}
      BY <1>3, <3>1 DEF Knows
    <3>3. documents'[e] = NoText
      BY <1>4, <2>2 DEF Treats, Worlds
    <3> QED
      BY <3>2, <3>3
  <2>3. CASE ~(m.doc = e /\ m.kind \in {"sync", "close"})
    BY <1>2, <1>4, <2>3 DEF Treats, Tells, Worlds
  <2> QED
    BY <2>1, <2>2, <2>3
<1>6. UNCHANGED <<file>>
  BY <1>1
<1>7. S!OnDisk(documents)'[e] = IF file[e] = NoText THEN NoText
                                ELSE IF documents'[e] # NoText THEN documents'[e] ELSE file[e]
  BY <1>6 DEF S!OnDisk, S!World
<1>8. S!OnDisk(documents)[e] = IF file[e] = NoText THEN NoText
                               ELSE IF documents[e] # NoText THEN documents[e] ELSE file[e]
  BY DEF S!OnDisk, S!World
<1> QED
  BY <1>5, <1>7, <1>8

\* The server's steps keep what is shown right, or owe it a message.
LEMMA ShownServe ==
    ASSUME ToolConstants, SessionInv, S!Serve, SessionTypes', Knowing'
    PROVE  AllShown'
<1>0. SessionTypes /\ Knowing /\ AllShown
  BY DEF SessionInv
<1> SUFFICES ASSUME status' = "up", NEW d \in Documents, Quiet(d)', buffer'[d] # NoText
             PROVE  analyses'[d] = shown'[d] /\ Shows(d)'
  BY DEF AllShown
<1> DEFINE m == Head(queue)
<1>1. Treats(m)
  BY ServeHandles
<1>2. UNCHANGED <<file, buffer, timer, status>> /\ status = "up"
  BY <1>1 DEF Treats
<1>3. /\ documents'[d] = buffer[d] /\ buffer[d] # NoText
      /\ \A e \in Documents : Pending(e) /\ ~Tells(m, e) => Pending(e)'
      /\ m.doc = d => m.kind # "close"
      /\ Tells(m, d) \/ (Quiet(d) /\ documents[d] = buffer[d])
  BY <1>0, <1>1, <1>2, ShownHandled
<1>4. ASSUME ~Tells(m, d) PROVE analyses[d] = shown[d] /\ Shows(d) /\ documents'[d] = documents[d]
  BY <1>0, <1>2, <1>3, <1>4 DEF AllShown
<1>5. ASSUME ~Tells(m, d), shown'[d] = shown[d], analyses'[d] = analyses[d],
             dependencies'[d] = dependencies[d], \A e \in dependencies[d] : ~Tells(m, e)
      PROVE  analyses'[d] = shown'[d] /\ Shows(d)'
  <2>1. \A e \in Documents : Pending(e) \/ S!OnDisk(documents)'[e] = S!OnDisk(documents)[e]
    BY <1>0, <1>1, <1>2, HandledText
  <2>2. \A e \in Documents : e \in dependencies[d] => (Pending(e) => Pending(e)')
    BY <1>3, <1>5
  <2>3. Shows(d)'
    BY <1>4, <1>5, <2>1, <2>2, StillShows
  <2> QED
    BY <1>4, <1>5, <2>3
<1>6. ASSUME shown'[d] = S!Analysis(documents', d), analyses'[d] = shown'[d],
             dependencies'[d] = S!Found(S!Analysis(documents', d))
      PROVE  analyses'[d] = shown'[d] /\ Shows(d)'
  BY <1>2, <1>6, FreshShows
<1>7. \A texts, D : S!Analysed(texts, D) /\ documents' = texts =>
          /\ d \in D => /\ analyses'[d] = S!Analysis(documents', d)
                        /\ dependencies'[d] = S!Found(S!Analysis(documents', d))
          /\ d \notin D => analyses'[d] = analyses[d] /\ dependencies'[d] = dependencies[d]
  BY <1>3 DEF S!Analysed
<1>8. \A texts, D : S!Analysed(texts, D) => documents' = texts
  BY DEF S!Analysed
<1>9. \A kind : S!Receives(kind) => m.kind = kind
  BY DEF S!Receives
<1>10. \A e : Tells(m, e) => m.doc = e /\ m.kind \in {"open", "change"}
  BY DEF Tells
<1>11. CASE S!DidChange
  <2> PICK texts, D : /\ texts = [documents EXCEPT ![m.doc] = m.text]
                      /\ D = S!Affected(texts, m.doc)
    OBVIOUS
  <2>1. S!Analysed(texts, D) /\ S!Published(D)
    BY <1>11 DEF S!DidChange
  <2>2. documents' = texts
    BY <1>8, <2>1
  <2>3. CASE d \in D
    <3>1. shown'[d] = S!Analysis(documents', d)
      BY <2>1, <2>2, <2>3 DEF S!Published, S!Analysed
    <3> QED
      BY <1>6, <1>7, <2>1, <2>2, <2>3, <3>1
  <2>4. CASE d \notin D
    <3>1. shown'[d] = shown[d]
      BY <2>1, <2>4 DEF S!Published
    <3>2. d \in S!Open(texts)
      BY <1>3, <2>2 DEF S!Open
    <3>3. d # m.doc /\ m.doc \notin dependencies[d]
      BY <2>4, <3>2 DEF S!Affected
    <3> QED
      BY <1>5, <1>7, <1>10, <2>1, <2>2, <2>4, <3>1, <3>3
  <2> QED
    BY <2>3, <2>4
<1>12. CASE S!DidSync
  <2>1. m.kind = "sync" /\ UNCHANGED <<analyses, dependencies, shown>>
    BY <1>9, <1>12 DEF S!DidSync
  <2> QED
    BY <1>5, <1>10, <2>1
<1>13. CASE S!DidClose
  <2> PICK texts, D : /\ texts = [documents EXCEPT ![m.doc] = NoText]
                      /\ D = IF m.doc \in Libraries THEN S!Open(texts) ELSE {}
    OBVIOUS
  <2>1. /\ S!Analysed(texts, D) /\ m.kind = "close"
        /\ shown' = [x \in Documents |-> IF x = m.doc THEN S!NoAnalysis ELSE
                                         IF x \in D THEN S!Analysis(texts, x) ELSE shown[x]]
    BY <1>9, <1>13 DEF S!DidClose
  <2>2. documents' = texts /\ m.doc # d
    BY <1>3, <1>8, <2>1
  <2>3. CASE d \in D
    BY <1>6, <1>7, <2>1, <2>2, <2>3
  <2>4. CASE d \notin D
    BY <1>5, <1>7, <1>10, <2>1, <2>2, <2>4
  <2> QED
    BY <2>3, <2>4
<1>14. CASE S!DidChangeWatchedFiles
  <2>1. S!Analysed(documents, S!Open(documents)) /\ S!Published(S!Open(documents))
        /\ m.kind = "watched"
    BY <1>9, <1>14 DEF S!DidChangeWatchedFiles
  <2>2. documents' = documents
    BY <1>8, <2>1
  <2>3. d \in S!Open(documents)
    BY <1>3, <2>2 DEF S!Open
  <2>4. shown'[d] = S!Analysis(documents', d)
    BY <2>1, <2>2, <2>3 DEF S!Published, S!Analysed
  <2> QED
    BY <1>6, <1>7, <2>1, <2>2, <2>3, <2>4
<1>15. CASE S!Answer
  <2>1. m.kind = "ask" /\ shown' = shown
    BY <1>9, <1>15 DEF S!Answer
  <2>2. UNCHANGED <<analyses, dependencies>> \/ (~S!Fresh(m.doc) /\ S!Analysed(documents, {m.doc}))
    BY <1>15 DEF S!Answer, S!server
  <2>3. CASE UNCHANGED <<analyses, dependencies>>
    BY <1>5, <1>10, <2>1, <2>3
  <2>4. CASE ~S!Fresh(m.doc) /\ S!Analysed(documents, {m.doc})
    <3>1. d # m.doc
      <4>1. analyses[d] = shown[d] /\ Shows(d)
        BY <1>4, <1>10, <2>1
      <4>2. shown[d].text = documents[d]
        BY <4>1 DEF Shows, Made
      <4> QED
        BY <2>4, <4>1, <4>2 DEF S!Fresh
    <3>2. documents' = documents
      BY <1>8, <2>4
    <3>3. analyses'[d] = analyses[d] /\ dependencies'[d] = dependencies[d]
      BY <1>7, <2>4, <3>1, <3>2
    <3> QED
      BY <1>5, <1>10, <2>1, <3>3
  <2> QED
    BY <2>2, <2>3, <2>4
<1>16. CASE S!AnswerCompletion
  <2>0. m.kind = "complete"
    BY <1>9, <1>16 DEF S!AnswerCompletion
  <2>5. CASE UNCHANGED <<analyses, dependencies, shown>>
    BY <1>5, <1>10, <2>0, <2>5
  <2> SUFFICES ASSUME ~UNCHANGED <<analyses, dependencies, shown>>
               PROVE  analyses'[d] = shown'[d] /\ Shows(d)'
    BY <2>5
  <2>1. S!Analysed(documents, {m.doc}) /\ S!Published({m.doc}) /\ m.kind = "complete"
    BY <2>0, <1>16 DEF S!AnswerCompletion, S!server
  <2>2. documents' = documents
    BY <1>8, <2>1
  <2>3. CASE d = m.doc
    <3>1. shown'[d] = S!Analysis(documents', d)
      BY <2>1, <2>2, <2>3 DEF S!Published, S!Analysed
    <3> QED
      BY <1>6, <1>7, <2>1, <2>2, <2>3, <3>1
  <2>4. CASE d # m.doc
    <3>1. shown'[d] = shown[d]
      BY <2>1, <2>4 DEF S!Published
    <3>2. analyses'[d] = analyses[d] /\ dependencies'[d] = dependencies[d]
      BY <1>7, <2>1, <2>2, <2>4
    <3> QED
      BY <1>5, <1>10, <2>1, <3>1, <3>2
  <2> QED
    BY <2>3, <2>4
<1> QED
  BY <1>11, <1>12, <1>13, <1>14, <1>15, <1>16 DEF S!Serve

\* Every step keeps what is shown right, or owes it a message.
LEMMA ShownStep ==
    ASSUME ToolConstants, SessionInv, SessionTypes', Knowing', [S!Next]_session
    PROVE  AllShown'
<1>0. SessionTypes /\ Knowing /\ AllShown
  BY DEF SessionInv
<1>t. /\ timer \in [Documents -> {"no", "set"}] /\ buffer \in Worlds /\ file \in Worlds
      /\ \A d \in Documents : buffer[d] # NoText => file[d] # NoText
  BY <1>0 DEF SessionTypes
<1>1. CASE UNCHANGED session
  <2>1. UNCHANGED <<file, buffer, timer, status, queue, documents, analyses, dependencies, shown>>
    BY <1>1 DEF session
  <2>2. << >> \in Seq(Messages) /\ queue \in Seq(Messages) /\ queue \o << >> = queue
    BY <1>0 DEF SessionTypes
  <2>3. Sends(<< >>)
    BY <2>1, <2>2 DEF Sends
  <2>4. \A e \in Documents : S!OnDisk(documents)'[e] = S!OnDisk(documents)[e]
    BY <2>1 DEF S!OnDisk, S!World
  <2> QED
    BY <1>0, <2>1, <2>3, <2>4, ShownSends
<1>2. \A e \in Documents : UNCHANGED <<file, documents>> =>
          S!OnDisk(documents)'[e] = S!OnDisk(documents)[e]
  BY DEF S!OnDisk, S!World
<1>3. ASSUME NEW d \in Documents, S!OpenTab(d) PROVE AllShown'
  <2> DEFINE m == S!Message("open", d, file[d])
  <2>1. /\ Sends(<<m>>) /\ UNCHANGED <<file, timer, status>>
        /\ buffer' = [buffer EXCEPT ![d] = file[d]]
    BY <1>0, <1>3, OpenTabSends
  <2>2. Tells(m, d)
    BY DEF S!Message, Tells
  <2> HIDE DEF m
  <2>3. 1 \in 1 .. Len(<<m>>) /\ <<m>>[1] = m
    OBVIOUS
  <2>4. \A e \in Documents : e # d => buffer'[e] = buffer[e]
    BY <1>t, <2>1 DEF Worlds
  <2>5. UNCHANGED documents
    BY <2>1 DEF Sends
  <2> QED
    BY <1>0, <1>2, <2>1, <2>2, <2>3, <2>4, <2>5, ShownSends
<1>4. ASSUME NEW d \in Documents, NEW text \in Texts, S!Create(d, text) PROVE AllShown'
  <2> DEFINE m == S!Message("open", d, text)
  <2>1. /\ Sends(<<m>>) /\ UNCHANGED <<timer, status>>
        /\ buffer' = [buffer EXCEPT ![d] = text] /\ file' = [file EXCEPT ![d] = text]
    BY <1>0, <1>4, CreateSends
  <2>2. Tells(m, d)
    BY DEF S!Message, Tells
  <2> HIDE DEF m
  <2>3. 1 \in 1 .. Len(<<m>>) /\ <<m>>[1] = m
    OBVIOUS
  <2>4. \A e \in Documents : e # d => buffer'[e] = buffer[e] /\ file'[e] = file[e]
    BY <1>t, <2>1 DEF Worlds
  <2>5. UNCHANGED documents
    BY <2>1 DEF Sends
  <2>6. \A e \in Documents : e # d => S!OnDisk(documents)'[e] = S!OnDisk(documents)[e]
    BY <2>4, <2>5 DEF S!OnDisk, S!World
  <2> QED
    BY <1>0, <2>1, <2>2, <2>3, <2>4, <2>6, ShownSends
<1>5. ASSUME NEW d \in Documents, NEW text \in Texts, S!Edit(d, text) PROVE AllShown'
  <2>1. PICK ms : Sends(ms)
    BY <1>0, <1>5, EditSends
  <2>2. /\ UNCHANGED <<file, status>> /\ timer' = [timer EXCEPT ![d] = "set"]
        /\ buffer' = [buffer EXCEPT ![d] = text]
    BY <1>0, <1>5, EditSends
  <2>3. /\ \A e \in Documents : e # d => buffer'[e] = buffer[e] /\ timer'[e] = timer[e]
        /\ timer'[d] = "set"
    BY <1>t, <2>2 DEF Worlds
  <2>4. UNCHANGED documents
    BY <2>1 DEF Sends
  <2> QED
    BY <1>0, <1>2, <2>1, <2>2, <2>3, <2>4, ShownSends
<1>6. ASSUME NEW d \in Documents, S!TimerFires(d) PROVE AllShown'
  <2> DEFINE m == S!Message("change", d, buffer[d])
  <2>1. /\ Sends(<<m>>) /\ UNCHANGED <<file, buffer, status>> /\ timer' = [timer EXCEPT ![d] = "no"]
    BY <1>0, <1>6, TimerFiresSends
  <2>2. Tells(m, d)
    BY DEF S!Message, Tells
  <2> HIDE DEF m
  <2>3. 1 \in 1 .. Len(<<m>>) /\ <<m>>[1] = m
    OBVIOUS
  <2>4. \A e \in Documents : e # d => timer'[e] = timer[e]
    BY <1>t, <2>1
  <2>5. UNCHANGED documents
    BY <2>1 DEF Sends
  <2> QED
    BY <1>0, <1>2, <2>1, <2>2, <2>3, <2>4, <2>5, ShownSends
<1>7. ASSUME NEW d \in Documents, S!Save(d) PROVE AllShown'
  <2>1. PICK ms : Sends(ms)
    BY <1>0, <1>7, SaveSends
  <2>2. /\ UNCHANGED <<buffer, timer, status>> /\ buffer[d] # NoText
        /\ file' = [file EXCEPT ![d] = buffer[d]]
    BY <1>0, <1>7, SaveSends
  <2>3. UNCHANGED documents /\ queue \in Seq(Messages)
    BY <1>0, <2>1 DEF Sends, SessionTypes
  <2>4. ASSUME NEW e \in Documents, status = "up", ~Pending(e)
        PROVE  S!OnDisk(documents)'[e] = S!OnDisk(documents)[e]
    <3>1. CASE e = d
      <4>1. documents[d] # NoText
        BY <1>0, <2>2, <2>3, <2>4, <3>1, QuietKnows
      <4>2. file[d] # NoText /\ file'[d] # NoText
        BY <1>t, <2>2 DEF Worlds
      <4> QED
        BY <2>3, <3>1, <4>1, <4>2 DEF S!OnDisk, S!World
    <3>2. CASE e # d
      <4>1. file'[e] = file[e]
        BY <1>t, <2>2, <3>2 DEF Worlds
      <4> QED
        BY <2>3, <4>1 DEF S!OnDisk, S!World
    <3> QED
      BY <3>1, <3>2
  <2> QED
    BY <1>0, <2>1, <2>2, <2>4, ShownSends
<1>8. ASSUME NEW d \in Documents, S!CloseTab(d) PROVE AllShown'
  <2>1. PICK ms : Sends(ms)
    BY <1>0, <1>8, CloseTabSends
  <2>2. UNCHANGED <<file, timer, status>> /\ buffer' = [buffer EXCEPT ![d] = NoText]
    BY <1>0, <1>8, CloseTabSends
  <2>3. \A e \in Documents : buffer'[e] # NoText => buffer'[e] = buffer[e]
    BY <1>t, <2>2 DEF Worlds
  <2>4. UNCHANGED documents
    BY <2>1 DEF Sends
  <2> QED
    BY <1>0, <1>2, <2>1, <2>2, <2>3, <2>4, ShownSends
<1>9. ASSUME NEW d \in Documents, NEW kind \in {"ask", "complete"}, S!Ask(d, kind) PROVE AllShown'
  <2>1. PICK ms : Sends(ms)
    BY <1>0, <1>9, AskSends
  <2>2. UNCHANGED <<file, buffer, timer, status>>
    BY <1>0, <1>9, AskSends
  <2>3. UNCHANGED documents
    BY <2>1 DEF Sends
  <2> QED
    BY <1>0, <1>2, <2>1, <2>2, <2>3, ShownSends
<1>10. CASE S!Crash \/ S!Start
  BY <1>10 DEF S!Crash, S!Start, AllShown
<1>11. CASE S!Ready
  <2> SUFFICES ASSUME NEW d \in Documents, buffer'[d] # NoText PROVE ~Quiet(d)'
    BY DEF AllShown
  <2>1. PICK ms : Reopened(ms) /\ queue' = queue \o ms
    BY <1>0, <1>11, ReadySends
  <2>2. d \in S!Open(buffer)
    BY <1>11 DEF S!Ready, S!editor, S!Open
  <2>3. PICK i \in 1 .. Len(ms) : ms[i].doc = d
    BY <2>1, <2>2 DEF Reopened
  <2>4. ms[i].kind = "open"
    BY <2>1 DEF Reopened
  <2>5. queue \in Seq(Messages) /\ ms \in Seq(Messages)
    BY <1>0, <2>1 DEF Reopened, SessionTypes
  <2>6. Len(queue) + i \in 1 .. Len(queue') /\ queue'[Len(queue) + i] = ms[i]
    BY <2>1, <2>5
  <2> QED
    BY <2>3, <2>4, <2>6 DEF Quiet, Pending, Tells
<1>12. CASE S!Serve
  BY <1>12, ShownServe
<1> QED
  BY <1>1, <1>3, <1>4, <1>5, <1>6, <1>7, <1>8, <1>9, <1>10, <1>11, <1>12
  DEF S!Next, session, S!vars, S!editor, S!server

\* When all is quiet, the server has the editor's texts and what the editor shows is
\* right, whatever crashed, was lost or was overtaken.
THEOREM QuietSessionIsRight == ASSUME ToolConstants PROVE S!Spec => []SettledIsRight
<1>1. ASSUME SessionInv, [S!Next]_(S!vars) PROVE SessionInv'
  <2>1. [S!Next]_session
    BY <1>1 DEF session, S!vars, S!editor, S!server
  <2> QED
    BY <1>1, <2>1, TypesStep, KnowingStep, ShownStep DEF SessionInv
<1>2. SessionInv => SettledIsRight
  BY QuietIsRight
<1> QED
  BY SessionInit, <1>1, <1>2, PTL DEF S!Spec
-------------------------------------------------------------------------------
\* Before message j the server has text t of e, as far as it is told of e at all.
Sets(m, e) == m.doc = e /\ m.kind \in {"open", "change", "sync", "close"}
Given(e, k) == IF k = 0 THEN documents[e] ELSE IF queue[k].kind = "close" THEN NoText ELSE queue[k].text
LastSet(e, k, j) == /\ k = 0 \/ Sets(queue[k], e)
                    /\ \A l \in k + 1 .. j - 1 : ~Sets(queue[l], e)
HasBefore(e, j, t) == \A k \in 0 .. j - 1 : LastSet(e, k, j) => Given(e, k) = t

\* In the end it has what the editor holds, and a question comes with the text that
\* the server has by then, if it is told the document at all.
Synced == \A e \in Documents :
    \/ HasBefore(e, Len(queue) + 1, buffer[e])
    \/ status # "up" /\ HasBefore(e, Len(queue) + 1, NoText)
Answerable(m, j) == HasBefore(m.doc, j, m.text) \/ (m.kind = "ask" /\ HasBefore(m.doc, j, NoText))
Asked == \A j \in 1 .. Len(queue) : queue[j].kind \in {"ask", "complete"} => Answerable(queue[j], j)

\* Before the first message, the server has its own text.
LEMMA HasInit == ASSUME NEW e PROVE HasBefore(e, 1, documents[e])
BY DEF HasBefore, Given

\* One message later it has what that message tells.
LEMMA HasNext ==
    ASSUME NEW e, NEW j \in Nat \ {0}, NEW t, HasBefore(e, j, t), ~Sets(queue[j], e)
    PROVE  HasBefore(e, j + 1, t)
<1> SUFFICES ASSUME NEW k \in 0 .. j, LastSet(e, k, j + 1) PROVE Given(e, k) = t
  BY DEF HasBefore
<1>1. k # j
  BY DEF LastSet
<1>2. k \in 0 .. j - 1 /\ LastSet(e, k, j)
  BY <1>1 DEF LastSet
<1> QED
  BY <1>2 DEF HasBefore

\* A message that carries a text sets it.
LEMMA HasSet ==
    ASSUME NEW e, NEW j \in Nat \ {0}, Sets(queue[j], e)
    PROVE  HasBefore(e, j + 1, Given(e, j))
<1> SUFFICES ASSUME NEW k \in 0 .. j, LastSet(e, k, j + 1) PROVE k = j
  BY DEF HasBefore
<1>1. ~(j \in k + 1 .. j)
  BY DEF LastSet
<1> QED
  BY <1>1

\* Messages that follow change nothing before them.
LEMMA HasKept ==
    ASSUME NEW e, NEW j \in Nat \ {0}, NEW t, HasBefore(e, j, t), documents' = documents,
           \A k \in 1 .. j - 1 : queue'[k] = queue[k]
    PROVE  HasBefore(e, j, t)'
<1> SUFFICES ASSUME NEW k \in 0 .. j - 1, LastSet(e, k, j)' PROVE Given(e, k)' = t
  BY DEF HasBefore
<1>1. LastSet(e, k, j)
  BY DEF LastSet, Sets
<1>2. Given(e, k)' = Given(e, k)
  BY DEF Given
<1> QED
  BY <1>1, <1>2 DEF HasBefore

\* So a question that could be answered still can be.
LEMMA AnswerableKept ==
    ASSUME NEW m, NEW j \in Nat \ {0}, Answerable(m, j), documents' = documents,
           \A k \in 1 .. j - 1 : queue'[k] = queue[k]
    PROVE  Answerable(m, j)'
<1>1. \A t : HasBefore(m.doc, j, t) => HasBefore(m.doc, j, t)'
  BY HasKept
<1> QED
  BY <1>1 DEF Answerable

\* Taking the head moves every place by one and changes no text it has there.
LEMMA HasHandled ==
    ASSUME SessionTypes, NEW e \in Documents, NEW m, Treats(m), NEW j \in 1 .. Len(queue') + 1, NEW t,
           HasBefore(e, j + 1, t)
    PROVE  HasBefore(e, j, t)'
<1> SUFFICES ASSUME NEW k \in 0 .. j - 1, LastSet(e, k, j)' PROVE Given(e, k)' = t
  BY DEF HasBefore
<1>1. /\ Len(queue') \in Nat /\ Len(queue) = Len(queue') + 1 /\ m = queue[1] /\ m \in Messages
      /\ \A i \in 1 .. Len(queue') : queue'[i] = queue[i + 1]
  <2>1. queue \in Seq(Messages) /\ queue # << >> /\ queue' = Tail(queue) /\ m = Head(queue)
    BY DEF Treats, SessionTypes
  <2>2. Head(queue) \in Messages
    BY ONLY <2>1
  <2> QED
    BY ONLY <2>1, <2>2, Shifted
<1>2. \A l \in k + 2 .. j : ~Sets(queue[l], e)
  <2> TAKE l \in k + 2 .. j
  <2>1. l - 1 \in k + 1 .. j - 1 /\ l - 1 \in 1 .. Len(queue') /\ (l - 1) + 1 = l
    BY ONLY <1>1, j \in 1 .. Len(queue') + 1, k \in 0 .. j - 1, l \in k + 2 .. j
  <2> QED
    BY <1>1, <2>1 DEF LastSet, Sets
<1>3. CASE k # 0 \/ Sets(m, e)
  <2>1. k + 1 \in 0 .. j /\ k + 1 # 0
    BY ONLY k \in 0 .. j - 1, j \in 1 .. Len(queue') + 1, <1>1
  <2>2. Sets(queue[k + 1], e)
    <3>1. CASE k = 0
      BY <1>1, <1>3, <3>1
    <3>2. CASE k # 0
      BY <1>1, <3>2 DEF LastSet, Sets
    <3> QED
      BY <3>1, <3>2
  <2>3. LastSet(e, k + 1, j + 1)
    <3>1. (k + 1) + 1 .. (j + 1) - 1 = k + 2 .. j
      BY ONLY k \in 0 .. j - 1, j \in 1 .. Len(queue') + 1, <1>1
    <3> QED
      BY ONLY <1>2, <2>2, <3>1 DEF LastSet
  <2>4. Given(e, k + 1) = t
    <3>1. k + 1 \in 0 .. (j + 1) - 1
      BY ONLY k \in 0 .. j - 1, j \in 1 .. Len(queue') + 1, <1>1
    <3> QED
      BY <2>3, <3>1 DEF HasBefore
  <2>5. Given(e, k)' = Given(e, k + 1)
    <3>1. CASE k = 0
      BY <1>1, <1>3, <3>1 DEF Given, Treats, Sets, SessionTypes, Worlds
    <3>2. CASE k # 0
      BY <1>1, <2>1, <3>2 DEF Given
    <3> QED
      BY <3>1, <3>2
  <2> QED
    BY <2>4, <2>5
<1>4. CASE k = 0 /\ ~Sets(m, e)
  <2>1. LastSet(e, 0, j + 1)
    <3> SUFFICES ASSUME NEW l \in 1 .. j PROVE ~Sets(queue[l], e)
      BY DEF LastSet
    <3>1. CASE l = 1
      BY <1>1, <1>4, <3>1
    <3>2. CASE l # 1
      BY <1>2, <1>4, <3>2
    <3> QED
      BY <3>1, <3>2
  <2>2. documents[e] = t
    BY <2>1 DEF HasBefore, Given
  <2>3. documents'[e] = documents[e]
    BY <1>4 DEF Treats, Sets, SessionTypes, Worlds
  <2> QED
    BY <1>4, <2>2, <2>3 DEF Given
<1> QED
  BY <1>3, <1>4

\* Messages sent, of which the last about e gives the editor's text
LEMMA SyncedSends ==
    ASSUME SessionTypes, NEW e \in Documents, NEW ms, Sends(ms), status' = status,
           \/ buffer'[e] = buffer[e] /\ \A i \in 1 .. Len(ms) : Sets(ms[i], e) =>
                  ms[i].kind # "close" /\ ms[i].text = buffer[e]
           \/ /\ Len(ms) = 1 /\ Sets(ms[1], e)
              /\ buffer'[e] = IF ms[1].kind = "close" THEN NoText ELSE ms[1].text,
           \/ HasBefore(e, Len(queue) + 1, buffer[e])
           \/ status # "up" /\ HasBefore(e, Len(queue) + 1, NoText)
    PROVE  \/ HasBefore(e, Len(queue) + 1, buffer[e])'
           \/ status' # "up" /\ HasBefore(e, Len(queue) + 1, NoText)'
<1>1. /\ queue \in Seq(Messages) /\ ms \in Seq(Messages) /\ documents' = documents
      /\ status = "down" => queue' = << >> /\ documents[e] = NoText
      /\ status # "down" => queue' = queue \o ms
  BY DEF Sends, SessionTypes
<1>2. CASE status = "down"
  <2>1. Len(queue') + 1 = 1 /\ documents'[e] = NoText
    BY <1>1, <1>2
  <2>2. HasBefore(e, 1, NoText)'
    BY <2>1 DEF HasBefore, Given
  <2> QED
    BY <1>2, <2>1, <2>2
<1>3. CASE status # "down"
  <2>1. PICK n, p, b : n = Len(queue) /\ p = Len(queue') /\ b = buffer'[e]
    OBVIOUS
  <2>2. /\ n \in Nat /\ Len(ms) \in Nat /\ p = n + Len(ms)
        /\ \A i \in 1 .. n : queue'[i] = queue[i]
        /\ \A i \in n + 1 .. p : i - n \in 1 .. Len(ms) /\ queue'[i] = ms[i - n]
    BY <1>1, <1>3, <2>1, Appended
  <2>3. \A t : HasBefore(e, n + 1, t) => HasBefore(e, n + 1, t)'
    <3> TAKE t
    <3> HAVE HasBefore(e, n + 1, t)
    <3>1. n + 1 \in Nat \ {0} /\ 1 .. (n + 1) - 1 = 1 .. n
      BY ONLY <2>2
    <3> QED
      BY <1>1, <2>2, <3>1, HasKept
  <2>4. CASE \E i \in n + 1 .. p : Sets(queue'[i], e)
    <3> SUFFICES HasBefore(e, p + 1, b)'
      BY <2>1
    <3> SUFFICES ASSUME NEW k \in 0 .. p, LastSet(e, k, p + 1)' PROVE Given(e, k)' = b
      BY <2>2 DEF HasBefore
    <3>1. PICK i \in n + 1 .. p : Sets(queue'[i], e)
      BY <2>4
    <3>2. ~(i \in k + 1 .. p)
      BY <2>2, <3>1 DEF LastSet, Sets
    <3>3. k \in n + 1 .. p /\ k # 0
      BY ONLY <2>2, <3>1, <3>2, k \in 0 .. p
    <3>4. queue'[k] = ms[k - n] /\ k - n \in 1 .. Len(ms) /\ Sets(ms[k - n], e)
      <4>1. Sets(queue'[k], e)
        BY <3>3 DEF LastSet, Sets
      <4> QED
        BY <2>2, <3>3, <4>1
    <3>5. Len(ms) = 1 => k - n = 1
      BY ONLY <3>4
    <3> QED
      BY <2>1, <3>3, <3>4, <3>5 DEF Given
  <2>5. CASE \A i \in n + 1 .. p : ~Sets(queue'[i], e)
    <3>1. buffer'[e] = buffer[e]
      <4>1. CASE Len(ms) = 1 /\ Sets(ms[1], e)
        <5>1. n + 1 \in n + 1 .. p /\ (n + 1) - n = 1
          BY ONLY <2>2, <4>1
        <5> QED
          BY <2>2, <2>5, <4>1, <5>1
      <4> QED
        BY <4>1
    <3>2. \A t : HasBefore(e, n + 1, t)' => HasBefore(e, p + 1, t)'
      <4> TAKE t
      <4> HAVE HasBefore(e, n + 1, t)'
      <4> SUFFICES ASSUME NEW k \in 0 .. p, LastSet(e, k, p + 1)' PROVE Given(e, k)' = t
        BY <2>2 DEF HasBefore
      <4>1. k \in 0 .. n
        <5>1. k = 0 \/ Sets(queue'[k], e)
          BY DEF LastSet, Sets
        <5> QED
          BY <2>2, <2>5, <5>1
      <4>2. LastSet(e, k, n + 1)'
        BY <2>2, <4>1 DEF LastSet
      <4>3. k \in 0 .. (n + 1) - 1
        BY ONLY <2>2, <4>1
      <4> QED
        BY <4>2, <4>3 DEF HasBefore
    <3>3. /\ HasBefore(e, n + 1, buffer[e]) => HasBefore(e, p + 1, b)'
          /\ HasBefore(e, n + 1, NoText) => HasBefore(e, p + 1, NoText)'
      BY <2>1, <2>3, <3>1, <3>2
    <3>4. b = buffer'[e] /\ p = Len(queue') /\ n = Len(queue)
      BY <2>1
    <3> QED
      BY ONLY <3>3, <3>4, status' = status,
           \/ HasBefore(e, Len(queue) + 1, buffer[e])
           \/ status # "up" /\ HasBefore(e, Len(queue) + 1, NoText)
  <2> QED
    BY <2>4, <2>5
<1> QED
  BY <1>2, <1>3

\* The editor's sends keep the requests under way in step with the texts.
LEMMA AskedSends ==
    ASSUME SessionTypes, Asked, NEW ms, Sends(ms), \A i \in 1 .. Len(ms) : ms[i].kind \notin {"ask", "complete"}
    PROVE  Asked'
<1>1. /\ queue \in Seq(Messages) /\ ms \in Seq(Messages) /\ documents' = documents
      /\ queue' = queue \/ queue' = queue \o ms
  BY DEF Sends, SessionTypes
<1>2. CASE queue' = queue
  <2>1. PICK n : n = Len(queue)
    OBVIOUS
  <2>2. n \in Nat
    BY <1>1, <2>1
  <2> SUFFICES ASSUME NEW j \in 1 .. n, queue[j].kind \in {"ask", "complete"}
               PROVE  Answerable(queue[j], j)'
    BY <1>2, <2>1 DEF Asked
  <2>3. PICK m : m = queue[j]
    OBVIOUS
  <2>4. Answerable(m, j)
    BY <2>1, <2>3 DEF Asked
  <2>5. j \in Nat \ {0}
    BY <2>2
  <2>6. Answerable(m, j)'
    BY <1>1, <1>2, <2>4, <2>5, AnswerableKept
  <2> QED
    BY <1>2, <2>3, <2>6
<1>3. CASE queue' = queue \o ms
  <2>1. PICK n, p : n = Len(queue) /\ p = Len(queue')
    OBVIOUS
  <2>2. /\ n \in Nat /\ Len(ms) \in Nat /\ p = n + Len(ms)
        /\ \A i \in 1 .. n : queue'[i] = queue[i]
        /\ \A i \in n + 1 .. p : i - n \in 1 .. Len(ms) /\ queue'[i] = ms[i - n]
    BY <1>1, <1>3, <2>1, Appended
  <2> SUFFICES ASSUME NEW j \in 1 .. p, queue'[j].kind \in {"ask", "complete"}
               PROVE  Answerable(queue[j], j)'
    BY <2>1 DEF Asked
  <2>3. j \in 1 .. n
    <3>1. ASSUME j \in n + 1 .. p
          PROVE  FALSE
      <4>1. j - n \in 1 .. Len(ms) /\ queue'[j] = ms[j - n]
        BY <2>2, <3>1
      <4> QED
        BY <4>1
    <3>2. j \in 1 .. n \/ j \in n + 1 .. p
      BY <2>2
    <3> QED
      BY <3>1, <3>2
  <2>4. PICK m : m = queue[j]
    OBVIOUS
  <2>5. Answerable(m, j) /\ queue'[j] = queue[j]
    BY <2>1, <2>2, <2>3, <2>4 DEF Asked
  <2>6. j \in Nat \ {0} /\ 1 .. j - 1 \subseteq 1 .. n
    BY ONLY <2>2, <2>3
  <2>7. Answerable(m, j)'
    BY <1>1, <2>2, <2>5, <2>6, AnswerableKept
  <2> QED
    BY <2>4, <2>5, <2>7
<1> QED
  BY <1>1, <1>2, <1>3

\* A question is put when the server will have the text.
LEMMA AskedAsks ==
    ASSUME ToolConstants, SessionTypes, Synced, Asked, NEW d \in Documents,
           NEW kind \in {"ask", "complete"}, S!Ask(d, kind)
    PROVE  Asked'
<1>1. status # "down" /\ buffer[d] # NoText
  BY AskSends
<1> PICK n, b : n = Len(queue) /\ b = buffer[d]
  OBVIOUS
<1>2. queue \in Seq(Messages) /\ n \in Nat /\ (HasBefore(d, n + 1, b) \/ HasBefore(d, n + 1, NoText))
  BY <1>1 DEF Synced, SessionTypes
<1>3. ASSUME documents' = documents, \A i \in 1 .. n : queue'[i] = queue[i]
      PROVE  /\ HasBefore(d, n + 1, b)' \/ HasBefore(d, n + 1, NoText)'
             /\ \A j \in 1 .. n : queue'[j].kind \in {"ask", "complete"} =>
                    Answerable(queue[j], j)'
  <2>1. HasBefore(d, n + 1, b)' \/ HasBefore(d, n + 1, NoText)'
    <3>1. n + 1 \in Nat \ {0} /\ 1 .. (n + 1) - 1 = 1 .. n
      BY ONLY <1>2
    <3> QED
      BY <1>2, <1>3, <3>1, HasKept
  <2>2. ASSUME NEW j \in 1 .. n, queue'[j].kind \in {"ask", "complete"}
        PROVE  Answerable(queue[j], j)'
    <3>1. PICK m : m = queue[j]
      OBVIOUS
    <3>2. Answerable(m, j) /\ queue'[j] = queue[j]
      BY <1>3, <2>2, <3>1 DEF Asked
    <3>3. j \in Nat \ {0} /\ 1 .. j - 1 \subseteq 1 .. n
      BY ONLY <1>2, <2>2
    <3>4. Answerable(m, j)'
      BY <1>3, <3>2, <3>3, AnswerableKept
    <3> QED
      BY <3>1, <3>2, <3>4
  <2> QED
    BY <2>1, <2>2
<1>4. CASE Sends(<<S!Message("ask", d, buffer[d])>>)
  <2> PICK m : m = S!Message("ask", d, buffer[d])
    OBVIOUS
  <2>1. m.kind = "ask" /\ m.doc = d /\ m.text = b
    BY DEF S!Message
  <2>2. documents' = documents /\ queue' = queue \o <<m>> /\ m \in Messages
    BY <1>1, <1>4 DEF Sends
  <2>3. /\ Len(queue') = n + 1 /\ queue'[n + 1] = m
        /\ \A i \in 1 .. n : queue'[i] = queue[i]
    BY <1>2, <2>2
  <2>4. Answerable(queue[n + 1], n + 1)'
    BY <1>3, <2>1, <2>2, <2>3 DEF Answerable
  <2>5. \A j \in 1 .. n + 1 : j \in 1 .. n \/ j = n + 1
    BY ONLY <1>2
  <2> QED
    BY <1>3, <2>2, <2>3, <2>4, <2>5 DEF Asked
<1>5. CASE Sends(<<S!Message("sync", d, buffer[d]), S!Message("complete", d, buffer[d])>>)
  <2> PICK m, c : m = S!Message("sync", d, buffer[d]) /\ c = S!Message("complete", d, buffer[d])
    OBVIOUS
  <2>1. m.kind = "sync" /\ m.doc = d /\ m.text = b /\ c.kind = "complete" /\ c.doc = d /\ c.text = b
    BY DEF S!Message
  <2>2. documents' = documents /\ queue' = queue \o <<m, c>> /\ m \in Messages /\ c \in Messages
    BY <1>1, <1>5 DEF Sends
  <2>3. /\ Len(queue') = n + 2 /\ queue'[n + 1] = m /\ queue'[n + 2] = c
        /\ \A i \in 1 .. n : queue'[i] = queue[i]
    BY <1>2, <2>2
  <2>4. HasBefore(d, n + 2, b)'
    <3> SUFFICES ASSUME NEW k \in 0 .. n + 1, LastSet(d, k, n + 2)' PROVE Given(d, k)' = b
      BY <1>2 DEF HasBefore
    <3>1. Sets(queue'[n + 1], d) /\ Given(d, n + 1)' = b
      BY <1>2, <2>1, <2>3 DEF Sets, Given
    <3>2. ~(n + 1 \in k + 1 .. (n + 2) - 1)
      BY <3>1 DEF LastSet, Sets
    <3>3. k = n + 1
      BY ONLY <1>2, <3>2, k \in 0 .. n + 1
    <3> QED
      BY <3>1, <3>3
  <2>5. Answerable(queue[n + 2], n + 2)'
    BY <2>1, <2>3, <2>4 DEF Answerable
  <2>6. \A j \in 1 .. n + 2 : j \in 1 .. n \/ j = n + 1 \/ j = n + 2
    BY ONLY <1>2
  <2>7. queue'[n + 1].kind \notin {"ask", "complete"}
    BY <2>1, <2>3
  <2> QED
    BY <1>3, <2>2, <2>3, <2>5, <2>6, <2>7 DEF Asked
<1> QED
  BY <1>4, <1>5, AskSends

\* So do the server's steps.
LEMMA AskedServe == ASSUME ToolConstants, SessionTypes, Synced, Asked, S!Serve PROVE Synced' /\ Asked'
<1> PICK m : m = Head(queue)
  OBVIOUS
<1>1. Treats(m) /\ UNCHANGED <<buffer, status>>
  BY ServeHandles DEF Treats
<1> PICK n : n = Len(queue')
  OBVIOUS
<1>2. /\ n \in Nat /\ Len(queue) = n + 1 /\ queue \in Seq(Messages)
      /\ \A i \in 1 .. n : queue'[i] = queue[i + 1]
  <2>1. queue \in Seq(Messages) /\ queue # << >> /\ queue' = Tail(queue)
    BY <1>1 DEF Treats, SessionTypes
  <2> QED
    BY ONLY <2>1, n = Len(queue'), Shifted
<1>3. ASSUME NEW e \in Documents
      PROVE  \/ HasBefore(e, Len(queue) + 1, buffer[e])'
             \/ status' # "up" /\ HasBefore(e, Len(queue) + 1, NoText)'
  <2>1. \A t : HasBefore(e, (n + 1) + 1, t) => HasBefore(e, n + 1, t)'
    <3>1. n + 1 \in 1 .. Len(queue') + 1
      BY ONLY <1>2, n = Len(queue')
    <3> QED
      BY <1>1, <3>1, HasHandled
  <2>2. PICK b : b = buffer[e]
    OBVIOUS
  <2>3. \/ HasBefore(e, (n + 1) + 1, b)
        \/ status # "up" /\ HasBefore(e, (n + 1) + 1, NoText)
    BY <1>2, <2>2 DEF Synced
  <2>4. \/ HasBefore(e, n + 1, b)'
        \/ status' # "up" /\ HasBefore(e, n + 1, NoText)'
    BY <1>1, <2>1, <2>3
  <2> QED
    BY <1>1, <2>2, <2>4
<1>4. ASSUME NEW j \in 1 .. n, queue'[j].kind \in {"ask", "complete"}
      PROVE  Answerable(queue[j], j)'
  <2>1. PICK q : q = queue'[j]
    OBVIOUS
  <2>2. j + 1 \in 1 .. Len(queue) /\ queue'[j] = queue[j + 1] /\ j \in 1 .. Len(queue') + 1
    BY <1>2
  <2>3. q.doc \in Documents
    <3>1. queue[j + 1] \in Messages
      BY ONLY <1>2, <2>2
    <3> QED
      BY <2>1, <2>2, <3>1 DEF Messages
  <2>4. Answerable(q, j + 1)
    BY <1>4, <2>1, <2>2 DEF Asked
  <2>5. \A t : HasBefore(q.doc, j + 1, t) => HasBefore(q.doc, j, t)'
    BY <1>1, <2>2, <2>3, HasHandled
  <2>6. Answerable(q, j)'
    BY <2>4, <2>5 DEF Answerable
  <2> QED
    BY <2>1, <2>6
<1> QED
  BY <1>3, <1>4 DEF Synced, Asked

\* After a restart the server will be told every open tab.
LEMMA ReopenedSynced ==
    ASSUME SessionTypes, NEW e \in Documents, NEW ms, Reopened(ms), queue' = queue \o ms,
           UNCHANGED <<buffer, documents>>,
           \/ HasBefore(e, Len(queue) + 1, buffer[e])
           \/ status # "up" /\ HasBefore(e, Len(queue) + 1, NoText)
    PROVE  HasBefore(e, Len(queue) + 1, buffer[e])'
<1>1. PICK n, p, b : n = Len(queue) /\ p = Len(queue') /\ b = buffer[e]
  OBVIOUS
<1>2. /\ n \in Nat /\ Len(ms) \in Nat /\ p = n + Len(ms)
      /\ \A i \in 1 .. n : queue'[i] = queue[i]
      /\ \A i \in n + 1 .. p : i - n \in 1 .. Len(ms) /\ queue'[i] = ms[i - n]
  <2>1. queue \in Seq(Messages) /\ ms \in Seq(Messages)
    BY DEF SessionTypes, Reopened
  <2> QED
    BY <1>1, <2>1, Appended
<1>3. \A i \in n + 1 .. p : /\ queue'[i].kind = "open" /\ queue'[i].text = buffer[queue'[i].doc]
                            /\ buffer[queue'[i].doc] # NoText
  <2>1. \A i \in 1 .. Len(ms) : ms[i].kind = "open" /\ ms[i].doc \in S!Open(buffer)
                                 /\ ms[i].text = buffer[ms[i].doc]
    BY DEF Reopened
  <2> QED
    BY ONLY <1>2, <2>1 DEF S!Open
<1> SUFFICES ASSUME NEW k \in 0 .. p, LastSet(e, k, p + 1)' PROVE Given(e, k)' = b
  <2>1. HasBefore(e, p + 1, b)'
    BY <1>2 DEF HasBefore
  <2> QED
    BY <1>1, <2>1
<1>k. k \in 0 .. p /\ LastSet(e, k, p + 1)' /\ UNCHANGED documents
  OBVIOUS
<1>4. CASE k \in n + 1 .. p
  <2>1. Sets(queue'[k], e) /\ k # 0
    BY ONLY <1>2, <1>4, <1>k DEF LastSet, Sets
  <2> QED
    BY <1>1, <1>3, <1>4, <2>1 DEF Given, Sets
<1>5. CASE k \in 0 .. n
  <2>1. LastSet(e, k, n + 1)
    <3>1. k = 0 \/ Sets(queue[k], e)
      BY ONLY <1>2, <1>5, <1>k DEF LastSet, Sets
    <3>2. \A l \in k + 1 .. n : ~Sets(queue[l], e)
      BY ONLY <1>2, <1>5, <1>k DEF LastSet, Sets
    <3>3. (n + 1) - 1 = n
      BY ONLY <1>2
    <3> QED
      BY <3>1, <3>2, <3>3 DEF LastSet
  <2>2. Given(e, k)' = Given(e, k)
    BY ONLY <1>2, <1>5, <1>k DEF Given
  <2>3. buffer[e] = NoText
    <3> SUFFICES ASSUME buffer[e] # NoText PROVE FALSE
      OBVIOUS
    <3>1. PICK i \in 1 .. Len(ms) : ms[i].doc = e
      BY DEF Reopened, S!Open
    <3>2. n + i \in n + 1 .. p /\ (n + i) - n = i /\ n + i \in k + 1 .. (p + 1) - 1
      BY ONLY <1>2, <1>5, <3>1
    <3>3. Sets(queue'[n + i], e)
      BY <1>2, <1>3, <3>1, <3>2 DEF Sets
    <3> QED
      BY <3>2, <3>3 DEF LastSet, Sets
  <2>4. k \in 0 .. (n + 1) - 1
    BY ONLY <1>2, <1>5
  <2>5. Given(e, k) = b
    BY <1>1, <2>1, <2>3, <2>4 DEF HasBefore
  <2> QED
    BY <2>2, <2>5
<1> QED
  BY <1>2, <1>4, <1>5

\* So does every step.
LEMMA AskedStep ==
    ASSUME ToolConstants, SessionTypes, Synced, Asked, [S!Next]_session
    PROVE  Synced' /\ Asked'
<1> DEFINE Good(e) == \/ HasBefore(e, Len(queue) + 1, buffer[e])
                      \/ status # "up" /\ HasBefore(e, Len(queue) + 1, NoText)
<1>0. \A e \in Documents : Good(e)
  BY DEF Synced
<1>t. timer \in [Documents -> {"no", "set"}] /\ buffer \in Worlds
  BY DEF SessionTypes
<1>1. ASSUME NEW ms, Sends(ms), status' = status,
             \A e \in Documents :
                 \/ buffer'[e] = buffer[e] /\ \A i \in 1 .. Len(ms) : Sets(ms[i], e) =>
                        ms[i].kind # "close" /\ ms[i].text = buffer[e]
                 \/ /\ Len(ms) = 1 /\ Sets(ms[1], e)
                    /\ buffer'[e] = IF ms[1].kind = "close" THEN NoText ELSE ms[1].text
      PROVE  Synced'
  BY <1>0, <1>1, SyncedSends DEF Synced
<1>2. ASSUME NEW d \in Documents, NEW m, Sends(<<m>>), status' = status, m.doc = d,
             m.kind \in {"open", "change", "sync", "close"},
             buffer'[d] = IF m.kind = "close" THEN NoText ELSE m.text,
             \A e \in Documents : e # d => buffer'[e] = buffer[e]
      PROVE  Synced' /\ Asked'
  <2>1. Len(<<m>>) = 1 /\ <<m>>[1] = m /\ \A i \in 1 .. 1 : <<m>>[i] = m
    OBVIOUS
  <2>2. Synced'
    BY <1>1, <1>2, <2>1 DEF Sets
  <2>3. Asked'
    BY <1>2, <2>1, AskedSends
  <2> QED
    BY <2>2, <2>3
<1>3. ASSUME NEW kind, NEW d, NEW text
      PROVE  LET m == S!Message(kind, d, text) IN m.kind = kind /\ m.doc = d /\ m.text = text
  BY DEF S!Message
<1>4. ASSUME NEW d \in Documents, S!OpenTab(d) PROVE Synced' /\ Asked'
  <2> PICK m : m = S!Message("open", d, file[d])
    OBVIOUS
  <2>1. Sends(<<m>>) /\ status' = status /\ buffer' = [buffer EXCEPT ![d] = file[d]]
    BY <1>4, OpenTabSends
  <2>2. m.kind = "open" /\ m.doc = d /\ m.text = file[d]
    BY <1>3
  <2>3. buffer'[d] = m.text /\ \A e \in Documents : e # d => buffer'[e] = buffer[e]
    BY <1>t, <2>1, <2>2 DEF Worlds
  <2> QED
    BY <1>2, <2>1, <2>2, <2>3
<1>5. ASSUME NEW d \in Documents, NEW text \in Texts, S!Create(d, text) PROVE Synced' /\ Asked'
  <2> PICK m : m = S!Message("open", d, text)
    OBVIOUS
  <2>1. Sends(<<m>>) /\ status' = status /\ buffer' = [buffer EXCEPT ![d] = text]
    BY <1>5, CreateSends
  <2>2. m.kind = "open" /\ m.doc = d /\ m.text = text
    BY <1>3
  <2>3. buffer'[d] = m.text /\ \A e \in Documents : e # d => buffer'[e] = buffer[e]
    BY <1>t, <2>1, <2>2 DEF Worlds
  <2> QED
    BY <1>2, <2>1, <2>2, <2>3
<1>6. ASSUME NEW d \in Documents, NEW text \in Texts, S!Edit(d, text) PROVE Synced' /\ Asked'
  <2> PICK m : m = S!Message("sync", d, text)
    OBVIOUS
  <2>1. Sends(<<m>>) /\ status' = status /\ buffer' = [buffer EXCEPT ![d] = text]
    BY <1>6, EditSends
  <2>2. m.kind = "sync" /\ m.doc = d /\ m.text = text
    BY <1>3
  <2>3. buffer'[d] = m.text /\ \A e \in Documents : e # d => buffer'[e] = buffer[e]
    BY <1>t, <2>1, <2>2 DEF Worlds
  <2> QED
    BY <1>2, <2>1, <2>2, <2>3
<1>7. ASSUME NEW d \in Documents, S!TimerFires(d) PROVE Synced' /\ Asked'
  <2> PICK m : m = S!Message("change", d, buffer[d])
    OBVIOUS
  <2>1. Sends(<<m>>) /\ UNCHANGED <<buffer, status>>
    BY <1>7, TimerFiresSends
  <2>2. m.kind = "change" /\ m.doc = d /\ m.text = buffer[d]
    BY <1>3
  <2> QED
    BY <1>2, <2>1, <2>2
<1>8. ASSUME NEW d \in Documents, S!Save(d) PROVE Synced' /\ Asked'
  <2>1. PICK ms : Sends(ms) /\ \A i \in 1 .. Len(ms) : ms[i].kind = "watched"
    BY <1>8, SaveSends
  <2>2. UNCHANGED <<buffer, status>>
    BY <1>8, SaveSends
  <2>3. Synced'
    BY <1>1, <2>1, <2>2 DEF Sets
  <2>4. Asked'
    BY <2>1, AskedSends
  <2> QED
    BY <2>3, <2>4
<1>9. ASSUME NEW d \in Documents, S!CloseTab(d) PROVE Synced' /\ Asked'
  <2> PICK m : m = S!Message("close", d, NoText)
    OBVIOUS
  <2>1. Sends(<<m>>) /\ status' = status /\ buffer' = [buffer EXCEPT ![d] = NoText]
    BY <1>9, CloseTabSends
  <2>2. m.kind = "close" /\ m.doc = d
    BY <1>3
  <2>3. buffer'[d] = NoText /\ \A e \in Documents : e # d => buffer'[e] = buffer[e]
    BY <1>t, <2>1, <2>2 DEF Worlds
  <2> QED
    BY <1>2, <2>1, <2>2, <2>3
<1>10. ASSUME NEW d \in Documents, NEW kind \in {"ask", "complete"}, S!Ask(d, kind)
       PROVE  Synced' /\ Asked'
  <2>1. UNCHANGED <<buffer, status>>
    BY <1>10, AskSends
  <2>2. CASE Sends(<<S!Message("ask", d, buffer[d])>>)
    <3> PICK m : m = S!Message("ask", d, buffer[d])
      OBVIOUS
    <3>1. m.kind = "ask" /\ \A i \in 1 .. Len(<<m>>) : <<m>>[i] = m
      BY <1>3
    <3> QED
      BY <1>1, <1>10, <2>1, <2>2, <3>1, AskedAsks DEF Sets
  <2>3. CASE Sends(<<S!Message("sync", d, buffer[d]), S!Message("complete", d, buffer[d])>>)
    <3> PICK m, c : m = S!Message("sync", d, buffer[d]) /\ c = S!Message("complete", d, buffer[d])
      OBVIOUS
    <3>1. /\ m.kind = "sync" /\ m.doc = d /\ m.text = buffer[d] /\ c.kind = "complete"
          /\ \A i \in 1 .. Len(<<m, c>>) : <<m, c>>[i] = m \/ <<m, c>>[i] = c
      BY <1>3
    <3>2. \A e \in Documents : \A i \in 1 .. Len(<<m, c>>) : Sets(<<m, c>>[i], e) =>
              <<m, c>>[i].kind # "close" /\ <<m, c>>[i].text = buffer[e]
      BY <3>1 DEF Sets
    <3>3. Synced'
      BY <1>1, <2>1, <2>3, <3>2
    <3> QED
      BY <1>10, <3>3, AskedAsks
  <2> QED
    BY <1>10, <2>2, <2>3, AskSends
<1>11. CASE S!Crash
  <2>1. queue' = << >> /\ status' # "up" /\ \A e \in Documents : documents'[e] = NoText
    BY <1>11 DEF S!Crash
  <2> QED
    BY <2>1 DEF Synced, Asked, HasBefore, Given
<1>12. CASE UNCHANGED session \/ S!Start
  <2>1. UNCHANGED <<buffer, queue, documents>> /\ (status' = status \/ status' # "up")
    BY <1>12 DEF session, S!Start, S!editor, S!server
  <2>2. \A e, j, t : HasBefore(e, j, t) => HasBefore(e, j, t)'
    BY <2>1 DEF HasBefore, LastSet, Sets, Given
  <2>3. PICK n, b, q : n = Len(queue) /\ b = buffer /\ q = queue
    OBVIOUS
  <2>4. /\ n = Len(queue') /\ b = buffer' /\ q = queue'
        /\ \A e \in Documents : \/ HasBefore(e, n + 1, b[e])'
                                \/ status' # "up" /\ HasBefore(e, n + 1, NoText)'
        /\ \A j \in 1 .. n : q[j].kind \in {"ask", "complete"} => Answerable(q[j], j)'
    <3>1. /\ n = Len(queue') /\ b = buffer' /\ q = queue'
      BY <2>1, <2>3
    <3>2. /\ \A e \in Documents : \/ HasBefore(e, n + 1, b[e])
                                  \/ status # "up" /\ HasBefore(e, n + 1, NoText)
          /\ \A j \in 1 .. n : q[j].kind \in {"ask", "complete"} => Answerable(q[j], j)
      BY <2>3 DEF Synced, Asked
    <3>3. status # "up" => status' # "up"
      BY <1>12, <2>1 DEF S!Start, session
    <3> QED
      BY <2>2, <3>1, <3>2, <3>3 DEF Answerable
  <2> QED
    BY <2>4 DEF Synced, Asked
<1>13. CASE S!Ready
  <2>1. PICK ms : Reopened(ms) /\ queue' = queue \o ms
    BY <1>13, ReadySends
  <2>2. /\ ms \in Seq(Messages) /\ UNCHANGED <<buffer, documents, analyses, dependencies, shown>>
        /\ status # "down" /\ status' = "up"
    BY <1>13, <2>1 DEF Reopened, S!Ready, S!editor, S!server
  <2>3. Sends(ms)
    BY <2>1, <2>2 DEF Sends
  <2>4. Asked'
    BY <2>1, <2>3, AskedSends DEF Reopened
  <2>5. ASSUME NEW e \in Documents PROVE HasBefore(e, Len(queue) + 1, buffer[e])'
    BY <1>0, <2>1, <2>2, <2>5, ReopenedSynced
  <2> QED
    BY <2>4, <2>5 DEF Synced
<1>14. CASE S!Serve
  BY <1>14, AskedServe
<1> QED
  BY <1>4, <1>5, <1>6, <1>7, <1>8, <1>9, <1>10, <1>11, <1>12, <1>13, <1>14
  DEF S!Next, session, S!vars, S!editor, S!server

\* Questions are about open tabs.
Texted == \A j \in 1 .. Len(queue) : queue[j].kind \in {"ask", "complete"} => queue[j].text # NoText

\* Every step keeps the texts of completions.
LEMMA TextedStep ==
    ASSUME ToolConstants, SessionTypes, Texted, [S!Next]_session
    PROVE  Texted'
<1>1. ASSUME NEW ms, Sends(ms),
             \A i \in 1 .. Len(ms) : ms[i].kind \in {"ask", "complete"} => ms[i].text # NoText
      PROVE  Texted'
  <2>1. /\ queue \in Seq(Messages) /\ ms \in Seq(Messages)
        /\ queue' = queue \/ queue' = queue \o ms
    BY <1>1 DEF Sends, SessionTypes
  <2>2. CASE queue' = queue \o ms
    <3>1. /\ Len(queue) \in Nat
          /\ \A i \in 1 .. Len(queue) : queue'[i] = queue[i]
          /\ \A i \in Len(queue) + 1 .. Len(queue') :
                 i - Len(queue) \in 1 .. Len(ms) /\ queue'[i] = ms[i - Len(queue)]
      BY <2>1, <2>2, Appended
    <3> QED
      BY ONLY Z3, <1>1, <3>1, Texted DEF Texted
  <2> QED
    BY <2>1, <2>2 DEF Texted
<1>2. ASSUME NEW m, Sends(<<m>>), m.kind \notin {"ask", "complete"} \/ m.text # NoText PROVE Texted'
  BY <1>1, <1>2
<1>3. ASSUME NEW kind, NEW d, NEW text
      PROVE  LET m == S!Message(kind, d, text) IN m.kind = kind /\ m.doc = d /\ m.text = text
  BY DEF S!Message
<1>4. ASSUME NEW kind \in {"open", "change", "sync", "close"}, NEW d, NEW text,
             Sends(<<S!Message(kind, d, text)>>)
      PROVE  Texted'
  BY <1>2, <1>3, <1>4
<1>5. ASSUME NEW d \in Documents,
             \/ S!OpenTab(d) \/ S!TimerFires(d) \/ S!CloseTab(d)
             \/ \E text \in Texts : S!Edit(d, text) \/ S!Create(d, text)
      PROVE  Texted'
  BY <1>4, <1>5, OpenTabSends, TimerFiresSends, CloseTabSends, EditSends, CreateSends
<1>6. ASSUME NEW d \in Documents, S!Save(d) PROVE Texted'
  BY <1>1, <1>6, SaveSends
<1>7. ASSUME NEW d \in Documents, NEW kind \in {"ask", "complete"}, S!Ask(d, kind) PROVE Texted'
  <2>1. buffer[d] # NoText
    BY <1>7, AskSends
  <2>2. CASE Sends(<<S!Message("ask", d, buffer[d])>>)
    BY <1>2, <1>3, <2>1, <2>2
  <2>3. CASE Sends(<<S!Message("sync", d, buffer[d]), S!Message("complete", d, buffer[d])>>)
    <3> PICK m, c : m = S!Message("sync", d, buffer[d]) /\ c = S!Message("complete", d, buffer[d])
      OBVIOUS
    <3>1. m.text # NoText /\ c.text # NoText
      BY <1>3, <2>1
    <3>2. \A i \in 1 .. Len(<<m, c>>) : <<m, c>>[i] = m \/ <<m, c>>[i] = c
      OBVIOUS
    <3> QED
      BY <1>1, <2>3, <3>1, <3>2
  <2> QED
    BY <1>7, <2>2, <2>3, AskSends
<1>8. CASE S!Crash
  BY <1>8 DEF S!Crash, Texted
<1>9. CASE UNCHANGED session \/ S!Start
  BY <1>9 DEF session, S!Start, Texted
<1>10. CASE S!Ready
  <2>1. PICK ms : Reopened(ms) /\ queue' = queue \o ms
    BY <1>10, ReadySends
  <2>2. Sends(ms)
    BY <1>10, <2>1 DEF Sends, Reopened, S!Ready, S!server
  <2> QED
    BY <1>1, <2>1, <2>2 DEF Reopened
<1>11. CASE S!Serve
  <2>1. queue \in Seq(Messages) /\ queue # << >> /\ queue' = Tail(queue)
    BY <1>11, ServeHandles DEF Treats, SessionTypes
  <2>2. /\ Len(queue') \in Nat /\ Len(queue) = Len(queue') + 1
        /\ \A i \in 1 .. Len(queue') : queue'[i] = queue[i + 1]
    BY ONLY <2>1, Shifted
  <2> QED
    BY ONLY <2>2, Texted DEF Texted
<1> QED
  BY <1>5, <1>6, <1>7, <1>8, <1>9, <1>10, <1>11 DEF S!Next, session, S!vars, S!editor, S!server

\* An answer comes from an analysis of the text that the editor held when it asked, or
\* from that text; only a server that is not told the document has none.
THEOREM AnswersAreOfTheText == ASSUME ToolConstants PROVE S!Spec => AnswersDescribeTheText
<1> DEFINE AskInv == SessionInv /\ Synced /\ Asked /\ Texted
           IsOf(kind, d, text) ==
               \/ analyses'[d].text = text
               \/ kind = "complete" /\ documents[d] = text
               \/ kind = "ask" /\ documents[d] = NoText
           Describes == \A kind \in {"ask", "complete"} :
               S!Receives(kind) => IsOf(kind, Head(queue).doc, Head(queue).text)
<1>1. ASSUME S!Init PROVE AskInv
  <2>1. SessionInv
    BY <1>1, SessionInit
  <2>2. queue = << >> /\ buffer = [d \in Documents |-> NoText] /\ documents = [d \in Documents |-> NoText]
    BY <1>1 DEF S!Init
  <2>3. Synced /\ Asked /\ Texted
    BY <2>2 DEF Synced, Asked, Texted, HasBefore, Given
  <2> QED
    BY <2>1, <2>3
<1>2. ASSUME AskInv, [S!Next]_(S!vars) PROVE AskInv'
  <2>1. [S!Next]_session /\ SessionTypes
    BY <1>2 DEF session, S!vars, S!editor, S!server, SessionInv
  <2> QED
    BY <1>2, <2>1, TypesStep, KnowingStep, ShownStep, AskedStep, TextedStep DEF SessionInv
<1>3. ASSUME AskInv, [S!Next]_(S!vars) PROVE Describes
  <2> SUFFICES ASSUME NEW kind \in {"ask", "complete"}, S!Receives(kind)
               PROVE  IsOf(kind, Head(queue).doc, Head(queue).text)
    OBVIOUS
  <2>0. SessionTypes /\ Asked /\ Texted
    BY <1>3 DEF SessionInv
  <2>1. /\ queue # << >> /\ queue' = Tail(queue) /\ Head(queue).kind = kind /\ status # "down"
        /\ status' = status
    BY DEF S!Receives
  <2>2. queue \in Seq(Messages)
    BY <2>0 DEF SessionTypes
  <2>3. Len(queue') < Len(queue) /\ Head(queue) = queue[1] /\ Len(queue) \in Nat /\ 1 \in 1 .. Len(queue)
        /\ Head(queue) \in Messages
    BY ONLY <2>1, <2>2
  <2>4. ASSUME NEW ms, Sends(ms) PROVE FALSE
    <3>1. ms \in Seq(Messages) /\ queue' = queue \o ms
      BY <2>1, <2>4 DEF Sends
    <3> QED
      BY ONLY <2>2, <2>3, <3>1
  <2>5. CASE S!Serve
    <3> PICK d, t : d = Head(queue).doc /\ t = Head(queue).text
      OBVIOUS
    <3>1. /\ documents[d] = t \/ (kind = "ask" /\ documents[d] = NoText)
          /\ d \in Documents /\ t # NoText
      <4>1. Answerable(queue[1], 1)
        BY <2>0, <2>1, <2>3 DEF Asked
      <4>2. HasBefore(d, 1, t) \/ (kind = "ask" /\ HasBefore(d, 1, NoText))
        BY <2>1, <2>3, <4>1 DEF Answerable
      <4>3. LastSet(d, 0, 1)
        BY DEF LastSet
      <4>4. Given(d, 0) = t \/ (kind = "ask" /\ Given(d, 0) = NoText)
        BY <4>2, <4>3 DEF HasBefore
      <4>5. t # NoText
        BY <2>0, <2>1, <2>3 DEF Texted
      <4> QED
        BY <2>3, <4>4, <4>5 DEF Given, Messages
    <3>2. \A k : S!Receives(k) => k = kind
      BY <2>1 DEF S!Receives
    <3>3. S!Answer \/ S!AnswerCompletion
      BY <2>5, <3>2
      DEF S!Serve, S!DidChange, S!DidSync, S!DidClose, S!DidChangeWatchedFiles
    <3>4. ASSUME S!Analysed(documents, {d}), documents[d] = t PROVE analyses'[d].text = t
      BY <3>1, <3>4 DEF S!Analysed, S!Analysis
    <3>5. CASE S!Answer
      <4>1. \/ documents[d] = NoText
            \/ analyses' = analyses /\ S!Fresh(d)
            \/ S!Analysed(documents, {d})
        BY <3>1, <3>5 DEF S!Answer, S!server
      <4>2. kind = "ask"
        BY <3>2, <3>5 DEF S!Answer
      <4> QED
        BY <3>1, <3>4, <4>1, <4>2 DEF S!Fresh
    <3>6. CASE S!AnswerCompletion
      <4>1. kind = "complete"
        BY <3>2, <3>6 DEF S!AnswerCompletion
      <4> QED
        BY <3>1, <4>1
    <3> QED
      BY <3>3, <3>5, <3>6
  <2>6. ~UNCHANGED S!vars
    BY <2>3 DEF S!vars
  <2>7. ~S!Crash /\ ~S!Start /\ ~S!Ready
    BY <2>1 DEF S!Crash, S!Start, S!Ready
  <2>8. ~(\E d \in Documents : \/ S!OpenTab(d) \/ S!TimerFires(d) \/ S!Save(d) \/ S!CloseTab(d)
                               \/ \E k \in {"ask", "complete"} : S!Ask(d, k)
                               \/ \E text \in Texts : S!Edit(d, text) \/ S!Create(d, text))
    BY <2>0, <2>4, OpenTabSends, TimerFiresSends, SaveSends, CloseTabSends, AskSends, EditSends, CreateSends
  <2> QED
    BY <1>3, <2>5, <2>6, <2>7, <2>8 DEF S!Next
<1>4. ASSUME AskInv, [S!Next]_(S!vars) PROVE [Describes]_(S!vars)
  BY <1>3, <1>4
<1> HIDE DEF AskInv
<1>5. AnswersDescribeTheText <=> [][Describes]_(S!vars)
  BY DEF AnswersDescribeTheText, S!AnswersDescribeTheText
<1> HIDE DEF Describes
<1> QED
  BY <1>1, <1>2, <1>4, <1>5, PTL DEF S!Spec
-------------------------------------------------------------------------------
\* How many members are whole
LEMMA HaveRange == ASSUME ToolConstants, L!TypeOK PROVE L!Have \in 0 .. MemberCount
BY DEF ToolConstants, L!LibraryAssumption, L!TypeOK, L!Have

\* The member being filled is one of the archive's: TypeOK alone is not inductive.
FillsAMember == \A c \in Compilers : pc[c] = "fill" => next[c] <= lib[c].members
LibraryTypes == L!TypeOK /\ FillsAMember

\* At the start the types are right.
LEMMA LibraryTypeInit == ASSUME ToolConstants, L!Init PROVE LibraryTypes
<1> USE DEF ToolConstants, L!LibraryAssumption, L!Init, L!Numbers, L!Missing, L!Part, L!NoStamp
<1>1. clock \in 0 .. MaxClock /\ stamp \in L!NoStamp .. MaxClock
  OBVIOUS
<1>2. slib \in [version : 0 .. MaxPacks, written : 0 .. 2 * MemberCount, time : 0 .. MaxClock]
  OBVIOUS
<1>3. tree \in [L!Numbers -> L!Part .. MaxPacks]
  OBVIOUS
<1>4. lib \in [Compilers -> [version : 0 .. MaxPacks, members : 0 .. MemberCount]]
  BY DEF L!NoLibrary
<1>5. next \in [Compilers -> 1 .. MemberCount + 1]
  OBVIOUS
<1> QED
  BY <1>1, <1>2, <1>3, <1>4, <1>5 DEF LibraryTypes, L!TypeOK, FillsAMember

\* Removing a file keeps the types.
LEMMA RemoveOneType == ASSUME ToolConstants, L!TypeOK, L!RemoveOne
                       PROVE tree' \in [L!Numbers -> L!Part .. MaxPacks] /\ stamp' \in L!NoStamp .. MaxClock
<1> USE DEF ToolConstants, L!LibraryAssumption, L!TypeOK, L!Missing, L!Part, L!NoStamp
<1>1. CASE \E i \in L!Numbers : tree[i] # L!Missing /\ tree' = [tree EXCEPT ![i] = L!Missing]
                              /\ UNCHANGED stamp
  <2>1. L!Missing \in L!Part .. MaxPacks
    OBVIOUS
  <2> QED
    BY <1>1, <2>1
<1>2. CASE stamp' = L!NoStamp /\ UNCHANGED tree
  BY <1>2
<1> QED
  BY <1>1, <1>2 DEF L!RemoveOne

\* Every step keeps the types.
LEMMA LibraryTypeStep == ASSUME ToolConstants, LibraryTypes, [L!Next]_(L!vars) PROVE LibraryTypes'
<1> USE DEF LibraryTypes, FillsAMember, L!TypeOK, ToolConstants, L!LibraryAssumption, L!Goto, L!archive, L!cache
<1>1. CASE UNCHANGED L!vars
  BY <1>1 DEF L!vars
<1>2. CASE L!Tick
  BY <1>2 DEF L!Tick
<1>3. CASE L!PackBegins
  BY <1>3 DEF L!PackBegins
<1>4. CASE L!Flush
  <2>1. PICK n \in slib.written + 1 .. 2 * MemberCount :
            slib' = [slib EXCEPT !.written = n, !.time = clock]
    BY <1>4 DEF L!Flush
  <2>2. n \in 0 .. 2 * MemberCount
    BY <2>1
  <2> QED
    BY <1>4, <2>1, <2>2 DEF L!Flush
<1>5. CASE L!PackEnds
  BY <1>5 DEF L!PackEnds
<1>6. CASE L!Clean
  BY <1>6 DEF L!Clean
<1>7. CASE L!CleanOne
  BY <1>7, RemoveOneType DEF L!CleanOne
<1>8. CASE L!Cleaned
  BY <1>8 DEF L!Cleaned
<1>9. ASSUME NEW c \in Compilers, L!Import(c) PROVE LibraryTypes'
  BY <1>9, HaveRange DEF L!Import
<1>10. ASSUME NEW c \in Compilers, L!Check(c) PROVE LibraryTypes'
  BY <1>10 DEF L!Check
<1>11. ASSUME NEW c \in Compilers, L!Remove(c) PROVE LibraryTypes'
  BY <1>11, RemoveOneType DEF L!Remove
<1>12. ASSUME NEW c \in Compilers, L!Removed(c) PROVE LibraryTypes'
  BY <1>12 DEF L!Removed
<1>13. ASSUME NEW c \in Compilers, L!Open(c) PROVE LibraryTypes'
  BY SMTT(30), <1>13 DEF L!Open, L!Numbers, L!Part
<1>14. ASSUME NEW c \in Compilers, L!Fill(c) PROVE LibraryTypes'
  <2>1. lib[c] \in [version : 0 .. MaxPacks, members : 0 .. MemberCount] /\ next[c] \in 1 .. MemberCount
    BY <1>14 DEF L!Fill
  <2>2. tree' \in [L!Numbers -> L!Part .. MaxPacks]
    <3>1. lib[c].version \in L!Part .. MaxPacks
      BY <2>1 DEF L!Part
    <3> QED
      BY <1>14, <3>1 DEF L!Fill
  <2>3. next' \in [Compilers -> 1 .. MemberCount + 1]
    BY <1>14, <2>1 DEF L!Fill
  <2> QED
    BY <1>14, <2>2, <2>3 DEF L!Fill
<1>15. ASSUME NEW c \in Compilers, L!Stamp(c) PROVE LibraryTypes'
  BY <1>15 DEF L!Stamp, L!NoStamp
<1>16. ASSUME NEW c \in Compilers, L!Ends(c) PROVE LibraryTypes'
  BY <1>16 DEF L!Ends, L!NoLibrary
<1> QED
  BY <1>1, <1>2, <1>3, <1>4, <1>5, <1>6, <1>7, <1>8, <1>9, <1>10, <1>11, <1>12, <1>13,
     <1>14, <1>15, <1>16 DEF L!Next

\* Every variable keeps its type, whatever the habits of the users.
THEOREM LibraryTypesCorrect == ASSUME ToolConstants PROVE L!Spec => []L!TypeOK
<1>1. LibraryTypes => L!TypeOK
  BY DEF LibraryTypes
<1> QED
  BY LibraryTypeInit, LibraryTypeStep, <1>1, PTL DEF L!Spec
-------------------------------------------------------------------------------
\* Without the habits one compiler is at work at a time, and then neither `sere
\* pack` nor `sere clean` is.
Alone == /\ \A c, d \in Compilers : pc[c] # "idle" /\ pc[d] # "idle" => c = d
         /\ (\E c \in Compilers : pc[c] # "idle") => ~packing /\ ~cleaning

\* Nothing is from the future, and what is being packed is newer than the stamp.
Clocks == stamp <= clock /\ slib.time <= clock /\ (packing => stamp < slib.time)

\* The first n members are of version v and the others are not there.
Whole(v, n) == [i \in L!Numbers |-> IF i <= n THEN v ELSE L!Missing]

\* A stamp that is not older than the archive tells the truth; while somebody
\* removes files it does not count.
Fresh == stamp # L!NoStamp /\ stamp >= slib.time /\ ~cleaning
StampIsTrue == Fresh => tree = Whole(slib.version, L!Have)

\* A compiler has the archive as it is.
Reading == \A c \in Compilers : pc[c] # "idle" =>
               L!Readable /\ lib[c] = [version |-> slib.version, members |-> L!Have]

\* The old files go before the first member is written, the stamp among them.
Removing == \A c \in Compilers : pc[c] = "remove" => ~L!UpToDate
Writing == \A c \in Compilers : pc[c] \in {"write", "fill"} =>
    /\ stamp = L!NoStamp
    /\ \A i \in L!Numbers : i # next[c] \/ pc[c] = "write" =>
           tree[i] = IF i < next[c] THEN slib.version ELSE L!Missing
    /\ pc[c] = "write" => next[c] <= L!Have + 1

LibraryInv == LibraryTypes /\ Alone /\ Clocks /\ StampIsTrue /\ Reading /\ Removing /\ Writing /\ SeesTheArchive

\* At the start the invariant holds.
LEMMA LibraryInit == ASSUME ToolConstants, L!Init PROVE LibraryInv
<1>1. LibraryTypes
  BY LibraryTypeInit
<1>2. Alone /\ Reading /\ Removing /\ Writing /\ SeesTheArchive
  BY DEF L!Init, Alone, Reading, Removing, Writing, SeesTheArchive, L!SeesTheArchive
<1>3. Clocks /\ StampIsTrue
  BY DEF L!Init, Clocks, StampIsTrue, Fresh, L!NoStamp
<1> QED
  BY <1>1, <1>2, <1>3 DEF LibraryInv

\* Steps of a compiler leave the others idle.
LEMMA OthersIdle ==
    ASSUME Alone, L!TypeOK, NEW c \in Compilers, pc[c] # "idle" \/ L!Busy = {},
           NEW l, L!Goto(c, l)
    PROVE  /\ pc'[c] = l
           /\ \A d \in Compilers \ {c} : pc[d] = "idle" /\ pc'[d] = "idle"
BY DEF Alone, L!TypeOK, L!Busy, L!Goto

\* While nobody is at work, only what concerns the archive and the stamp matters.
LEMMA NobodyWorks ==
    ASSUME \A c \in Compilers : pc'[c] = "idle"
    PROVE  Alone' /\ Reading' /\ Removing' /\ Writing' /\ SeesTheArchive'
BY DEF Alone, Reading, Removing, Writing, SeesTheArchive, L!SeesTheArchive

\* The archive as compilers see it
LEMMA SameArchive ==
    ASSUME UNCHANGED slib
    PROVE  L!Have' = L!Have /\ (L!Readable' <=> L!Readable) /\ Whole(slib.version, L!Have)' = Whole(slib.version, L!Have)
BY DEF L!Have, L!Readable, Whole

\* Without the habits, whoever is at work stays alone.
LEMMA AloneStep == ASSUME ToolConstants, Habits = {}, LibraryInv, L!Next PROVE Alone'
<1> USE DEF LibraryInv, LibraryTypes, Alone, L!Allows
<1>1. L!TypeOK /\ \A habit : ~L!Allows(habit)
  OBVIOUS
<1>2. CASE L!Tick \/ L!Flush
  <2>1. UNCHANGED <<packing, cleaning, pc>>
    BY <1>2 DEF L!Tick, L!Flush, L!archive
  <2> QED
    BY <2>1
<1>3. CASE L!PackBegins
  BY <1>3 DEF L!PackBegins, L!Busy
<1>4. CASE L!PackEnds \/ L!CleanOne \/ L!Cleaned
  BY <1>4 DEF L!PackEnds, L!CleanOne, L!Cleaned
<1>5. CASE L!Clean
  BY <1>5 DEF L!Clean, L!Busy
<1>6. ASSUME NEW c \in Compilers, L!Import(c) PROVE Alone'
  <2>1. L!Busy = {} /\ L!Goto(c, "check") /\ ~packing /\ ~cleaning /\ UNCHANGED <<packing, cleaning>>
    BY <1>6 DEF L!Import, L!archive
  <2>2. \A d \in Compilers \ {c} : pc'[d] = "idle"
    BY <2>1, <1>1, OthersIdle
  <2> QED
    BY <2>1, <2>2
<1>7. ASSUME NEW c \in Compilers, pc[c] # "idle", NEW l, L!Goto(c, l), UNCHANGED <<packing, cleaning>>
      PROVE  Alone'
  <2>1. \A d \in Compilers \ {c} : pc'[d] = "idle"
    BY <1>1, <1>7, OthersIdle
  <2> QED
    BY <1>7, <2>1
<1>8. ASSUME NEW c \in Compilers,
             \/ L!Check(c) \/ L!Removed(c) \/ L!Open(c) \/ L!Fill(c) \/ L!Stamp(c) \/ L!Ends(c)
      PROVE  Alone'
  <2>1. pc[c] # "idle" /\ UNCHANGED <<packing, cleaning>>
    BY <1>8 DEF L!Check, L!Removed, L!Open, L!Fill, L!Stamp, L!Ends, L!archive
  <2>2. \E l : L!Goto(c, l)
    BY <1>8 DEF L!Check, L!Removed, L!Open, L!Fill, L!Stamp, L!Ends
  <2> QED
    BY <1>7, <2>1, <2>2
<1>9. ASSUME NEW c \in Compilers, L!Remove(c) PROVE Alone'
  BY <1>9 DEF L!Remove, L!archive
<1> QED
  BY <1>2, <1>3, <1>4, <1>5, <1>6, <1>8, <1>9 DEF L!Next

\* Nothing comes to be from the future.
LEMMA ClocksStep == ASSUME ToolConstants, Habits = {}, LibraryInv, L!Next PROVE Clocks'
<1> USE DEF Clocks, L!archive, L!cache, L!NoStamp
<1>1. /\ clock \in Nat /\ stamp \in -1 .. MaxClock /\ slib.time \in Nat
      /\ slib \in [version : 0 .. MaxPacks, written : 0 .. 2 * MemberCount, time : 0 .. MaxClock]
  BY DEF LibraryInv, LibraryTypes, L!TypeOK
<1>2. Clocks
  BY DEF LibraryInv
<1>3. CASE L!Tick
  BY <1>1, <1>2, <1>3 DEF L!Tick
<1>4. CASE L!PackBegins
  BY <1>1, <1>2, <1>4 DEF L!PackBegins, L!Allows
<1>5. CASE L!Flush
  BY <1>1, <1>2, <1>5 DEF L!Flush
<1>6. CASE L!PackEnds \/ L!Clean \/ L!Cleaned
  BY <1>2, <1>6 DEF L!PackEnds, L!Clean, L!Cleaned
<1>7. ASSUME L!RemoveOne, UNCHANGED <<clock, L!archive>> PROVE Clocks'
  BY <1>1, <1>2, <1>7 DEF L!RemoveOne
<1>8. CASE L!CleanOne
  BY <1>7, <1>8 DEF L!CleanOne
<1>9. ASSUME NEW c \in Compilers, L!Remove(c) PROVE Clocks'
  BY <1>7, <1>9 DEF L!Remove
<1>10. ASSUME NEW c \in Compilers,
              L!Import(c) \/ L!Check(c) \/ L!Removed(c) \/ L!Open(c) \/ L!Fill(c) \/ L!Ends(c)
       PROVE  Clocks'
  BY <1>2, <1>10 DEF L!Import, L!Check, L!Removed, L!Open, L!Fill, L!Ends
<1>11. ASSUME NEW c \in Compilers, L!Stamp(c) PROVE Clocks'
  <2>1. ~packing
    BY <1>11 DEF L!Stamp, LibraryInv, Alone
  <2> QED
    BY <1>1, <1>2, <2>1, <1>11 DEF L!Stamp
<1> QED
  BY <1>3, <1>4, <1>5, <1>6, <1>8, <1>9, <1>10, <1>11 DEF L!Next

\* What a compiler finds in the cache when it has a reason to trust it
LEMMA FreshIsUpToDate == ASSUME ToolConstants, LibraryInv, L!Readable, Fresh PROVE L!UpToDate
<1>1. tree = Whole(slib.version, L!Have) /\ slib.version > 0 /\ Entry \in L!Numbers /\ Entry <= L!Have
  BY HaveRange DEF LibraryInv, LibraryTypes, StampIsTrue, L!Readable, ToolConstants, L!LibraryAssumption, L!Numbers, L!TypeOK
<1>2. tree[Entry] = slib.version /\ slib.version \in Nat
  BY <1>1 DEF Whole, LibraryInv, LibraryTypes, L!TypeOK
<1> QED
  BY <1>1, <1>2 DEF L!UpToDate, Fresh, L!Missing

\* Once the last member is filled, the tree is the archive.
LEMMA AllWritten ==
    ASSUME ToolConstants, LibraryInv, NEW c \in Compilers, L!Stamp(c)
    PROVE  tree = Whole(slib.version, L!Have)
<1>1. L!Have \in 0 .. MemberCount
  BY HaveRange DEF LibraryInv, LibraryTypes
<1>2. next[c] \in Nat /\ next[c] > L!Have /\ next[c] <= L!Have + 1
  BY <1>1 DEF L!Stamp, LibraryInv, LibraryTypes, L!TypeOK, Reading, Writing
<1>3. \A i \in L!Numbers : tree[i] = IF i < next[c] THEN slib.version ELSE L!Missing
  BY DEF L!Stamp, LibraryInv, Writing
<1>4. \A i \in L!Numbers : i < next[c] <=> i <= L!Have
  BY <1>1, <1>2 DEF L!Numbers
<1>5. tree \in [L!Numbers -> L!Part .. MaxPacks]
  BY DEF LibraryInv, LibraryTypes, L!TypeOK
<1> QED
  BY <1>3, <1>4, <1>5 DEF Whole

\* A stamp that is not older than the archive stays true.
LEMMA StampStep == ASSUME ToolConstants, Habits = {}, LibraryInv, L!Next PROVE StampIsTrue'
<1> USE DEF StampIsTrue, Fresh, L!archive, L!cache
<1>1. /\ clock \in Nat /\ stamp \in -1 .. MaxClock /\ slib.time \in Nat
      /\ slib \in [version : 0 .. MaxPacks, written : 0 .. 2 * MemberCount, time : 0 .. MaxClock]
  BY DEF LibraryInv, LibraryTypes, L!TypeOK, L!NoStamp
<1>2. StampIsTrue /\ Clocks
  BY DEF LibraryInv
<1>3. ASSUME UNCHANGED <<slib, L!cache, cleaning>> PROVE StampIsTrue'
  BY <1>2, <1>3, SameArchive
<1>4. ASSUME stamp' = L!NoStamp \/ cleaning' PROVE StampIsTrue'
  BY <1>4 DEF L!NoStamp
<1>5. CASE L!PackBegins
  BY <1>1, <1>2, <1>5 DEF L!PackBegins, Clocks, L!Allows
<1>6. CASE L!Flush
  BY <1>1, <1>2, <1>6 DEF L!Flush, Clocks
<1>7. CASE L!Tick \/ L!PackEnds
  BY <1>3, <1>7 DEF L!Tick, L!PackEnds
<1>8. CASE L!Clean \/ L!CleanOne
  BY <1>4, <1>8 DEF L!Clean, L!CleanOne
<1>9. CASE L!Cleaned
  BY <1>4, <1>9 DEF L!Cleaned, LibraryInv, Alone, L!Busy, L!Empty, L!Allows
<1>10. ASSUME NEW c \in Compilers, L!Import(c) \/ L!Check(c) \/ L!Removed(c) \/ L!Ends(c)
       PROVE  StampIsTrue'
  BY <1>3, <1>10 DEF L!Import, L!Check, L!Removed, L!Ends
<1>11. ASSUME NEW c \in Compilers, L!Open(c) \/ L!Fill(c) PROVE StampIsTrue'
  BY <1>4, <1>11 DEF L!Open, L!Fill, LibraryInv, Writing
<1>12. ASSUME NEW c \in Compilers, L!Remove(c) PROVE StampIsTrue'
  <2>1. ~Fresh
    BY <1>12, FreshIsUpToDate DEF L!Remove, LibraryInv, Reading, Removing
  <2>2. CASE stamp' = L!NoStamp
    BY <1>4, <2>2
  <2>3. CASE UNCHANGED stamp
    BY <1>12, <2>1, <2>3 DEF L!Remove
  <2> QED
    BY <1>12, <2>2, <2>3 DEF L!Remove, L!RemoveOne
<1>13. ASSUME NEW c \in Compilers, L!Stamp(c) PROVE StampIsTrue'
  <2>1. tree' = Whole(slib.version, L!Have)
    BY <1>13, AllWritten DEF L!Stamp
  <2> QED
    BY <1>13, <2>1, SameArchive DEF L!Stamp
<1> QED
  BY <1>5, <1>6, <1>7, <1>8, <1>9, <1>10, <1>11, <1>12, <1>13 DEF L!Next

\* Only the compiler at work has anything to show.
LEMMA OneWorks ==
    ASSUME NEW c \in Compilers, \A d \in Compilers \ {c} : pc'[d] = "idle",
           pc'[c] # "idle" => L!Readable' /\ lib'[c] = [version |-> slib'.version, members |-> L!Have'],
           pc'[c] = "remove" => ~L!UpToDate',
           pc'[c] \in {"write", "fill"} =>
               /\ stamp' = L!NoStamp
               /\ \A i \in L!Numbers : i # next'[c] \/ pc'[c] = "write" =>
                      tree'[i] = IF i < next'[c] THEN slib'.version ELSE L!Missing
               /\ pc'[c] = "write" => next'[c] <= L!Have' + 1,
           pc'[c] = "use" => tree' = Whole(slib'.version, L!Have')
    PROVE  Reading' /\ Removing' /\ Writing' /\ SeesTheArchive'
BY DEF Reading, Removing, Writing, SeesTheArchive, L!SeesTheArchive, Whole

\* What a compiler has found or written stays true while it works.
LEMMA WorkStep ==
    ASSUME ToolConstants, Habits = {}, LibraryInv, L!Next
    PROVE  Reading' /\ Removing' /\ Writing' /\ SeesTheArchive'
<1> DEFINE Works == Reading' /\ Removing' /\ Writing' /\ SeesTheArchive'
<1>1. L!TypeOK /\ Alone /\ \A habit : ~L!Allows(habit)
  BY DEF LibraryInv, LibraryTypes, L!Allows
<1>2. CASE L!Tick
  <2>1. UNCHANGED <<slib, tree, stamp, pc, lib, next>> /\ (L!UpToDate' <=> L!UpToDate)
    BY <1>2 DEF L!Tick, L!archive, L!cache, L!UpToDate
  <2> QED
    BY <2>1, SameArchive DEF LibraryInv, Reading, Removing, Writing, SeesTheArchive, L!SeesTheArchive
<1>3. CASE L!PackBegins \/ L!Flush \/ L!PackEnds \/ L!Clean \/ L!CleanOne \/ L!Cleaned
  <2>1. UNCHANGED pc
    BY <1>3 DEF L!PackBegins, L!Flush, L!PackEnds, L!Clean, L!CleanOne, L!Cleaned
  <2>2. L!Busy = {}
    BY <1>1, <1>3 DEF L!PackBegins, L!Flush, L!PackEnds, L!Clean, L!CleanOne, L!Cleaned, Alone, L!Busy
  <2> QED
    BY <2>1, <2>2, NobodyWorks DEF L!Busy
<1>4. ASSUME NEW c \in Compilers, pc[c] # "idle"
      PROVE  L!Readable /\ lib[c] = [version |-> slib.version, members |-> L!Have]
  BY <1>4 DEF LibraryInv, Reading
<1>5. ASSUME NEW c \in Compilers, L!Import(c) PROVE Works
  <2>1. /\ L!Busy = {} /\ L!Goto(c, "check") /\ UNCHANGED slib /\ L!Readable
        /\ lib'[c] = [version |-> slib.version, members |-> L!Have]
    BY <1>1, <1>5 DEF L!Import, L!archive, L!TypeOK
  <2>2. pc'[c] = "check" /\ \A d \in Compilers \ {c} : pc'[d] = "idle"
    BY <1>1, <2>1, OthersIdle
  <2> HIDE DEF Works
  <2> QED
    BY <2>1, <2>2, SameArchive, OneWorks DEF Works
<1>6. ASSUME NEW c \in Compilers, L!Check(c) PROVE Works
  <2>1. /\ pc[c] = "check" /\ L!Goto(c, IF L!UpToDate THEN "use" ELSE "remove")
        /\ UNCHANGED <<slib, tree, stamp, cleaning, lib, next>>
    BY <1>6 DEF L!Check, L!archive, L!cache
  <2>2. /\ pc'[c] = (IF L!UpToDate THEN "use" ELSE "remove")
        /\ \A d \in Compilers \ {c} : pc'[d] = "idle"
    BY <1>1, <2>1, OthersIdle
  <2>3. L!UpToDate' <=> L!UpToDate
    BY <2>1 DEF L!UpToDate
  <2>4. L!UpToDate => tree = Whole(slib.version, L!Have)
    BY <2>1, <1>1 DEF L!UpToDate, LibraryInv, StampIsTrue, Fresh, Alone
  <2> QED
    BY <2>1, <2>2, <2>3, <2>4, <1>4, SameArchive, OneWorks
<1>7. ASSUME NEW c \in Compilers, L!Remove(c) PROVE Works
  <2>1. pc[c] = "remove" /\ L!RemoveOne /\ UNCHANGED <<slib, pc, lib, next>>
    BY <1>7 DEF L!Remove, L!archive
  <2>2. \A d \in Compilers \ {c} : pc'[d] = "idle"
    BY <1>1, <2>1 DEF Alone
  <2>3. ~L!UpToDate
    BY <2>1 DEF LibraryInv, Removing
  <2>4. ~L!UpToDate'
    <3>1. CASE stamp' = L!NoStamp
      BY <3>1 DEF L!UpToDate
    <3>2. ASSUME NEW i \in L!Numbers, tree' = [tree EXCEPT ![i] = L!Missing], UNCHANGED stamp
          PROVE  ~L!UpToDate'
      <4>1. Entry \in DOMAIN tree
        BY <1>1 DEF L!TypeOK, ToolConstants, L!LibraryAssumption, L!Numbers
      <4>2. tree'[Entry] # L!Missing => tree[Entry] # L!Missing
        BY <3>2, <4>1
      <4> QED
        BY <2>1, <2>3, <3>2, <4>2 DEF L!UpToDate
    <3> QED
      BY <2>1, <3>1, <3>2 DEF L!RemoveOne
  <2> QED
    BY <2>1, <2>2, <2>4, <1>4, SameArchive, OneWorks
<1>8. ASSUME NEW c \in Compilers, L!Removed(c) PROVE Works
  <2>1. /\ pc[c] = "remove" /\ L!Goto(c, "write") /\ next'[c] = 1
        /\ UNCHANGED <<slib, tree, stamp, lib>>
    BY <1>1, <1>8 DEF L!Removed, L!archive, L!cache, L!TypeOK
  <2>2. pc'[c] = "write" /\ \A d \in Compilers \ {c} : pc'[d] = "idle"
    BY <1>1, <2>1, OthersIdle
  <2>3. L!Empty
    BY <1>1, <1>8, <2>1 DEF L!Removed, Alone, L!Busy
  <2>4. L!Have \in Nat /\ 1 <= L!Have + 1 /\ \A i \in L!Numbers : ~(i < 1)
    BY <1>1, HaveRange DEF L!Numbers
  <2>5. /\ stamp' = L!NoStamp /\ next'[c] <= L!Have' + 1
        /\ \A i \in L!Numbers : tree'[i] = IF i < next'[c] THEN slib'.version ELSE L!Missing
    BY <2>1, <2>3, <2>4, SameArchive DEF L!Empty
  <2> QED
    BY <2>1, <2>2, <2>3, <2>4, <2>5, <1>4, SameArchive, OneWorks
<1>9. ASSUME NEW c \in Compilers, L!Open(c) PROVE Works
  <2>1. /\ pc[c] = "write" /\ L!Goto(c, "fill") /\ tree' = [tree EXCEPT ![next[c]] = L!Part]
        /\ UNCHANGED <<slib, stamp, lib, next>>
    BY <1>9 DEF L!Open, L!archive
  <2>2. pc'[c] = "fill" /\ \A d \in Compilers \ {c} : pc'[d] = "idle"
    BY <1>1, <2>1, OthersIdle
  <2>3. stamp = L!NoStamp /\ \A i \in L!Numbers : tree[i] = IF i < next[c] THEN slib.version ELSE L!Missing
    BY <2>1 DEF LibraryInv, Writing
  <2>4. \A i \in L!Numbers : i # next[c] => tree'[i] = tree[i]
    BY <2>1, <1>1 DEF L!TypeOK
  <2> QED
    BY <2>1, <2>2, <2>3, <2>4, <1>4, SameArchive, OneWorks
<1>10. ASSUME NEW c \in Compilers, L!Fill(c) PROVE Works
  <2>1. /\ pc[c] = "fill" /\ L!Goto(c, "write") /\ tree' = [tree EXCEPT ![next[c]] = lib[c].version]
        /\ next' = [next EXCEPT ![c] = @ + 1] /\ UNCHANGED <<slib, stamp, lib>>
    BY <1>1, <1>10 DEF L!Fill, L!archive
  <2>2. pc'[c] = "write" /\ \A d \in Compilers \ {c} : pc'[d] = "idle"
    BY <1>1, <2>1, OthersIdle
  <2>3. /\ stamp = L!NoStamp
        /\ \A i \in L!Numbers : i # next[c] => tree[i] = IF i < next[c] THEN slib.version ELSE L!Missing
    BY <2>1 DEF LibraryInv, Writing
  <2>4. L!Have \in Nat /\ next[c] \in Nat /\ next'[c] = next[c] + 1 /\ next[c] <= L!Have
    BY <1>1, <1>4, <2>1, HaveRange DEF L!TypeOK, LibraryInv, LibraryTypes, FillsAMember
  <2>5. \A i \in L!Numbers : tree'[i] = IF i < next'[c] THEN slib.version ELSE L!Missing
    <3> TAKE i \in L!Numbers
    <3>1. i \in Nat /\ i \in DOMAIN tree
      BY <1>1 DEF L!TypeOK, L!Numbers
    <3>2. CASE i = next[c]
      BY <2>1, <2>4, <3>1, <3>2, <1>4
    <3>3. CASE i # next[c]
      BY <2>1, <2>3, <2>4, <3>1, <3>3
    <3> QED
      BY <3>2, <3>3
  <2> QED
    BY <2>1, <2>2, <2>3, <2>4, <2>5, <1>4, SameArchive, OneWorks
<1>11. ASSUME NEW c \in Compilers, L!Stamp(c) PROVE Works
  <2>1. pc[c] = "write" /\ L!Goto(c, "use") /\ UNCHANGED <<slib, tree, lib>>
    BY <1>11 DEF L!Stamp, L!archive
  <2>2. pc'[c] = "use" /\ \A d \in Compilers \ {c} : pc'[d] = "idle"
    BY <1>1, <2>1, OthersIdle
  <2>3. tree = Whole(slib.version, L!Have)
    BY <1>11, AllWritten
  <2> QED
    BY <2>1, <2>2, <2>3, <1>4, SameArchive, OneWorks
<1>12. ASSUME NEW c \in Compilers, L!Ends(c) PROVE Works
  <2>1. pc[c] # "idle" /\ L!Goto(c, "idle")
    BY <1>12 DEF L!Ends
  <2>2. \A d \in Compilers : pc'[d] = "idle"
    BY <1>1, <2>1, OthersIdle
  <2> QED
    BY <2>2, NobodyWorks
<1> QED
  BY <1>2, <1>3, <1>5, <1>6, <1>7, <1>8, <1>9, <1>10, <1>11, <1>12 DEF L!Next

\* Every step keeps the invariant.
LEMMA LibraryStep == ASSUME ToolConstants, Habits = {}, LibraryInv, [L!Next]_(L!vars) PROVE LibraryInv'
<1>1. CASE UNCHANGED L!vars
  <2>1. UNCHANGED <<clock, slib, packing, tree, stamp, cleaning, pc, lib, next>>
    BY <1>1 DEF L!vars, L!archive, L!cache
  <2> QED
    BY <2>1, LibraryTypeStep, SameArchive
    DEF LibraryInv, Alone, Clocks, StampIsTrue, Fresh, Reading, Removing, L!UpToDate, Writing, SeesTheArchive, L!SeesTheArchive
<1>2. CASE L!Next
  BY <1>2, LibraryTypeStep, AloneStep, ClocksStep, StampStep, WorkStep DEF LibraryInv
<1> QED
  BY <1>1, <1>2

\* As long as users have none of the habits, a compiler that trusts the cache or
\* has filled it sees the archive that is there, whatever was killed before.
THEOREM CacheIsTheArchive ==
    ASSUME ToolConstants, Habits = {} PROVE L!Spec => []SeesTheArchive
<1>1. LibraryInv => SeesTheArchive
  BY DEF LibraryInv
<1> QED
  BY LibraryInit, LibraryStep, <1>1, PTL DEF L!Spec
-------------------------------------------------------------------------------
(***************************************************************************)
(* Ownership in the wavio engine, proved for every number of contexts,     *)
(* buses, sounds and captures.                                             *)
(*                                                                         *)
(* A close function runs through states in which a reference has been      *)
(* dropped from a field and not yet from a count.  Balanced says that the  *)
(* counts are right if the references that the caller has in hand are      *)
(* added to those stored in objects; each lemma follows one assignment of  *)
(* the code and moves one reference, and the proof of an action composes   *)
(* them.  Between actions the only references in hand are the handles of   *)
(* the Sere wrappers.                                                      *)
(***************************************************************************)

Counted == Contexts \cup Buses

\* The objects on context c among `objects`, and the sounds whose bus is b
ChildrenOf(objects, c) == {x \in Children \cap objects : context[x] = c}
RidersOf(routes, b) == {s \in Sounds : routes[s] = b}

\* `counts` are the references stored in `objects` and `routes` and those in
\* hand; an object lives as long as its count is positive.
Balanced(counts, objects, inHand, routes) ==
    /\ counts \in [Counted -> Nat] /\ inHand \in [Counted -> Nat]
    /\ objects \subseteq Objects
    /\ routes \in [Sounds -> Buses \cup {NoBus}]
    /\ context \in [Children -> Contexts]
    /\ \A c \in Contexts : counts[c] = inHand[c] + Cardinality(ChildrenOf(objects, c))
    /\ \A b \in Buses : counts[b] = inHand[b] + Cardinality(RidersOf(routes, b))
    /\ \A x \in Counted : x \in objects <=> counts[x] > 0

More(inHand, x) == [inHand EXCEPT ![x] = @ + 1]
Less(inHand, x) == [inHand EXCEPT ![x] = @ - 1]

Rerouted(routes, s, b) == [routes EXCEPT ![s] = b]
-------------------------------------------------------------------------------
\* The children of a context are finitely many.
LEMMA FiniteChildren ==
    ASSUME NEW objects, NEW c
    PROVE  IsFiniteSet(ChildrenOf(objects, c)) /\ Cardinality(ChildrenOf(objects, c)) \in Nat
  <1>1. IsFiniteSet(Buses) /\ IsFiniteSet(Sounds) /\ IsFiniteSet(Captures)
    BY ObjectsAssumption
  <1>2. IsFiniteSet(Children)
    BY <1>1, FS_Union DEF Children
  <1>3. ChildrenOf(objects, c) \subseteq Children
    BY DEF ChildrenOf
  <1>4. QED
    BY <1>2, <1>3, FS_Subset, FS_CardinalityType

\* The sounds routed to a bus are finitely many.
LEMMA FiniteRiders ==
    ASSUME NEW routes, NEW b
    PROVE  IsFiniteSet(RidersOf(routes, b)) /\ Cardinality(RidersOf(routes, b)) \in Nat
  <1>1. IsFiniteSet(Sounds) /\ RidersOf(routes, b) \subseteq Sounds
    BY ObjectsAssumption DEF RidersOf
  <1>2. QED
    BY <1>1, FS_Subset, FS_CardinalityType

\* wavio_context_close: the caller's reference goes, and the context with the
\* last one.
LEMMA ContextCloseBalances ==
    ASSUME NEW heap, heap = [refs |-> heap.refs, alive |-> heap.alive],
           NEW inHand, NEW routes, NEW c \in Contexts,
           Balanced(heap.refs, heap.alive, inHand, routes), inHand[c] > 0
    PROVE  LET closed == ContextClose(heap, c)
           IN /\ Balanced(closed.refs, closed.alive, Less(inHand, c), routes)
              /\ closed = [refs |-> closed.refs, alive |-> closed.alive]
              /\ closed.alive \subseteq heap.alive
              /\ closed.alive \ Counted = heap.alive \ Counted
  <1> DEFINE closed == ContextClose(heap, c)
  <1>1. /\ closed.refs = [heap.refs EXCEPT ![c] = @ - 1]
        /\ closed.alive = IF heap.refs[c] = 1 THEN heap.alive \ {c} ELSE heap.alive
        /\ closed = [refs |-> closed.refs, alive |-> closed.alive]
    BY DEF ContextClose
  <1>2. c \in Counted /\ heap.refs[c] \in Nat /\ inHand[c] \in Nat /\ heap.refs[c] > 0
    BY FiniteChildren DEF Balanced, Counted
  <1>3. \A d \in Contexts : ChildrenOf(closed.alive, d) = ChildrenOf(heap.alive, d)
    BY <1>1, ObjectsAssumption DEF ChildrenOf, Children
  <1>4. \A b \in Buses : b # c
    BY ObjectsAssumption
  <1> HIDE DEF closed
  <1>5. closed.refs \in [Counted -> Nat] /\ Less(inHand, c) \in [Counted -> Nat]
    BY <1>1, <1>2 DEF Balanced, Less
  <1>6. \A d \in Contexts :
           closed.refs[d] = Less(inHand, c)[d] + Cardinality(ChildrenOf(closed.alive, d))
    <2> TAKE d \in Contexts
    <2>1. heap.refs[d] = inHand[d] + Cardinality(ChildrenOf(heap.alive, d)) /\ d \in Counted
      BY DEF Balanced, Counted
    <2>2. Cardinality(ChildrenOf(heap.alive, d)) \in Nat /\ inHand[d] \in Nat
      BY <2>1, FiniteChildren DEF Balanced
    <2>3. ChildrenOf(closed.alive, d) = ChildrenOf(heap.alive, d)
      BY <1>3
    <2>4. closed.refs[d] = IF d = c THEN heap.refs[d] - 1 ELSE heap.refs[d]
      BY <1>1, <2>1 DEF Balanced
    <2>5. Less(inHand, c)[d] = IF d = c THEN inHand[d] - 1 ELSE inHand[d]
      BY <2>1 DEF Balanced, Less
    <2>6. QED
      BY <2>1, <2>2, <2>3, <2>4, <2>5
  <1>7. \A b \in Buses :
           closed.refs[b] = Less(inHand, c)[b] + Cardinality(RidersOf(routes, b))
    BY <1>1, <1>4 DEF Balanced, Less, Counted
  <1>8. \A x \in Counted : x \in closed.alive <=> closed.refs[x] > 0
    BY <1>1, <1>2 DEF Balanced
  <1>9. QED
    BY ZenonT(60), <1>1, <1>2, <1>5, <1>6, <1>7, <1>8 DEF Balanced, closed
-------------------------------------------------------------------------------
\* A child of a context that goes leaves the reference to its context in hand.
LEMMA DropChild ==
    ASSUME NEW objects, NEW inHand \in [Counted -> Nat], NEW x \in Children, NEW c \in Contexts,
           context \in [Children -> Contexts], x \in objects
    PROVE  More(inHand, context[x])[c] + Cardinality(ChildrenOf(objects \ {x}, c))
              = inHand[c] + Cardinality(ChildrenOf(objects, c))
  <1>1. c \in Counted /\ inHand[c] \in Nat /\ context[x] \in Counted
    BY DEF Counted
  <1>2. CASE context[x] = c
    <2>1. /\ ChildrenOf(objects \ {x}, c) = ChildrenOf(objects, c) \ {x}
          /\ x \in ChildrenOf(objects, c)
      BY <1>2 DEF ChildrenOf
    <2> DEFINE before == ChildrenOf(objects, c)
    <2> HIDE DEF before
    <2>2. IsFiniteSet(before)
      BY FiniteChildren DEF before
    <2>3. Cardinality(before \ {x}) = Cardinality(before) - 1
      BY <2>1, <2>2, FS_RemoveElement DEF before
    <2>4. Cardinality(ChildrenOf(objects \ {x}, c)) = Cardinality(ChildrenOf(objects, c)) - 1
      BY <2>1, <2>3 DEF before
    <2>5. More(inHand, context[x])[c] = inHand[c] + 1
      BY <1>1, <1>2 DEF More
    <2>6. QED
      BY <1>1, <2>4, <2>5, FiniteChildren
  <1>3. CASE context[x] # c
    <2>1. ChildrenOf(objects \ {x}, c) = ChildrenOf(objects, c)
      BY <1>3 DEF ChildrenOf
    <2>2. More(inHand, context[x])[c] = inHand[c]
      BY <1>1, <1>3 DEF More
    <2>3. QED
      BY <2>1, <2>2
  <1>4. QED
    BY <1>2, <1>3

\* A new child of a context takes over a reference in hand.
LEMMA AddChild ==
    ASSUME NEW objects, NEW inHand \in [Counted -> Nat], NEW x \in Children, NEW c \in Contexts,
           context \in [Children -> Contexts], x \notin objects
    PROVE  Less(inHand, context[x])[c] + Cardinality(ChildrenOf(objects \cup {x}, c))
              = inHand[c] + Cardinality(ChildrenOf(objects, c))
  <1>1. c \in Counted /\ inHand[c] \in Nat /\ context[x] \in Counted
    BY DEF Counted
  <1>2. CASE context[x] = c
    <2>1. /\ ChildrenOf(objects \cup {x}, c) = ChildrenOf(objects, c) \cup {x}
          /\ x \notin ChildrenOf(objects, c)
      BY <1>2 DEF ChildrenOf
    <2>2. Cardinality(ChildrenOf(objects \cup {x}, c)) = Cardinality(ChildrenOf(objects, c)) + 1
      BY <2>1, FiniteChildren, FS_AddElement
    <2>3. Less(inHand, context[x])[c] = inHand[c] - 1
      BY <1>1, <1>2 DEF Less
    <2>4. QED
      BY <1>1, <2>2, <2>3, FiniteChildren
  <1>3. CASE context[x] # c
    <2>1. ChildrenOf(objects \cup {x}, c) = ChildrenOf(objects, c)
      BY <1>3 DEF ChildrenOf
    <2>2. Less(inHand, context[x])[c] = inHand[c]
      BY <1>1, <1>3 DEF Less
    <2>3. QED
      BY <2>1, <2>2
  <1>4. QED
    BY <1>2, <1>3

\* A sound that is taken off its bus leaves the reference to the bus in hand.
LEMMA DropRider ==
    ASSUME NEW inHand \in [Counted -> Nat], NEW s \in Sounds, NEW old \in Buses,
           NEW routes \in [Sounds -> Buses \cup {NoBus}], routes[s] = old,
           NEW b \in Buses
    PROVE  More(inHand, old)[b] + Cardinality(RidersOf(Rerouted(routes, s, NoBus), b))
              = inHand[b] + Cardinality(RidersOf(routes, b))
  <1>1. b \in Counted /\ inHand[b] \in Nat /\ old \in Counted /\ b # NoBus
    BY ObjectsAssumption DEF Counted
  <1>2. CASE old = b
    <2> DEFINE before == RidersOf(routes, b)
    <2>0. RidersOf(Rerouted(routes, s, NoBus), b) = before \ {s}
      BY <1>1, <1>2 DEF RidersOf, Rerouted
    <2>1. s \in before
      BY <1>1, <1>2 DEF RidersOf, Rerouted
    <2>2. IsFiniteSet(before) /\ Cardinality(before) \in Nat
      BY FiniteRiders
    <2> HIDE DEF before
    <2>3. Cardinality(before \ {s}) = Cardinality(before) - 1
      BY <2>1, <2>2, FS_RemoveElement
    <2>4. Cardinality(RidersOf(Rerouted(routes, s, NoBus), b)) = Cardinality(before) - 1
      BY <2>0, <2>3, Zenon
    <2>5. More(inHand, old)[b] = inHand[b] + 1
      BY <1>1, <1>2 DEF More
    <2>6. QED
      BY <1>1, <2>2, <2>4, <2>5 DEF before
  <1>3. CASE old # b
    <2>1. RidersOf(Rerouted(routes, s, NoBus), b) = RidersOf(routes, b)
      BY <1>1, <1>3 DEF RidersOf, Rerouted
    <2>2. More(inHand, old)[b] = inHand[b]
      BY <1>1, <1>3 DEF More
    <2>3. QED
      BY <2>1, <2>2
  <1>4. QED
    BY <1>2, <1>3

\* A sound that is put on a bus takes over a reference in hand.
LEMMA AddRider ==
    ASSUME NEW inHand \in [Counted -> Nat], NEW s \in Sounds, NEW new \in Buses,
           NEW routes \in [Sounds -> Buses \cup {NoBus}], routes[s] = NoBus,
           NEW b \in Buses
    PROVE  Less(inHand, new)[b] + Cardinality(RidersOf(Rerouted(routes, s, new), b))
              = inHand[b] + Cardinality(RidersOf(routes, b))
  <1>1. b \in Counted /\ inHand[b] \in Nat /\ new \in Counted /\ b # NoBus
    BY ObjectsAssumption DEF Counted
  <1>2. CASE new = b
    <2> DEFINE before == RidersOf(routes, b)
    <2>0. RidersOf(Rerouted(routes, s, new), b) = before \cup {s}
      BY <1>1, <1>2 DEF RidersOf, Rerouted
    <2>1. s \notin before
      BY <1>1, <1>2 DEF RidersOf, Rerouted
    <2>2. IsFiniteSet(before) /\ Cardinality(before) \in Nat
      BY FiniteRiders
    <2> HIDE DEF before
    <2>3. Cardinality(before \cup {s}) = Cardinality(before) + 1
      BY <2>1, <2>2, FS_AddElement
    <2>4. Cardinality(RidersOf(Rerouted(routes, s, new), b)) = Cardinality(before) + 1
      BY <2>0, <2>3, Zenon
    <2>5. Less(inHand, new)[b] = inHand[b] - 1
      BY <1>1, <1>2 DEF Less
    <2>6. QED
      BY <1>1, <2>2, <2>4, <2>5 DEF before
  <1>3. CASE new # b
    <2>1. RidersOf(Rerouted(routes, s, new), b) = RidersOf(routes, b)
      BY <1>1, <1>3 DEF RidersOf, Rerouted
    <2>2. Less(inHand, new)[b] = inHand[b]
      BY <1>1, <1>3 DEF Less
    <2>3. QED
      BY <2>1, <2>2
  <1>4. QED
    BY <1>2, <1>3
-------------------------------------------------------------------------------
\* A reference taken in hand and given away again
LEMMA MoreLess ==
    ASSUME NEW inHand \in [Counted -> Nat], NEW x \in Counted
    PROVE  /\ More(inHand, x) \in [Counted -> Nat] /\ More(inHand, x)[x] > 0
           /\ Less(More(inHand, x), x) = inHand
  <1>1. More(inHand, x) \in [Counted -> Nat]
    BY DEF More
  <1>2. More(inHand, x)[x] = inHand[x] + 1 /\ inHand[x] \in Nat
    BY DEF More
  <1>3. /\ DOMAIN Less(More(inHand, x), x) = Counted
        /\ \A y \in Counted : Less(More(inHand, x), x)[y] = inHand[y]
    BY DEF More, Less
  <1>4. Less(More(inHand, x), x) = [y \in Counted |-> Less(More(inHand, x), x)[y]]
    BY <1>3 DEF Less, More
  <1>5. inHand = [y \in Counted |-> inHand[y]]
    OBVIOUS
  <1>6. QED
    BY <1>1, <1>2, <1>3, <1>4, <1>5

\* Nothing in the counts changes when a reference is retained that is counted.
LEMMA RetainBalances ==
    ASSUME NEW heap, heap = [refs |-> heap.refs, alive |-> heap.alive],
           NEW inHand, NEW routes, NEW x \in Counted,
           Balanced(heap.refs, heap.alive, inHand, routes), x \in heap.alive
    PROVE  LET kept == Retain(heap, x)
           IN /\ Balanced(kept.refs, kept.alive, More(inHand, x), routes)
              /\ kept = [refs |-> kept.refs, alive |-> kept.alive]
              /\ kept.alive = heap.alive
  <1> DEFINE kept == Retain(heap, x)
  <1>1. /\ kept.refs = [heap.refs EXCEPT ![x] = @ + 1] /\ kept.alive = heap.alive
        /\ kept = [refs |-> kept.refs, alive |-> kept.alive]
    BY DEF Retain
  <1> HIDE DEF kept
  <1>2. heap.refs \in [Counted -> Nat] /\ inHand \in [Counted -> Nat] /\ heap.refs[x] > 0
    BY DEF Balanced
  <1>3. kept.refs \in [Counted -> Nat] /\ More(inHand, x) \in [Counted -> Nat]
    BY <1>1, <1>2 DEF More
  <1>4. \A y \in Counted : kept.refs[y] - More(inHand, x)[y] = heap.refs[y] - inHand[y]
    BY <1>1, <1>2 DEF More
  <1>5. \A c \in Contexts :
           kept.refs[c] = More(inHand, x)[c] + Cardinality(ChildrenOf(kept.alive, c))
    <2> TAKE c \in Contexts
    <2>1. c \in Counted /\ heap.refs[c] = inHand[c] + Cardinality(ChildrenOf(heap.alive, c))
      BY DEF Balanced, Counted
    <2>2. QED
      BY <1>1, <1>2, <1>3, <1>4, <2>1, FiniteChildren
  <1>6. \A b \in Buses : kept.refs[b] = More(inHand, x)[b] + Cardinality(RidersOf(routes, b))
    <2> TAKE b \in Buses
    <2>1. b \in Counted /\ heap.refs[b] = inHand[b] + Cardinality(RidersOf(routes, b))
      BY DEF Balanced, Counted
    <2>2. QED
      BY <1>1, <1>2, <1>3, <1>4, <2>1, FiniteRiders
  <1>7. \A y \in Counted : y \in kept.alive <=> kept.refs[y] > 0
    BY <1>1, <1>2 DEF Balanced
  <1>8. QED
    BY <1>1, <1>3, <1>5, <1>6, <1>7 DEF Balanced, kept

\* wavio_bus_close: the caller's reference goes; with the last one the bus goes
\* and its reference to the context.
LEMMA BusCloseBalances ==
    ASSUME NEW heap, heap = [refs |-> heap.refs, alive |-> heap.alive],
           NEW inHand, NEW routes, NEW b \in Buses,
           Balanced(heap.refs, heap.alive, inHand, routes), inHand[b] > 0
    PROVE  LET closed == BusClose(heap, b)
           IN /\ Balanced(closed.refs, closed.alive, Less(inHand, b), routes)
              /\ closed = [refs |-> closed.refs, alive |-> closed.alive]
              /\ closed.alive \subseteq heap.alive
              /\ closed.alive \ Counted = heap.alive \ Counted
  <1> DEFINE last == heap.refs[b] = 1
             dropped == [refs  |-> [heap.refs EXCEPT ![b] = @ - 1],
                         alive |-> IF last THEN heap.alive \ {b} ELSE heap.alive]
  <1>1. BusClose(heap, b) = IF last THEN ContextClose(dropped, context[b]) ELSE dropped
    BY ObjectsAssumption DEF BusClose
  <1>2. /\ dropped.refs = [heap.refs EXCEPT ![b] = @ - 1]
        /\ dropped.alive = IF last THEN heap.alive \ {b} ELSE heap.alive
        /\ dropped = [refs |-> dropped.refs, alive |-> dropped.alive]
    OBVIOUS
  <1> HIDE DEF dropped
  <1>3. /\ b \in Counted /\ b \in Children /\ b \notin Contexts /\ context[b] \in Contexts
        /\ context[b] \in Counted /\ context[b] # b
    BY ObjectsAssumption DEF Counted, Children, Balanced
  <1>4. heap.refs \in [Counted -> Nat] /\ inHand \in [Counted -> Nat] /\ heap.refs[b] > 0
    BY <1>3, FiniteRiders DEF Balanced
  <1>5. dropped.refs \in [Counted -> Nat] /\ Less(inHand, b) \in [Counted -> Nat]
    BY <1>2, <1>3, <1>4 DEF Less
  <1>6. \A d \in Buses :
           dropped.refs[d] = Less(inHand, b)[d] + Cardinality(RidersOf(routes, d))
    <2> TAKE d \in Buses
    <2>1. heap.refs[d] = inHand[d] + Cardinality(RidersOf(routes, d)) /\ d \in Counted
      BY DEF Balanced, Counted
    <2>2. dropped.refs[d] = IF d = b THEN heap.refs[d] - 1 ELSE heap.refs[d]
      BY <1>2, <1>4, <2>1
    <2>3. Less(inHand, b)[d] = IF d = b THEN inHand[d] - 1 ELSE inHand[d]
      BY <1>4, <2>1 DEF Less
    <2>4. QED
      BY <1>4, <2>1, <2>2, <2>3, FiniteRiders
  <1>7. \A c \in Contexts : dropped.refs[c] = heap.refs[c] /\ Less(inHand, b)[c] = inHand[c]
    BY <1>2, <1>3, <1>4 DEF Less, Counted
  <1>8. \A x \in Counted : x \in dropped.alive <=> dropped.refs[x] > 0
    BY <1>2, <1>4 DEF Balanced
  <1>9. CASE ~ last
    <2>1. Balanced(dropped.refs, dropped.alive, Less(inHand, b), routes)
      BY <1>2, <1>5, <1>6, <1>7, <1>8, <1>9 DEF Balanced
    <2>2. QED
      BY <1>1, <1>2, <1>9, <2>1
  <1>10. CASE last
    <2> DEFINE hand == Less(inHand, b)
               owed == More(hand, context[b])
               closed == ContextClose(dropped, context[b])
    <2> HIDE DEF hand
    <2>1. b \in heap.alive /\ hand \in [Counted -> Nat]
      BY <1>3, <1>4, <1>5 DEF Balanced, hand
    <2>2. \A c \in Contexts :
             dropped.refs[c] = hand[c] + Cardinality(ChildrenOf(heap.alive, c))
      BY <1>7 DEF Balanced, hand
    <2>3. context \in [Children -> Contexts]
      BY DEF Balanced
    <2>4. /\ owed \in [Counted -> Nat] /\ owed[context[b]] > 0
          /\ Less(owed, context[b]) = hand
          /\ \A d \in Buses : owed[d] = hand[d]
      <3>1. \A d \in Buses : owed[d] = hand[d]
        BY <1>3, <2>1, ObjectsAssumption DEF More, Counted
      <3>2. QED
        BY <1>3, <2>1, <3>1, MoreLess
    <2>5. \A c \in Contexts :
             dropped.refs[c] = owed[c] + Cardinality(ChildrenOf(heap.alive \ {b}, c))
      BY ZenonT(60), <1>3, <2>1, <2>2, <2>3, DropChild
    <2> HIDE DEF owed
    <2>6. dropped.alive = heap.alive \ {b}
      BY <1>2, <1>10
    <2>7. Balanced(dropped.refs, dropped.alive, owed, routes)
      BY <1>5, <1>6, <1>8, <2>3, <2>4, <2>5, <2>6 DEF Balanced, hand
    <2>8. /\ Balanced(closed.refs, closed.alive, Less(owed, context[b]), routes)
          /\ closed = [refs |-> closed.refs, alive |-> closed.alive]
          /\ closed.alive \subseteq dropped.alive
          /\ closed.alive \ Counted = dropped.alive \ Counted
      BY <1>2, <1>3, <2>4, <2>7, ContextCloseBalances
    <2>9. BusClose(heap, b) = closed
      BY <1>1, <1>10
    <2> HIDE DEF closed
    <2>10. closed.alive \subseteq heap.alive /\ closed.alive \ Counted = heap.alive \ Counted
      BY <1>3, <2>6, <2>8
    <2>11. Balanced(closed.refs, closed.alive, Less(inHand, b), routes)
      BY <2>4, <2>8, Zenon DEF hand
    <2>12. QED
      BY <2>8, <2>9, <2>10, <2>11, Zenon
  <1>11. QED
    BY <1>9, <1>10
-------------------------------------------------------------------------------
\* A new context comes with one reference, in hand.
LEMMA ContextBorn ==
    ASSUME NEW counts, NEW objects, NEW inHand, NEW routes, NEW c \in Contexts,
           Balanced(counts, objects, inHand, routes), c \notin objects
    PROVE  Balanced([counts EXCEPT ![c] = 1], objects \cup {c}, More(inHand, c), routes)
  <1> DEFINE counts2 == [counts EXCEPT ![c] = 1]
  <1>1. c \in Counted /\ c \notin Children /\ c \in Objects
    BY ObjectsAssumption DEF Counted, Children, Objects
  <1>2. counts \in [Counted -> Nat] /\ inHand \in [Counted -> Nat]
    BY DEF Balanced
  <1>3. counts[c] = 0 /\ counts[c] = inHand[c] + Cardinality(ChildrenOf(objects, c))
    BY <1>1, <1>2 DEF Balanced
  <1>4. inHand[c] = 0
    BY <1>1, <1>2, <1>3, FiniteChildren
  <1>5. \A d \in Contexts : ChildrenOf(objects \cup {c}, d) = ChildrenOf(objects, d)
    BY <1>1 DEF ChildrenOf
  <1>6. \A d \in Contexts : Cardinality(ChildrenOf(objects \cup {c}, d))
                              = Cardinality(ChildrenOf(objects, d))
    BY <1>5, Zenon
  <1>7. \A y \in Counted : /\ counts2[y] = IF y = c THEN 1 ELSE counts[y]
                           /\ More(inHand, c)[y] = IF y = c THEN 1 ELSE inHand[y]
    BY <1>1, <1>2, <1>4 DEF More
  <1>8. counts2 \in [Counted -> Nat] /\ More(inHand, c) \in [Counted -> Nat]
    BY <1>1, <1>2 DEF More
  <1> HIDE DEF counts2
  <1>9. \A d \in Contexts : counts2[d] = More(inHand, c)[d]
                               + Cardinality(ChildrenOf(objects \cup {c}, d))
    <2> TAKE d \in Contexts
    <2>1. d \in Counted /\ counts[d] = inHand[d] + Cardinality(ChildrenOf(objects, d))
      BY DEF Balanced, Counted
    <2>2. QED
      BY <1>1, <1>3, <1>4, <1>6, <1>7, <2>1, FiniteChildren
  <1>10. \A b \in Buses : counts2[b] = More(inHand, c)[b] + Cardinality(RidersOf(routes, b))
    BY <1>7, ObjectsAssumption DEF Balanced, Counted
  <1>11. \A y \in Counted : y \in objects \cup {c} <=> counts2[y] > 0
    BY <1>7 DEF Balanced
  <1>12. Balanced(counts2, objects \cup {c}, More(inHand, c), routes)
    BY <1>1, <1>8, <1>9, <1>10, <1>11 DEF Balanced
  <1>13. QED
    BY <1>12 DEF counts2

\* A new bus comes with one reference, in hand, and takes over one to its context.
LEMMA BusBorn ==
    ASSUME NEW counts, NEW objects, NEW inHand, NEW routes, NEW b \in Buses,
           Balanced(counts, objects, inHand, routes), b \notin objects,
           inHand[context[b]] > 0
    PROVE  Balanced([counts EXCEPT ![b] = 1], objects \cup {b},
                    More(Less(inHand, context[b]), b), routes)
  <1> DEFINE counts2 == [counts EXCEPT ![b] = 1]
             hand == Less(inHand, context[b])
  <1>1. /\ b \in Counted /\ b \in Children /\ b \in Objects /\ b \notin Contexts
        /\ context[b] \in Counted /\ context[b] # b /\ context[b] \in Contexts
    BY ObjectsAssumption DEF Counted, Children, Objects, Balanced
  <1>2. /\ counts \in [Counted -> Nat] /\ inHand \in [Counted -> Nat]
        /\ context \in [Children -> Contexts]
    BY DEF Balanced
  <1>3. counts[b] = 0 /\ counts[b] = inHand[b] + Cardinality(RidersOf(routes, b))
    BY <1>1, <1>2 DEF Balanced
  <1>4. inHand[b] = 0
    BY <1>1, <1>2, <1>3, FiniteRiders
  <1>5. \A y \in Counted : /\ counts2[y] = IF y = b THEN 1 ELSE counts[y]
                           /\ More(hand, b)[y] = IF y = b THEN 1 ELSE hand[y]
                           /\ hand[y] = IF y = context[b] THEN inHand[y] - 1 ELSE inHand[y]
    BY <1>1, <1>2, <1>4 DEF More, Less
  <1>6. counts2 \in [Counted -> Nat]
    BY <1>1, <1>2
  <1>7. hand \in [Counted -> Nat] /\ More(hand, b) \in [Counted -> Nat]
    BY <1>1, <1>2 DEF More, Less
  <1>8. \A c \in Contexts :
           hand[c] + Cardinality(ChildrenOf(objects \cup {b}, c))
              = inHand[c] + Cardinality(ChildrenOf(objects, c))
    BY <1>1, <1>2, AddChild
  <1> HIDE DEF counts2, hand
  <1>9. \A c \in Contexts : counts2[c] = More(hand, b)[c]
                               + Cardinality(ChildrenOf(objects \cup {b}, c))
    <2> TAKE c \in Contexts
    <2>1. /\ c \in Counted /\ c # b
          /\ counts[c] = inHand[c] + Cardinality(ChildrenOf(objects, c))
      BY <1>1 DEF Balanced, Counted
    <2>2. QED
      BY <1>5, <1>8, <2>1
  <1>10. \A d \in Buses : counts2[d] = More(hand, b)[d] + Cardinality(RidersOf(routes, d))
    <2> TAKE d \in Buses
    <2>1. /\ d \in Counted /\ d # context[b]
          /\ counts[d] = inHand[d] + Cardinality(RidersOf(routes, d))
      BY <1>1, ObjectsAssumption DEF Balanced, Counted
    <2>2. QED
      BY <1>3, <1>4, <1>5, <2>1, FiniteRiders
  <1>11. \A y \in Counted : y \in objects \cup {b} <=> counts2[y] > 0
    BY <1>5 DEF Balanced
  <1>12. Balanced(counts2, objects \cup {b}, More(hand, b), routes)
    BY <1>1, <1>6, <1>7, <1>9, <1>10, <1>11 DEF Balanced
  <1>13. QED
    BY <1>12 DEF counts2, hand

\* A sound or a capture that is opened takes over a reference to its context.
LEMMA LeafBorn ==
    ASSUME NEW counts, NEW objects, NEW inHand, NEW routes, NEW x \in Sounds \cup Captures,
           Balanced(counts, objects, inHand, routes), x \notin objects,
           inHand[context[x]] > 0
    PROVE  Balanced(counts, objects \cup {x}, Less(inHand, context[x]), routes)
  <1>1. /\ x \in Children /\ x \in Objects /\ x \notin Counted
        /\ context[x] \in Contexts /\ context[x] \in Counted
    BY ObjectsAssumption DEF Counted, Children, Objects, Balanced
  <1>2. inHand \in [Counted -> Nat] /\ context \in [Children -> Contexts]
    BY DEF Balanced
  <1>3. Less(inHand, context[x]) \in [Counted -> Nat]
    BY <1>1, <1>2 DEF Less
  <1>4. \A c \in Contexts : counts[c] = Less(inHand, context[x])[c]
                               + Cardinality(ChildrenOf(objects \cup {x}, c))
    BY <1>1, <1>2, AddChild DEF Balanced
  <1>5. \A b \in Buses : Less(inHand, context[x])[b] = inHand[b]
    BY <1>1, <1>2, ObjectsAssumption DEF Less, Counted
  <1>6. QED
    BY <1>1, <1>3, <1>4, <1>5 DEF Balanced

\* A sound or a capture that is freed leaves the reference to its context in hand.
LEMMA LeafGone ==
    ASSUME NEW counts, NEW objects, NEW inHand, NEW routes, NEW x \in Sounds \cup Captures,
           Balanced(counts, objects, inHand, routes), x \in objects
    PROVE  Balanced(counts, objects \ {x}, More(inHand, context[x]), routes)
  <1>1. /\ x \in Children /\ x \notin Counted
        /\ context[x] \in Contexts /\ context[x] \in Counted
    BY ObjectsAssumption DEF Counted, Children, Objects, Balanced
  <1>2. inHand \in [Counted -> Nat] /\ context \in [Children -> Contexts]
    BY DEF Balanced
  <1>3. More(inHand, context[x]) \in [Counted -> Nat]
    BY <1>1, <1>2 DEF More
  <1>4. \A c \in Contexts : counts[c] = More(inHand, context[x])[c]
                               + Cardinality(ChildrenOf(objects \ {x}, c))
    <2> TAKE c \in Contexts
    <2>1. counts[c] = inHand[c] + Cardinality(ChildrenOf(objects, c))
      BY DEF Balanced
    <2>2. QED
      BY SMTT(30), <1>1, <1>2, <2>1, DropChild
  <1>5. \A b \in Buses : More(inHand, context[x])[b] = inHand[b]
    BY <1>1, <1>2, ObjectsAssumption DEF More, Counted
  <1>6. QED
    BY <1>1, <1>3, <1>4, <1>5 DEF Balanced

\* A sound that leaves its bus leaves the reference to it in hand.
LEMMA Unrouted ==
    ASSUME NEW counts, NEW objects, NEW inHand, NEW routes, NEW s \in Sounds,
           Balanced(counts, objects, inHand, routes), routes[s] # NoBus
    PROVE  Balanced(counts, objects, More(inHand, routes[s]), Rerouted(routes, s, NoBus))
  <1>1. /\ routes \in [Sounds -> Buses \cup {NoBus}] /\ inHand \in [Counted -> Nat]
        /\ routes[s] \in Buses /\ routes[s] \in Counted
    BY DEF Balanced, Counted
  <1>2. /\ Rerouted(routes, s, NoBus) \in [Sounds -> Buses \cup {NoBus}]
        /\ More(inHand, routes[s]) \in [Counted -> Nat]
    BY <1>1 DEF Rerouted, More
  <1>3. \A b \in Buses : counts[b] = More(inHand, routes[s])[b]
                            + Cardinality(RidersOf(Rerouted(routes, s, NoBus), b))
    <2> TAKE b \in Buses
    <2>1. counts[b] = inHand[b] + Cardinality(RidersOf(routes, b))
      BY DEF Balanced
    <2>2. QED
      BY <1>1, <2>1, DropRider
  <1>4. \A c \in Contexts : More(inHand, routes[s])[c] = inHand[c]
    BY <1>1, ObjectsAssumption DEF More, Counted
  <1>5. QED
    BY <1>2, <1>3, <1>4 DEF Balanced

\* A sound without a bus takes over a reference to the one it is routed to.
LEMMA Routed ==
    ASSUME NEW counts, NEW objects, NEW inHand, NEW routes, NEW s \in Sounds, NEW new \in Buses,
           Balanced(counts, objects, inHand, routes), routes[s] = NoBus, inHand[new] > 0
    PROVE  Balanced(counts, objects, Less(inHand, new), Rerouted(routes, s, new))
  <1>1. /\ routes \in [Sounds -> Buses \cup {NoBus}] /\ inHand \in [Counted -> Nat]
        /\ new \in Counted
    BY DEF Balanced, Counted
  <1>2. /\ Rerouted(routes, s, new) \in [Sounds -> Buses \cup {NoBus}]
        /\ Less(inHand, new) \in [Counted -> Nat]
    BY <1>1 DEF Rerouted, Less
  <1>3. \A b \in Buses : counts[b] = Less(inHand, new)[b]
                            + Cardinality(RidersOf(Rerouted(routes, s, new), b))
    <2> TAKE b \in Buses
    <2>1. counts[b] = inHand[b] + Cardinality(RidersOf(routes, b))
      BY DEF Balanced
    <2>2. QED
      BY <1>1, <2>1, AddRider
  <1>4. \A c \in Contexts : Less(inHand, new)[c] = inHand[c]
    BY <1>1, ObjectsAssumption DEF Less, Counted
  <1>5. QED
    BY <1>2, <1>3, <1>4 DEF Balanced
-------------------------------------------------------------------------------
\* Between actions the references in hand are the handles of the wrappers.
Handles == [x \in Counted |-> HeldBy(x)]

\* A sound or a capture lives exactly as long as its wrapper has the handle.
LeavesAreHeld == \A x \in Sounds \cup Captures : x \in alive <=> x \in held

\* Closed sounds are on no bus.
RoutedAreHeld == \A s \in Sounds : bus[s] # NoBus => s \in held

\* The inductive invariant
IInv == TypeOK /\ Balanced(refs, alive, Handles, bus) /\ LeavesAreHeld /\ RoutedAreHeld

LEMMA HandlesType == Handles \in [Counted -> Nat] /\ \A x \in Counted : Handles[x] = HeldBy(x)
  BY DEF Handles, HeldBy

LEMMA IInvInit == Init => IInv
  <1> SUFFICES ASSUME Init PROVE IInv
    OBVIOUS
  <1>1. TypeOK
    BY DEF Init, TypeOK, Counted
  <1>2. \A c \in Contexts : ChildrenOf(alive, c) = {}
    BY DEF Init, ChildrenOf
  <1>3. \A b \in Buses : RidersOf(bus, b) = {}
    BY ObjectsAssumption DEF Init, RidersOf
  <1>4. /\ \A c \in Contexts : Cardinality(ChildrenOf(alive, c)) = 0
        /\ \A b \in Buses : Cardinality(RidersOf(bus, b)) = 0
    BY <1>2, <1>3, FS_EmptySet, Zenon
  <1>5. \A x \in Counted : Handles[x] = 0 /\ refs[x] = 0 /\ x \notin alive
    BY DEF Init, Handles, HeldBy, Counted
  <1>6. Balanced(refs, alive, Handles, bus)
    <2>1. /\ refs \in [Counted -> Nat] /\ alive \subseteq Objects
          /\ bus \in [Sounds -> Buses \cup {NoBus}] /\ context \in [Children -> Contexts]
      BY DEF Init, Counted
    <2>2. /\ \A c \in Contexts : refs[c] = Handles[c] + Cardinality(ChildrenOf(alive, c))
          /\ \A b \in Buses : refs[b] = Handles[b] + Cardinality(RidersOf(bus, b))
      BY <1>4, <1>5 DEF Counted
    <2>3. \A x \in Counted : x \in alive <=> refs[x] > 0
      BY <1>5
    <2>4. QED
      BY <2>1, <2>2, <2>3, HandlesType DEF Balanced
  <1>7. LeavesAreHeld /\ RoutedAreHeld
    BY DEF Init, LeavesAreHeld, RoutedAreHeld
  <1>8. QED
    BY <1>1, <1>6, <1>7 DEF IInv
-------------------------------------------------------------------------------
LEMMA HeapIs ==
    Heap.refs = refs /\ Heap.alive = alive /\ Heap = [refs |-> Heap.refs, alive |-> Heap.alive]
  BY DEF Heap

LEMMA HandlesMore ==
    ASSUME NEW x \in Counted, x \notin held, held' = held \cup {x}
    PROVE  Handles' = More(Handles, x)
  <1> DEFINE moved == [y \in Counted |-> IF y = x THEN 1 ELSE HeldBy(y)]
  <1>1. \A y \in Counted : HeldBy(y)' = IF y = x THEN 1 ELSE HeldBy(y)
    BY DEF HeldBy
  <1>2. Handles' = moved
    BY <1>1 DEF Handles
  <1>3. Handles[x] = 0 /\ \A y \in Counted : Handles[y] = HeldBy(y)
    BY DEF Handles, HeldBy
  <1>4. More(Handles, x) = [y \in Counted |-> IF y = x THEN Handles[x] + 1 ELSE Handles[y]]
    BY DEF More, Handles
  <1>5. More(Handles, x) = moved
    BY <1>3, <1>4
  <1>6. QED
    BY <1>2, <1>5

LEMMA HandlesLess ==
    ASSUME NEW x \in Counted, x \in held, held' = held \ {x}
    PROVE  Handles' = Less(Handles, x)
  <1> DEFINE moved == [y \in Counted |-> IF y = x THEN 0 ELSE HeldBy(y)]
  <1>1. \A y \in Counted : HeldBy(y)' = IF y = x THEN 0 ELSE HeldBy(y)
    BY DEF HeldBy
  <1>2. Handles' = moved
    BY <1>1 DEF Handles
  <1>3. Handles[x] = 1 /\ \A y \in Counted : Handles[y] = HeldBy(y)
    BY DEF Handles, HeldBy
  <1>4. Less(Handles, x) = [y \in Counted |-> IF y = x THEN Handles[x] - 1 ELSE Handles[y]]
    BY DEF Less, Handles
  <1>5. Less(Handles, x) = moved
    BY <1>3, <1>4
  <1>6. QED
    BY <1>2, <1>5

LEMMA HandlesSame ==
    ASSUME NEW x, x \notin Counted, held' \in {held, held \cup {x}, held \ {x}}
    PROVE  Handles' = Handles
  <1>1. Handles' = [y \in Counted |-> HeldBy(y)]
    BY DEF Handles, HeldBy
  <1>2. QED
    BY <1>1 DEF Handles

\* The context of an object never changes, so that balance can be stated with
\* the old one.
LEMMA BalancedNext ==
    ASSUME UNCHANGED context, NEW inHand, Handles' = inHand,
           Balanced(refs', alive', inHand, bus')
    PROVE  Balanced(refs, alive, Handles, bus)'
  <1>1. \A c \in Contexts : ChildrenOf(alive, c)' = ChildrenOf(alive', c)
    BY DEF ChildrenOf
  <1>2. \A c \in Contexts : Cardinality(ChildrenOf(alive, c)') = Cardinality(ChildrenOf(alive', c))
    BY <1>1, Zenon
  <1>3. \A b \in Buses : RidersOf(bus, b)' = RidersOf(bus', b)
    BY DEF RidersOf
  <1>4. \A b \in Buses : Cardinality(RidersOf(bus, b)') = Cardinality(RidersOf(bus', b))
    BY <1>3, Zenon
  <1>5. QED
    BY <1>2, <1>4 DEF Balanced

\* Contexts and buses with a wrapper are not freed.
LEMMA HeldIsAlive ==
    ASSUME IInv, NEW x \in Counted, x \in held
    PROVE  x \in alive /\ Handles[x] > 0
  <1>1. Handles[x] = 1
    BY HandlesType DEF HeldBy
  <1>2. CASE x \in Contexts
    <2>1. refs[x] = Handles[x] + Cardinality(ChildrenOf(alive, x))
      BY <1>2 DEF IInv, Balanced
    <2>2. QED
      BY <1>1, <2>1, FiniteChildren DEF IInv, Balanced
  <1>3. CASE x \in Buses
    <2>1. refs[x] = Handles[x] + Cardinality(RidersOf(bus, x))
      BY <1>3 DEF IInv, Balanced
    <2>2. QED
      BY <1>1, <2>1, FiniteRiders DEF IInv, Balanced
  <1>4. QED
    BY <1>2, <1>3 DEF Counted

LEMMA MoreMoreLess ==
    ASSUME NEW inHand \in [Counted -> Nat], NEW x \in Counted, NEW y \in Counted
    PROVE  Less(More(More(inHand, x), y), x) = More(inHand, y)
  <1> DEFINE left == Less(More(More(inHand, x), y), x)
             right == More(inHand, y)
  <1>1. DOMAIN left = Counted /\ DOMAIN right = Counted
    BY DEF More, Less
  <1>2. \A z \in Counted : left[z] = right[z]
    BY DEF More, Less
  <1>3. left = [z \in Counted |-> left[z]] /\ right = [z \in Counted |-> right[z]]
    BY <1>1 DEF More, Less
  <1> HIDE DEF left, right
  <1>4. QED
    BY <1>2, <1>3 DEF left, right
-------------------------------------------------------------------------------
LEMMA CreateContextKeeps ==
    ASSUME IInv, NEW c \in Contexts, CreateContext(c)
    PROVE  IInv'
  <1>1. c \in Counted /\ c \notin Sounds \cup Captures /\ c \in Objects
    BY ObjectsAssumption DEF Counted, Objects
  <1>2. c \notin alive /\ c \notin held
    BY DEF CreateContext, Allocate, IInv, TypeOK
  <1>3. Handles' = More(Handles, c)
    BY <1>1, <1>2, HandlesMore DEF CreateContext, Allocate
  <1>4. Balanced([refs EXCEPT ![c] = 1], alive \cup {c}, More(Handles, c), bus)
    BY <1>2, ContextBorn DEF IInv
  <1>5. Balanced(refs', alive', More(Handles, c), bus')
    BY <1>4, Zenon DEF CreateContext
  <1>6. Balanced(refs, alive, Handles, bus)'
    BY <1>3, <1>5, BalancedNext DEF CreateContext
  <1>7. TypeOK'
    BY <1>1 DEF CreateContext, Allocate, IInv, TypeOK, Counted
  <1>8. LeavesAreHeld' /\ RoutedAreHeld'
    BY <1>1 DEF CreateContext, Allocate, IInv, LeavesAreHeld, RoutedAreHeld
  <1>9. QED
    BY <1>6, <1>7, <1>8 DEF IInv

LEMMA CloseContextKeeps ==
    ASSUME IInv, NEW c \in Contexts, CloseContext(c)
    PROVE  IInv'
  <1> DEFINE closed == ContextClose(Heap, c)
  <1>1. c \in Counted /\ c \notin Sounds \cup Captures /\ c \in held /\ held' = held \ {c}
    BY ObjectsAssumption DEF Counted, CloseContext, GiveUp
  <1>2. Handles' = Less(Handles, c) /\ Handles[c] > 0
    BY <1>1, HandlesLess, HandlesType DEF HeldBy
  <1>3. Balanced(Heap.refs, Heap.alive, Handles, bus)
    BY HeapIs, Zenon DEF IInv
  <1>4. /\ Balanced(closed.refs, closed.alive, Less(Handles, c), bus)
        /\ closed.alive \subseteq Heap.alive
        /\ closed.alive \ Counted = Heap.alive \ Counted
    BY <1>2, <1>3, HeapIs, ContextCloseBalances
  <1>5. refs' = closed.refs /\ alive' = closed.alive /\ UNCHANGED <<born, context, bus>>
    BY DEF CloseContext, Becomes
  <1> HIDE DEF closed
  <1>6. Balanced(refs', alive', Less(Handles, c), bus')
    BY <1>4, <1>5, Zenon
  <1>7. Balanced(refs, alive, Handles, bus)'
    BY <1>2, <1>5, <1>6, BalancedNext
  <1>8. alive' \subseteq alive /\ alive' \ Counted = alive \ Counted
    BY <1>4, <1>5, HeapIs
  <1>9. refs' \in [Counted -> Nat]
    BY <1>6 DEF Balanced
  <1>10. TypeOK'
    BY <1>1, <1>5, <1>8, <1>9 DEF IInv, TypeOK, Counted
  <1>11. LeavesAreHeld' /\ RoutedAreHeld'
    BY <1>1, <1>5, <1>8, ObjectsAssumption DEF IInv, LeavesAreHeld, RoutedAreHeld, Counted
  <1>12. QED
    BY <1>7, <1>10, <1>11 DEF IInv

LEMMA CreateBusKeeps ==
    ASSUME IInv, NEW b \in Buses, CreateBus(b)
    PROVE  IInv'
  <1> DEFINE c == context[b]
             kept == Retain(Heap, c)
             hand == More(Handles, c)
  <1>1. /\ b \in Counted /\ b \in Children /\ b \notin Sounds \cup Captures /\ b \in Objects
        /\ c \in Contexts /\ c \in Counted /\ c # b
    BY ObjectsAssumption DEF Counted, Children, Objects, IInv, TypeOK
  <1>2. /\ b \notin alive /\ b \notin held /\ c \in held /\ held' = held \cup {b}
        /\ born' = born \cup {b} /\ UNCHANGED <<context, bus>>
    BY DEF CreateBus, Allocate, IInv, TypeOK
  <1>3. Balanced(Heap.refs, Heap.alive, Handles, bus)
    BY HeapIs, Zenon DEF IInv
  <1>4. c \in alive
    BY <1>1, <1>2, HeldIsAlive
  <1>5. /\ Balanced(kept.refs, kept.alive, hand, bus)
        /\ kept.alive = alive /\ kept.refs = [refs EXCEPT ![c] = @ + 1]
    <2>1. /\ Balanced(kept.refs, kept.alive, hand, bus)
          /\ kept.alive = Heap.alive
      BY <1>1, <1>3, <1>4, HeapIs, RetainBalances
    <2>2. kept.refs = [refs EXCEPT ![c] = @ + 1]
      BY HeapIs DEF Retain
    <2>3. QED
      BY <2>1, <2>2, HeapIs
  <1>6. refs' = [[refs EXCEPT ![c] = @ + 1] EXCEPT ![b] = 1] /\ alive' = alive \cup {b}
    BY <1>1 DEF CreateBus, Becomes, Heap, Retain, IInv, TypeOK, Counted
  <1>7. refs' = [kept.refs EXCEPT ![b] = 1] /\ alive' = kept.alive \cup {b}
    BY <1>5, <1>6
  <1>8. hand[c] > 0 /\ Less(hand, c) = Handles
    BY <1>1, HandlesType, MoreLess
  <1> HIDE DEF kept, hand
  <1>9. Balanced([kept.refs EXCEPT ![b] = 1], kept.alive \cup {b}, More(Less(hand, c), b), bus)
    BY <1>2, <1>5, <1>8, BusBorn
  <1>10. Balanced(refs', alive', More(Handles, b), bus')
    <2>1. Balanced(refs', alive', More(Handles, b), bus)
      BY <1>7, <1>8, <1>9, Zenon
    <2>2. QED
      BY <1>2, <2>1
  <1>11. Handles' = More(Handles, b)
    BY <1>1, <1>2, HandlesMore
  <1>12. Balanced(refs, alive, Handles, bus)'
    BY <1>2, <1>10, <1>11, BalancedNext
  <1>13. refs' \in [Counted -> Nat] /\ alive' = alive \cup {b}
    BY <1>6, <1>10 DEF Balanced
  <1>14. TypeOK'
    BY <1>1, <1>2, <1>13 DEF IInv, TypeOK, Counted
  <1>15. LeavesAreHeld' /\ RoutedAreHeld'
    BY <1>1, <1>2, <1>13 DEF IInv, LeavesAreHeld, RoutedAreHeld
  <1>16. QED
    BY <1>12, <1>14, <1>15 DEF IInv

LEMMA OpenKeeps ==
    ASSUME IInv, NEW x \in Sounds \cup Captures, Open(x)
    PROVE  IInv'
  <1> DEFINE c == context[x]
             kept == Retain(Heap, c)
             hand == More(Handles, c)
  <1>1. /\ x \notin Counted /\ x \in Children /\ x \in Objects
        /\ c \in Contexts /\ c \in Counted
    BY ObjectsAssumption DEF Counted, Children, Objects, IInv, TypeOK
  <1>2. /\ x \notin alive /\ x \notin held /\ c \in held /\ held' = held \cup {x}
        /\ born' = born \cup {x} /\ UNCHANGED <<context, bus>>
    BY DEF Open, Allocate, IInv, TypeOK
  <1>3. Balanced(Heap.refs, Heap.alive, Handles, bus)
    BY HeapIs, Zenon DEF IInv
  <1>4. c \in alive
    BY <1>1, <1>2, HeldIsAlive
  <1>5. Balanced(kept.refs, kept.alive, hand, bus) /\ kept.alive = alive
    BY <1>1, <1>3, <1>4, HeapIs, RetainBalances
  <1>6. refs' = kept.refs /\ alive' = kept.alive \cup {x}
    BY HeapIs DEF Open, Becomes, Retain
  <1>7. hand[c] > 0 /\ Less(hand, c) = Handles
    BY <1>1, HandlesType, MoreLess
  <1> HIDE DEF kept, hand
  <1>8. Balanced(kept.refs, kept.alive \cup {x}, Less(hand, c), bus)
    BY <1>2, <1>5, <1>7, LeafBorn
  <1>9. Balanced(refs', alive', Handles, bus')
    <2>1. Balanced(refs', alive', Handles, bus)
      BY <1>6, <1>7, <1>8, Zenon
    <2>2. QED
      BY <1>2, <2>1
  <1>10. Handles' = Handles
    BY <1>1, <1>2, HandlesSame
  <1>11. Balanced(refs, alive, Handles, bus)'
    BY <1>2, <1>9, <1>10, BalancedNext
  <1>12. refs' \in [Counted -> Nat] /\ alive' = alive \cup {x}
    BY <1>5, <1>6, <1>9 DEF Balanced
  <1>13. TypeOK'
    BY <1>1, <1>2, <1>12 DEF IInv, TypeOK, Counted
  <1>14. LeavesAreHeld' /\ RoutedAreHeld'
    BY <1>1, <1>2, <1>12 DEF IInv, LeavesAreHeld, RoutedAreHeld
  <1>15. QED
    BY <1>11, <1>13, <1>14 DEF IInv

LEMMA CloseBusKeeps ==
    ASSUME IInv, NEW b \in Buses, CloseBus(b)
    PROVE  IInv'
  <1> DEFINE closed == BusClose(Heap, b)
  <1>1. b \in Counted /\ b \notin Sounds \cup Captures /\ b \in held /\ held' = held \ {b}
    BY ObjectsAssumption DEF Counted, CloseBus, GiveUp
  <1>2. Handles' = Less(Handles, b) /\ Handles[b] > 0
    BY <1>1, HandlesLess, HandlesType DEF HeldBy
  <1>3. Balanced(Heap.refs, Heap.alive, Handles, bus)
    BY HeapIs, Zenon DEF IInv
  <1>4. /\ Balanced(closed.refs, closed.alive, Less(Handles, b), bus)
        /\ closed.alive \subseteq Heap.alive
        /\ closed.alive \ Counted = Heap.alive \ Counted
    BY <1>2, <1>3, HeapIs, BusCloseBalances
  <1>5. refs' = closed.refs /\ alive' = closed.alive /\ UNCHANGED <<born, context, bus>>
    BY DEF CloseBus, Becomes
  <1> HIDE DEF closed
  <1>6. Balanced(refs', alive', Less(Handles, b), bus')
    BY <1>4, <1>5, Zenon
  <1>7. Balanced(refs, alive, Handles, bus)'
    BY <1>2, <1>5, <1>6, BalancedNext
  <1>8. alive' \subseteq alive /\ alive' \ Counted = alive \ Counted
    BY <1>4, <1>5, HeapIs
  <1>9. refs' \in [Counted -> Nat]
    BY <1>6 DEF Balanced
  <1>10. TypeOK'
    BY <1>1, <1>5, <1>8, <1>9 DEF IInv, TypeOK, Counted
  <1>11. LeavesAreHeld' /\ RoutedAreHeld'
    BY <1>1, <1>5, <1>8, ObjectsAssumption DEF IInv, LeavesAreHeld, RoutedAreHeld, Counted
  <1>12. QED
    BY <1>7, <1>10, <1>11 DEF IInv

\* The bus of a sound is closed after the sound has left it.
LEMMA BusLeft ==
    ASSUME NEW heap, heap = [refs |-> heap.refs, alive |-> heap.alive],
           NEW inHand \in [Counted -> Nat], NEW routes, NEW s \in Sounds,
           Balanced(heap.refs, heap.alive, inHand, routes)
    PROVE  LET closed == BusClose(heap, routes[s])
           IN /\ Balanced(closed.refs, closed.alive, inHand, Rerouted(routes, s, NoBus))
              /\ closed = [refs |-> closed.refs, alive |-> closed.alive]
              /\ closed.alive \subseteq heap.alive
              /\ closed.alive \ Counted = heap.alive \ Counted
  <1> DEFINE old == routes[s]
             closed == BusClose(heap, old)
  <1>1. routes \in [Sounds -> Buses \cup {NoBus}] /\ old \in Buses \cup {NoBus}
    BY DEF Balanced
  <1>2. CASE old = NoBus
    <2>1. closed = heap
      BY <1>2 DEF BusClose
    <2>2. Rerouted(routes, s, NoBus) = routes
      BY <1>1, <1>2 DEF Rerouted
    <2>3. QED
      BY <2>1, <2>2
  <1>3. CASE old # NoBus
    <2>1. old \in Buses /\ old \in Counted
      BY <1>1, <1>3 DEF Counted
    <2>2. Balanced(heap.refs, heap.alive, More(inHand, old), Rerouted(routes, s, NoBus))
      BY <1>3, Unrouted
    <2>3. More(inHand, old)[old] > 0 /\ Less(More(inHand, old), old) = inHand
      BY <2>1, MoreLess
    <2>4. /\ Balanced(closed.refs, closed.alive, Less(More(inHand, old), old),
                      Rerouted(routes, s, NoBus))
          /\ closed = [refs |-> closed.refs, alive |-> closed.alive]
          /\ closed.alive \subseteq heap.alive
          /\ closed.alive \ Counted = heap.alive \ Counted
      BY <2>1, <2>2, <2>3, BusCloseBalances
    <2>5. QED
      BY <2>3, <2>4, Zenon
  <1>4. QED
    BY <1>2, <1>3

LEMMA CloseSoundKeeps ==
    ASSUME IInv, NEW s \in Sounds, CloseSound(s)
    PROVE  IInv'
  <1> DEFINE c == context[s]
             left == BusClose(Heap, bus[s])
             freed == [left EXCEPT !.alive = @ \ {s}]
             closed == ContextClose(freed, c)
             off == Rerouted(bus, s, NoBus)
  <1>1. /\ s \notin Counted /\ s \in Children /\ c \in Contexts /\ c \in Counted
        /\ s \in held /\ s \in alive /\ held' = held \ {s}
    BY ObjectsAssumption DEF Counted, Children, IInv, TypeOK, LeavesAreHeld, CloseSound, GiveUp
  <1>2. Handles \in [Counted -> Nat] /\ Balanced(Heap.refs, Heap.alive, Handles, bus)
    BY HeapIs, HandlesType, Zenon DEF IInv
  <1>3. /\ Balanced(left.refs, left.alive, Handles, off)
        /\ left = [refs |-> left.refs, alive |-> left.alive]
        /\ left.alive \subseteq alive
        /\ left.alive \ Counted = alive \ Counted
    <2>1. Heap = [refs |-> Heap.refs, alive |-> Heap.alive] /\ Heap.alive = alive
      BY HeapIs
    <2>2. /\ Balanced(left.refs, left.alive, Handles, off)
          /\ left = [refs |-> left.refs, alive |-> left.alive]
          /\ left.alive \subseteq Heap.alive
          /\ left.alive \ Counted = Heap.alive \ Counted
      BY <1>2, <2>1, BusLeft
    <2>3. QED
      BY <2>1, <2>2
  <1>4. /\ refs' = closed.refs /\ alive' = closed.alive /\ bus' = off
        /\ UNCHANGED <<born, context>>
    BY DEF CloseSound, Becomes, Rerouted
  <1> HIDE DEF left
  <1>5. /\ freed.refs = left.refs /\ freed.alive = left.alive \ {s}
        /\ freed = [refs |-> freed.refs, alive |-> freed.alive]
    BY <1>3
  <1>6. s \in left.alive
    BY <1>1, <1>3
  <1> HIDE DEF freed, off
  <1>7. Balanced(left.refs, left.alive \ {s}, More(Handles, c), off)
    BY <1>1, <1>3, <1>6, LeafGone
  <1>8. Balanced(freed.refs, freed.alive, More(Handles, c), off)
    BY <1>5, <1>7, Zenon
  <1>9. More(Handles, c)[c] > 0 /\ Less(More(Handles, c), c) = Handles
    BY <1>1, <1>2, MoreLess
  <1>10. /\ Balanced(closed.refs, closed.alive, Less(More(Handles, c), c), off)
         /\ closed.alive \subseteq freed.alive
         /\ closed.alive \ Counted = freed.alive \ Counted
    BY <1>1, <1>5, <1>8, <1>9, ContextCloseBalances
  <1> HIDE DEF closed
  <1>11. Balanced(refs', alive', Handles, bus')
    BY <1>4, <1>9, <1>10, Zenon
  <1>12. Handles' = Handles
    BY <1>1, HandlesSame
  <1>13. Balanced(refs, alive, Handles, bus)'
    BY <1>4, <1>11, <1>12, BalancedNext
  <1>14. /\ alive' \subseteq alive \ {s} /\ alive' \ Counted = (alive \ Counted) \ {s}
         /\ refs' \in [Counted -> Nat] /\ bus' \in [Sounds -> Buses \cup {NoBus}]
    BY <1>3, <1>4, <1>5, <1>10, <1>11 DEF Balanced
  <1>15. TypeOK'
    BY <1>1, <1>4, <1>14 DEF IInv, TypeOK, Counted
  <1>16. LeavesAreHeld'
    BY <1>1, <1>14, ObjectsAssumption DEF IInv, LeavesAreHeld, Counted
  <1>17. RoutedAreHeld'
    BY <1>1, <1>4, ObjectsAssumption DEF IInv, RoutedAreHeld, TypeOK, Rerouted, off
  <1>18. QED
    BY <1>13, <1>15, <1>16, <1>17 DEF IInv

LEMMA CloseCaptureKeeps ==
    ASSUME IInv, NEW k \in Captures, CloseCapture(k)
    PROVE  IInv'
  <1> DEFINE c == context[k]
             freed == [Heap EXCEPT !.alive = @ \ {k}]
             closed == ContextClose(freed, c)
  <1>1. /\ k \notin Counted /\ k \in Children /\ k \notin Sounds
        /\ c \in Contexts /\ c \in Counted
        /\ k \in held /\ k \in alive /\ held' = held \ {k}
    BY ObjectsAssumption DEF Counted, Children, IInv, TypeOK, LeavesAreHeld, CloseCapture, GiveUp
  <1>2. Handles \in [Counted -> Nat]
    BY HandlesType
  <1>3. /\ refs' = closed.refs /\ alive' = closed.alive
        /\ UNCHANGED <<born, context, bus>>
    BY DEF CloseCapture, Becomes
  <1>4. /\ freed.refs = refs /\ freed.alive = alive \ {k}
        /\ freed = [refs |-> freed.refs, alive |-> freed.alive]
    BY DEF Heap
  <1> HIDE DEF freed
  <1>5. Balanced(refs, alive \ {k}, More(Handles, c), bus)
    BY <1>1, LeafGone DEF IInv
  <1>6. Balanced(freed.refs, freed.alive, More(Handles, c), bus)
    BY <1>4, <1>5, Zenon
  <1>7. More(Handles, c)[c] > 0 /\ Less(More(Handles, c), c) = Handles
    BY <1>1, <1>2, MoreLess
  <1>8. /\ Balanced(closed.refs, closed.alive, Less(More(Handles, c), c), bus)
        /\ closed.alive \subseteq freed.alive
        /\ closed.alive \ Counted = freed.alive \ Counted
    BY <1>1, <1>4, <1>6, <1>7, ContextCloseBalances
  <1> HIDE DEF closed
  <1>9. Balanced(refs', alive', Handles, bus')
    BY <1>3, <1>7, <1>8, Zenon
  <1>10. Handles' = Handles
    BY <1>1, HandlesSame
  <1>11. Balanced(refs, alive, Handles, bus)'
    BY <1>3, <1>9, <1>10, BalancedNext
  <1>12. /\ alive' \subseteq alive \ {k} /\ alive' \ Counted = (alive \ Counted) \ {k}
         /\ refs' \in [Counted -> Nat]
    BY <1>3, <1>4, <1>8, <1>9 DEF Balanced
  <1>13. TypeOK'
    BY <1>1, <1>3, <1>12 DEF IInv, TypeOK, Counted
  <1>14. LeavesAreHeld' /\ RoutedAreHeld'
    BY <1>1, <1>3, <1>12, ObjectsAssumption DEF IInv, LeavesAreHeld, RoutedAreHeld, Counted
  <1>15. QED
    BY <1>11, <1>13, <1>14 DEF IInv

LEMMA RouteKeeps ==
    ASSUME IInv, NEW s \in Sounds, NEW b \in Buses, Route(s, b)
    PROVE  IInv'
  <1> DEFINE old == bus[s]
             kept == Retain(Heap, b)
             hand == More(Handles, b)
             closed == BusClose(kept, old)
             on == Rerouted(bus, s, b)
  <1>1. /\ b \in Counted /\ b \in held /\ s \in held
        /\ refs' = closed.refs /\ alive' = closed.alive /\ bus' = on
        /\ UNCHANGED <<born, held, context>>
    BY DEF Counted, Route, Becomes, Reroute, Rerouted
  <1>2. /\ Handles \in [Counted -> Nat] /\ Balanced(Heap.refs, Heap.alive, Handles, bus)
        /\ bus \in [Sounds -> Buses \cup {NoBus}] /\ b \in Heap.alive
    BY <1>1, HeapIs, HandlesType, HeldIsAlive, Zenon DEF IInv, TypeOK
  <1>3. /\ Balanced(kept.refs, kept.alive, hand, bus)
        /\ kept = [refs |-> kept.refs, alive |-> kept.alive]
        /\ kept.alive = alive
    BY <1>1, <1>2, HeapIs, RetainBalances
  <1>4. hand \in [Counted -> Nat] /\ hand[b] > 0 /\ Less(hand, b) = Handles
    BY <1>1, <1>2, MoreLess
  <1>5. /\ Balanced(closed.refs, closed.alive, Handles, on)
        /\ closed.alive \subseteq alive
        /\ closed.alive \ Counted = alive \ Counted
    <2> DEFINE off == Rerouted(bus, s, NoBus)
    <2> HIDE DEF kept, hand, on, off
    <2>1. /\ Balanced(closed.refs, closed.alive, hand, off)
          /\ closed.alive \subseteq alive
          /\ closed.alive \ Counted = alive \ Counted
      <3>1. /\ Balanced(closed.refs, closed.alive, hand, off)
            /\ closed.alive \subseteq kept.alive
            /\ closed.alive \ Counted = kept.alive \ Counted
        BY <1>3, <1>4, BusLeft DEF off
      <3>2. QED
        BY <1>3, <3>1
    <2>2. off[s] = NoBus
      BY <1>2 DEF off, Rerouted
    <2>3. Balanced(closed.refs, closed.alive, Less(hand, b), Rerouted(off, s, b))
      BY <1>4, <2>1, <2>2, Routed
    <2>4. Rerouted(off, s, b) = on
      BY <1>2 DEF off, on, Rerouted
    <2>5. QED
      BY <1>4, <2>1, <2>3, <2>4, Zenon
  <1> HIDE DEF closed, on
  <1>6. Balanced(refs', alive', Handles, bus')
    BY <1>1, <1>5, Zenon
  <1>7. Handles' = Handles
    BY <1>1 DEF Handles, HeldBy
  <1>8. Balanced(refs, alive, Handles, bus)'
    BY <1>1, <1>6, <1>7, BalancedNext
  <1>9. /\ alive' \subseteq alive /\ alive' \ Counted = alive \ Counted
        /\ refs' \in [Counted -> Nat] /\ bus' \in [Sounds -> Buses \cup {NoBus}]
    BY <1>1, <1>5, <1>6 DEF Balanced
  <1>10. TypeOK'
    BY <1>1, <1>9 DEF IInv, TypeOK, Counted
  <1>11. LeavesAreHeld'
    BY <1>1, <1>9, ObjectsAssumption DEF IInv, LeavesAreHeld, Counted
  <1>12. RoutedAreHeld'
    BY <1>1, <1>2 DEF IInv, RoutedAreHeld, Rerouted, on
  <1>13. QED
    BY <1>8, <1>10, <1>11, <1>12 DEF IInv
-------------------------------------------------------------------------------
LEMMA IInvStep == IInv /\ [Next]_vars => IInv'
  <1> SUFFICES ASSUME IInv, [Next]_vars PROVE IInv'
    OBVIOUS
  <1>1. ASSUME NEW c \in Contexts, CreateContext(c) \/ CloseContext(c) PROVE IInv'
    BY <1>1, CreateContextKeeps, CloseContextKeeps
  <1>2. ASSUME NEW b \in Buses, CreateBus(b) \/ CloseBus(b) PROVE IInv'
    BY <1>2, CreateBusKeeps, CloseBusKeeps
  <1>3. ASSUME NEW s \in Sounds, Open(s) \/ CloseSound(s) \/ \E b \in Buses : Route(s, b)
        PROVE  IInv'
    BY <1>3, OpenKeeps, CloseSoundKeeps, RouteKeeps
  <1>4. ASSUME NEW k \in Captures, Open(k) \/ CloseCapture(k) PROVE IInv'
    BY <1>4, OpenKeeps, CloseCaptureKeeps
  <1>5. CASE UNCHANGED vars
    <2>1. Handles' = Handles /\ UNCHANGED <<refs, alive, bus, held, context, born>>
      BY <1>5 DEF vars, Handles, HeldBy
    <2>2. Balanced(refs, alive, Handles, bus)'
      <3>1. Balanced(refs', alive', Handles, bus')
        BY <2>1, Zenon DEF IInv
      <3>2. QED
        BY <2>1, <3>1, BalancedNext
    <2>3. QED
      BY <2>1, <2>2 DEF IInv, TypeOK, LeavesAreHeld, RoutedAreHeld
  <1>6. QED
    BY <1>1, <1>2, <1>3, <1>4, <1>5 DEF Next

LEMMA IInvAlways == Spec => []IInv
  BY IInvInit, IInvStep, PTL DEF Spec

\* The objects of the wavio engine are always of their types, and no count is
\* ever negative, in whatever order wrappers are opened, routed and closed.
THEOREM TypeCorrect == Spec => []TypeOK
  <1>1. IInv => TypeOK
    BY DEF IInv
  <1>2. QED
    BY <1>1, IInvAlways, PTL

\* Every count in wavio contexts and buses equals the number of its owners: the
\* wrapper, the objects opened on a context, the sounds routed to a bus.
THEOREM CountsAreOwners == Spec => []RefsAreOwners
  <1>1. IInv => RefsAreOwners
    BY HandlesType DEF IInv, Balanced, RefsAreOwners, ChildrenOf, RidersOf, Counted
  <1>2. QED
    BY <1>1, IInvAlways, PTL

\* No wrapper and no live object of wavio points to one that has been freed.
THEOREM NoDanglingPointer == Spec => []NothingDangles
  <1>1. IInv => NothingDangles
    <2> SUFFICES ASSUME IInv PROVE NothingDangles
      OBVIOUS
    <2>1. held \subseteq alive
      <3>1. \A x \in held : x \in Counted \cup Sounds \cup Captures
        BY DEF IInv, TypeOK, Objects, Children, Counted
      <3>2. QED
        BY <3>1, HeldIsAlive DEF IInv, LeavesAreHeld
    <2>2. ASSUME NEW x \in Children \cap alive PROVE context[x] \in alive
      <3>1. context[x] \in Contexts /\ context[x] \in Counted
        BY DEF IInv, TypeOK, Counted
      <3>2. x \in ChildrenOf(alive, context[x])
        BY DEF ChildrenOf
      <3>3. Cardinality(ChildrenOf(alive, context[x])) # 0
        BY <3>2, FiniteChildren, FS_EmptySet
      <3>4. refs[context[x]] > 0
        BY <3>1, <3>3, FiniteChildren DEF IInv, Balanced
      <3>5. QED
        BY <3>1, <3>4 DEF IInv, Balanced
    <2>3. ASSUME NEW s \in Sounds, bus[s] # NoBus PROVE bus[s] \in alive
      <3>1. bus[s] \in Buses /\ bus[s] \in Counted
        BY <2>3 DEF IInv, TypeOK, Counted
      <3>2. s \in RidersOf(bus, bus[s])
        BY DEF RidersOf
      <3>3. Cardinality(RidersOf(bus, bus[s])) # 0
        BY <3>2, FiniteRiders, FS_EmptySet
      <3>4. refs[bus[s]] > 0
        BY <3>1, <3>3, FiniteRiders DEF IInv, Balanced
      <3>5. QED
        BY <3>1, <3>4 DEF IInv, Balanced
    <2>4. QED
      BY <2>1, <2>2, <2>3 DEF NothingDangles
  <1>2. QED
    BY <1>1, IInvAlways, PTL

\* Once every wavio wrapper is closed, every native object has been freed.
THEOREM AllIsFreed == Spec => []NothingLeaks
  <1>1. IInv => NothingLeaks
    <2> SUFFICES ASSUME IInv, held = {} PROVE alive = {}
      BY DEF NothingLeaks
    <2>1. \A x \in Sounds \cup Captures : x \notin alive
      BY DEF IInv, LeavesAreHeld
    <2>2. \A x \in Counted : Handles[x] = 0
      BY HandlesType DEF HeldBy
    <2>3. \A b \in Buses : b \notin alive
      <3> TAKE b \in Buses
      <3>1. RidersOf(bus, b) = {}
        BY ObjectsAssumption DEF IInv, RoutedAreHeld, RidersOf
      <3>2. Cardinality(RidersOf(bus, b)) = 0
        BY <3>1, FS_EmptySet, Zenon
      <3>3. QED
        BY <2>2, <3>2 DEF IInv, Balanced, Counted
    <2>4. \A c \in Contexts : c \notin alive
      <3> TAKE c \in Contexts
      <3>1. ChildrenOf(alive, c) = {}
        BY <2>1, <2>3 DEF ChildrenOf, Children
      <3>2. Cardinality(ChildrenOf(alive, c)) = 0
        BY <3>1, FS_EmptySet, Zenon
      <3>3. QED
        BY <2>2, <3>2 DEF IInv, Balanced, Counted
    <2>5. QED
      BY <2>1, <2>3, <2>4 DEF IInv, Balanced, Objects, Children
  <1>2. QED
    BY <1>1, IInvAlways, PTL
===============================================================================
